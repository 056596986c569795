----------------------------- MODULE ClientHello -----------------------------
(***************************************************************************)
(* ClientHello messages and Encrypted ClientHello (ech.go): what a client  *)
(* offers, how the inner hello is sealed in the outer one, and how the     *)
(* client-facing server accepts or rejects it.                             *)
(* A byte string is what it was computed from: a ciphertext is its key,    *)
(* sequence number, plaintext and associated data.                         *)
(***************************************************************************)
EXTENDS Naturals, Sequences

\* hello.ech of the three kinds; the payload of a fresh outer extension is filled later.
NoECH == [variant |-> "absent"]
InnerECH == [variant |-> "inner"]
NoPayload == [seq |-> 0]
OuterECH(configId, enc) == [variant |-> "outer", configId |-> configId, enc |-> enc, payload |-> NoPayload]

echIsInner(hello) == hello.ech = InnerECH

\* A key share is named by its group and by the hello it was generated for.
KeyShares(groups, random) == [i \in DOMAIN groups |-> [group |-> groups[i], key |-> random]]

\* config.groups is curvePreferences(), config.guess is ClientCurveGuess.
makeClientHello(config, random) ==
    [type |-> "clientHello", random |-> random, serverName |-> "private",
     groups |-> config.groups, keyShares |-> KeyShares(config.guess, random),
     pskModes |-> FALSE, psk |-> "none", binder |-> << >>,
     mtls |-> config.mtls, ech |-> NoECH]

\* An HPKE context: made from an encapsulated key and a private key (hpke.Sealer,
\* hpke.Opener); seq counts the messages.
NoContext == [enc |-> "none", key |-> "none", seq |-> 0]
Context(enc, key) == [enc |-> enc, key |-> key, seq |-> 0]
Used(context) == [context EXCEPT !.seq = @ + 1]

\* EncodedClientHelloInner: "key_share" is left out and taken from the outer hello.
echEncodeClientHelloInner(inner) == [inner EXCEPT !.keyShares = << >>]
echDecodeClientHelloInner(encoded, outer) == [encoded EXCEPT !.keyShares = outer.keyShares]

\* ClientHelloOuterAAD: the outer hello with its payload zeroed.
echEncodeClientHelloOuterAAD(outer) == [outer EXCEPT !.ech.payload = NoPayload]

Seal(sealer, plaintext, aad) == [context |-> sealer, plaintext |-> plaintext, aad |-> aad]

Opens(opener, outer) ==
    /\ "context" \in DOMAIN outer.ech.payload
    /\ outer.ech.payload.context = opener
    /\ outer.ech.payload.aad = echEncodeClientHelloOuterAAD(outer)

echUpdateClientHelloOuter(hello, inner, sealer, configId, enc) ==
    LET outer == [hello EXCEPT !.keyShares = inner.keyShares, !.ech = OuterECH(configId, enc)]
    IN [outer EXCEPT !.ech.payload =
          Seal(sealer, echEncodeClientHelloInner(inner), echEncodeClientHelloOuterAAD(outer))]

-----------------------------------------------------------------------------

\* What a client has decided before it sends: the hello on the wire, the inner hello,
\* the sealer.  config.ech is "off", "grease" or a configuration of config.echConfigs.
echOfferOrGrease(config) ==
    LET base == makeClientHello(config, "base")
        inner == [base EXCEPT !.ech = InnerECH]
        fresh == [makeClientHello(config, "outer") EXCEPT !.serverName = "public"]
        sealer == Context("offer", config.ech.key)
    IN CASE config.ech.use = "off" ->
              [hello |-> base, inner |-> base, sealer |-> NoContext, offered |-> FALSE, greased |-> FALSE]
         [] config.ech.use = "grease" ->
              [hello |-> [base EXCEPT !.ech = OuterECH(config.ech.configId, "grease")],
               inner |-> base, sealer |-> NoContext, offered |-> FALSE, greased |-> TRUE]
         [] config.ech.use = "offer" ->
              [hello |-> echUpdateClientHelloOuter(fresh, inner, sealer, config.ech.configId, "offer"),
               inner |-> inner, sealer |-> Used(sealer), offered |-> TRUE, greased |-> FALSE]

\* What echAcceptOrReject knows and leaves behind (Conn.ech), and its result: the hello
\* to go on with, or an alert.
NoECHState == [offered |-> FALSE, greased |-> FALSE, accepted |-> FALSE,
               configId |-> 0, opener |-> NoContext, retryConfigs |-> FALSE]

Continue(ech, hello) == [ech |-> ech, hello |-> hello, alert |-> "none"]
Abort(ech, hello, alert) == [ech |-> ech, hello |-> hello, alert |-> alert]
Reject(ech, hello) == Continue([ech EXCEPT !.greased = TRUE], hello)

\* A faulty version: the provider is asked for the second hello too.
ProvidedAgain(ech, keys, hello) ==
    [ech EXCEPT
      !.configId = hello.ech.configId,
      !.retryConfigs = @ \/ DOMAIN keys # {},
      !.opener = IF hello.ech.configId \in DOMAIN keys
                 THEN [Context(hello.ech.enc, keys[hello.ech.configId]) EXCEPT !.seq = ech.opener.seq]
                 ELSE NoContext]

\* GetDecryptionContext of EXP_ECHKeySet: keys maps configuration identifiers to keys.
Provided(ech, keys, hello) ==
    [ech EXCEPT
      !.configId = hello.ech.configId,
      !.retryConfigs = @ \/ (ech.opener = NoContext /\ DOMAIN keys # {}),
      !.opener = IF ech.opener = NoContext /\ hello.ech.configId \in DOMAIN keys
                 THEN Context(hello.ech.enc, keys[hello.ech.configId]) ELSE @]

\* A faulty version: ECH counts as accepted once the provider knows the configuration.
OpenedEarly(ech, hello, afterHRR) ==
    CASE ech.opener = NoContext -> Reject(ech, hello)
      [] ech.opener # NoContext /\ Opens(ech.opener, hello) ->
           Continue([ech EXCEPT !.offered = TRUE, !.accepted = TRUE, !.opener = Used(@)],
                    echDecodeClientHelloInner(hello.ech.payload.plaintext, hello))
      [] ech.opener # NoContext /\ ~Opens(ech.opener, hello) ->
           Reject([ech EXCEPT !.accepted = TRUE], hello)

\* The payload opens or not, once there is an opener.
Opened(ech, hello, afterHRR) ==
    CASE ech.opener = NoContext -> Reject(ech, hello)
      [] ech.opener # NoContext /\ Opens(ech.opener, hello) ->
           Continue([ech EXCEPT !.offered = TRUE, !.accepted = TRUE, !.opener = Used(@)],
                    echDecodeClientHelloInner(hello.ech.payload.plaintext, hello))
      [] ech.opener # NoContext /\ ~Opens(ech.opener, hello) ->
           IF afterHRR /\ ech.accepted THEN Abort(ech, hello, "decrypt_error") ELSE Reject(ech, hello)

echAcceptOrReject(ech, canAccept, keys, hello, afterHRR) ==
    CASE ~canAccept \/ hello.ech = InnerECH -> Continue(ech, hello)
      [] canAccept /\ hello.ech = NoECH ->
           IF ech.offered THEN Abort(ech, hello, "missing_extension") ELSE Continue(ech, hello)
      [] canAccept /\ hello.ech.variant = "outer" ->
           IF afterHRR /\ (\/ ~ech.offered /\ ~ech.greased
                           \/ ech.offered /\ (hello.ech.configId # ech.configId \/ hello.ech.enc # "none"))
           THEN Abort(ech, hello, "illegal_parameter")
           ELSE Opened(Provided(ech, keys, hello), hello, afterHRR)

\* The fields a second hello may not change.
illegalClientHelloChange(ch, ch1) ==
    \/ ch.groups # ch1.groups
    \/ ch.random # ch1.random
    \/ ch.serverName # ch1.serverName
    \/ ch.pskModes # ch1.pskModes

-----------------------------------------------------------------------------

\* Bytes of padding that echEncodeClientHelloInner adds to an encoding of the given
\* length, for a name of length nameLen (0 without "server_name") and maximum_name_len.
PaddingLen(encodedLen, nameLen, maxNameLen) ==
    LET forName == IF nameLen > 0 THEN IF maxNameLen > nameLen THEN maxNameLen - nameLen ELSE 0
                                  ELSE 9 + maxNameLen
    IN 31 - ((encodedLen + forName - 1) % 32)
=============================================================================
