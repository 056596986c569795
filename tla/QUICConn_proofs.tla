-------------------------- MODULE QUICConn_proofs --------------------------
(***************************************************************************)
(* Proofs of Handover and EventsInOrder of QUICConn.  Each is about one    *)
(* side, and every step is one of one side, so the invariant is one about  *)
(* a single connection, whatever the other does.                           *)
(***************************************************************************)
EXTENDS QUICConn, TLAPS

-----------------------------------------------------------------------------
(* The invariants.                                                         *)

Fields == {"call", "place", "step", "handshakeMutex", "readbuf", "hand", "events", "log",
           "inLevel", "outLevel", "secrets", "started", "transportParams", "paramsEarly",
           "canceled", "isHandshakeComplete", "handshakeErr", "early", "sessionTicketSent",
           "alert", "wrongLevel", "asked"}

Event == [kind : Kinds, level : Levels, data : Seq(Piece)]

\* The fields that a connection has, and what is in them.
PlainType(c) ==
    /\ c.inLevel \in Levels /\ c.secrets \subseteq Levels
    /\ c.transportParams \in BOOLEAN /\ c.paramsEarly \in BOOLEAN /\ c.canceled \in BOOLEAN
    /\ c.isHandshakeComplete \in BOOLEAN /\ c.handshakeErr \in BOOLEAN /\ c.early \in BOOLEAN
    /\ c.sessionTicketSent \in BOOLEAN /\ c.alert \in BOOLEAN /\ c.wrongLevel \in BOOLEAN
    /\ c.asked \in BOOLEAN

ConnType(c) ==
    /\ DOMAIN c = Fields /\ PlainType(c)
    /\ c.call \in Calls /\ c.place \in Places /\ c.step \in Steps
    /\ c.handshakeMutex \in {"free", "user", "handshake"} /\ c.started \in BOOLEAN
    /\ c.readbuf \in Seq(Piece) /\ c.hand \in Seq(Piece)
    /\ c.events \in Seq(Event) /\ c.log \in Seq(Kinds \X Levels)
    /\ c.outLevel \in Levels

\* Who owns the connection: Handover, and that nobody waits for handshakeMutex before
\* the handshake is over.
OwnInv(c) ==
    /\ c.place \in {"run", "relock", "blocked"} => c.call \in {"start", "hd_blocked", "tp_blocked"}
    /\ c.call = "hd_post" <=> c.handshakeMutex = "user"
    /\ c.handshakeMutex = "user" => c.place = "done"
    /\ c.place \in {"run", "closing"} <=> c.handshakeMutex = "handshake"
    /\ c.call \in {"hd_lock", "hd_post"} => c.place \in {"closing", "done"}
    /\ ~c.started => c.place = "none"

\* The log L holds the event e.
In(L, e) == \E i \in DOMAIN L : L[i] = e

ReadApp == <<"SetReadSecret", "Application">>
WriteApp == <<"SetWriteSecret", "Application">>
Done == <<"HandshakeDone", "Application">>
Rejected == <<"RejectedEarlyData", "Early">>

\* The order of a log.
Precedes(L, a, b) == \A i \in DOMAIN L : L[i] = b => \E j \in 1..(i - 1) : L[j] = a

Ordered(L) ==
    /\ \A l \in Levels \ {"Initial"} : Precedes(L, <<"SetWriteSecret", l>>, <<"WriteData", l>>)
    /\ Precedes(L, Done, ReadApp)
    /\ \A i, j \in DOMAIN L : L[i] = Rejected /\ L[j] \in {ReadApp, WriteApp} => i < j

\* What the next event can be follows from where the handshake is.
LogInv(s, c) ==
    /\ Ordered(c.log)
    /\ s = "client" /\ (In(c.log, ReadApp) \/ In(c.log, WriteApp)) => c.step = "read_fin"
    /\ s = "server" => ~In(c.log, Rejected)
    /\ c.paramsEarly => c.transportParams /\ ~In(c.log, Required)
    /\ ~c.started => ~In(c.log, Required)

\* The secret of the level that is written to was handed out.
OutKnown(c) == c.outLevel # "Initial" => In(c.log, <<"SetWriteSecret", c.outLevel>>)

\* A connection that is typed, and whose events are in order.
Good(s, c) == ConnType(c) /\ LogInv(s, c)

Fine(s, c) == Good(s, c) /\ OutKnown(c) /\ OwnInv(c)

NetInv == net \in [Sides -> Seq(Piece)]

QUICInv == NetInv /\ DOMAIN conn = Sides /\ \A s \in Sides : Fine(s, conn[s])

-----------------------------------------------------------------------------
(* What may be logged.                                                     *)

\* The event e may follow those of c.
Allowed(s, c, e) ==
    /\ \A l \in Levels \ {"Initial"} : e = <<"WriteData", l>> => In(c.log, <<"SetWriteSecret", l>>)
    /\ e = ReadApp => In(c.log, Done)
    /\ e = Rejected => s = "client" /\ ~In(c.log, ReadApp) /\ ~In(c.log, WriteApp)
    /\ e \in {ReadApp, WriteApp} /\ s = "client" => c.step = "read_fin"
    /\ e = Required => c.started /\ ~c.paramsEarly

\* A log and the same log with e after it.
Extends(L, n, M, e) ==
    /\ n \in Nat /\ DOMAIN L = 1..n /\ DOMAIN M = 1..(n + 1) /\ M[n + 1] = e
    /\ \A i \in 1..n : M[i] = L[i]

\* What Append does.
LEMMA AppendFacts ==
  ASSUME NEW S, NEW L \in Seq(S), NEW e \in S, NEW M, M = Append(L, e)
  PROVE  M \in Seq(S) /\ M # << >> /\ Extends(L, Len(L), M, e)
BY DEF Extends

\* What an extended log holds.
LEMMA InExtended ==
  ASSUME NEW L, NEW n, NEW M, NEW e, Extends(L, n, M, e), NEW f
  PROVE  In(M, f) <=> In(L, f) \/ f = e
<1>a. n \in Nat /\ DOMAIN L = 1..n /\ DOMAIN M = 1..(n + 1) /\ M[n + 1] = e
  BY Zenon DEF Extends
<1>b. \A i \in 1..n : M[i] = L[i]
  BY Zenon DEF Extends
<1>c. \A i : i \in 1..(n + 1) <=> i \in 1..n \/ i = n + 1
  BY <1>a
<1> QED
  BY <1>a, <1>b, <1>c, Zenon DEF In

\* An event precedes others as long as none of them is added too early.
LEMMA PrecedesExtended ==
  ASSUME NEW L, NEW n, NEW M, NEW e, Extends(L, n, M, e), NEW a, NEW b,
         Precedes(L, a, b), e = b => In(L, a)
  PROVE  Precedes(M, a, b)
<1>a. n \in Nat /\ DOMAIN L = 1..n /\ DOMAIN M = 1..(n + 1) /\ M[n + 1] = e
  BY Zenon DEF Extends
<1>b. \A i \in 1..n : M[i] = L[i]
  BY Zenon DEF Extends
<1>c. \A i : i \in 1..(n + 1) <=> i \in 1..n \/ i = n + 1
  BY <1>a
<1>d. (n + 1) - 1 = n
  BY <1>a
<1>e. \A i \in 1..n : \A j \in 1..(i - 1) : j \in 1..n
  BY <1>a
<1> SUFFICES ASSUME NEW i \in DOMAIN M, M[i] = b PROVE \E j \in 1..(i - 1) : M[j] = a
  BY Zenon DEF Precedes
<1>1. CASE i \in 1..n
  <2>1. PICK j \in 1..(i - 1) : L[j] = a
    BY <1>1, <1>a, <1>b, Zenon DEF Precedes
  <2> QED
    BY <1>1, <1>b, <1>e, <2>1, Zenon
<1>2. CASE i = n + 1
  <2>1. PICK j \in 1..n : L[j] = a
    BY <1>2, <1>a, Zenon DEF In
  <2> QED
    BY <1>2, <1>b, <1>d, <2>1, Zenon
<1> QED
  BY <1>1, <1>2, <1>a, <1>c, Zenon

\* The log stays ordered.
LEMMA OrderedExtended ==
  ASSUME NEW L, NEW n, NEW M, NEW e, Extends(L, n, M, e), Ordered(L),
         \A l \in Levels \ {"Initial"} : e = <<"WriteData", l>> => In(L, <<"SetWriteSecret", l>>),
         e = ReadApp => In(L, Done),
         e = Rejected => ~In(L, ReadApp) /\ ~In(L, WriteApp)
  PROVE  Ordered(M)
<1>a. n \in Nat /\ DOMAIN L = 1..n /\ DOMAIN M = 1..(n + 1) /\ M[n + 1] = e
  BY Zenon DEF Extends
<1>b. \A i \in 1..n : M[i] = L[i]
  BY Zenon DEF Extends
<1>c. \A i : i \in 1..(n + 1) <=> i \in 1..n \/ i = n + 1
  BY <1>a
<1>d. \A i \in 1..n : i < n + 1
  BY <1>a
<1>1. \A l \in Levels \ {"Initial"} : Precedes(M, <<"SetWriteSecret", l>>, <<"WriteData", l>>)
  <2> SUFFICES ASSUME NEW l \in Levels \ {"Initial"}
               PROVE  Precedes(M, <<"SetWriteSecret", l>>, <<"WriteData", l>>)
    OBVIOUS
  <2> DEFINE a == <<"SetWriteSecret", l>>  b == <<"WriteData", l>>
  <2>1. Precedes(L, a, b) /\ (e = b => In(L, a))
    BY Zenon DEF Ordered
  <2> HIDE DEF a, b
  <2>2. Precedes(M, a, b)
    BY <2>1, PrecedesExtended, Zenon
  <2> QED
    BY <2>2, Zenon DEF a, b
<1>2. Precedes(M, Done, ReadApp)
  BY PrecedesExtended, Zenon DEF Ordered
<1>3. ASSUME NEW i \in DOMAIN M, NEW j \in DOMAIN M, M[i] = Rejected, M[j] \in {ReadApp, WriteApp}
      PROVE  i < j
  <2>1. Rejected \notin {ReadApp, WriteApp}
    BY DEF Rejected, ReadApp, WriteApp
  <2>2. i \in 1..n
    <3> SUFFICES ASSUME i = n + 1 PROVE FALSE
      BY <1>a, <1>c, Zenon
    <3>1. e = Rejected /\ j \in 1..n
      BY <1>3, <1>a, <1>c, <2>1, Zenon
    <3> QED
      BY <1>3, <1>a, <1>b, <3>1, Zenon DEF In
  <2>3. CASE j \in 1..n
    BY <1>3, <1>a, <1>b, <2>2, <2>3, Zenon DEF Ordered
  <2>4. CASE j = n + 1
    BY <1>d, <2>2, <2>4, Zenon
  <2> QED
    BY <1>a, <1>c, <2>3, <2>4, Zenon
<1> QED
  BY <1>1, <1>2, <1>3, Zenon DEF Ordered

-----------------------------------------------------------------------------
(* The operations of the handshake on a connection.                        *)

\* What the operations below leave alone.
Same(c, d) ==
    /\ d.call = c.call /\ d.place = c.place /\ d.handshakeMutex = c.handshakeMutex
    /\ d.started = c.started /\ d.step = c.step

\* It becomes d by noting the event x.
Logs(s, c, d, x) ==
    /\ Good(s, d) /\ Same(c, d) /\ d.outLevel = c.outLevel /\ d.events # << >>
    /\ \A f : In(d.log, f) <=> In(c.log, f) \/ f = x

\* Noting an event.
LEMMA NotedKeeps ==
  ASSUME NEW s \in Sides, NEW c, Good(s, c), NEW kind \in Kinds, NEW level \in Levels,
         Allowed(s, c, <<kind, level>>)
  PROVE  Logs(s, c, Noted(c, kind, level), <<kind, level>>)
<1> DEFINE e == [kind |-> kind, level |-> level, data |-> << >>]
           x == <<kind, level>>
           d == Noted(c, kind, level)
<1>1. e \in Event /\ x \in Kinds \X Levels
  BY DEF Event
<1> HIDE DEF e
<1>2. d = [c EXCEPT !.events = Append(@, e), !.log = Append(@, x)]
  BY Zenon DEF Noted, e
<1> HIDE DEF d, x
<1>3. DOMAIN c = Fields
  BY Zenon DEF Good, ConnType
<1>4. d.events = Append(c.events, e) /\ d.log = Append(c.log, x)
  BY <1>2, <1>3, Zenon DEF Fields
<1>5. DOMAIN d = Fields /\ Same(c, d) /\ d.outLevel = c.outLevel
      /\ d.readbuf = c.readbuf /\ d.hand = c.hand
      /\ d.transportParams = c.transportParams /\ d.paramsEarly = c.paramsEarly
  BY <1>2, <1>3, Zenon DEF Fields, Same
<1>6. PlainType(d)
  BY <1>2, <1>3, Zenon DEF Fields, PlainType, Good, ConnType
<1>7. /\ d.events \in Seq(Event) /\ d.events # << >>
      /\ d.log \in Seq(Kinds \X Levels) /\ Extends(c.log, Len(c.log), d.log, x)
  <2>1. c.events \in Seq(Event) /\ c.log \in Seq(Kinds \X Levels)
    BY Zenon DEF Good, ConnType
  <2>2. d.events \in Seq(Event) /\ d.events # << >>
    BY <1>1, <1>4, <2>1, AppendFacts, Zenon
  <2>3. d.log \in Seq(Kinds \X Levels) /\ Extends(c.log, Len(c.log), d.log, x)
    BY <1>1, <1>4, <2>1, AppendFacts, Zenon
  <2> QED
    BY <2>2, <2>3, Zenon
<1>8. \A f : In(d.log, f) <=> In(c.log, f) \/ f = x
  BY <1>7, InExtended, Zenon
<1>9. ConnType(d)
  BY <1>5, <1>6, <1>7, Zenon DEF ConnType, Good, Same
<1>10. Allowed(s, c, x) /\ LogInv(s, c)
  BY Zenon DEF x, Good
<1>11. Ordered(d.log)
  <2>1. x = Rejected => ~In(c.log, ReadApp) /\ ~In(c.log, WriteApp)
    BY <1>10, Zenon DEF Allowed
  <2> QED
    BY <1>7, <1>10, <2>1, OrderedExtended, Zenon DEF Allowed, LogInv
<1>12. LogInv(s, d)
  <2>2. s = "client" /\ (In(d.log, ReadApp) \/ In(d.log, WriteApp)) => d.step = "read_fin"
    BY <1>5, <1>8, <1>10, Zenon DEF LogInv, Allowed, Same
  <2>3. s = "server" => ~In(d.log, Rejected)
    BY <1>8, <1>10, Zenon DEF LogInv, Allowed
  <2>4. d.paramsEarly => d.transportParams /\ ~In(d.log, Required)
    BY <1>5, <1>8, <1>10, Zenon DEF LogInv, Allowed
  <2>5. ~d.started => ~In(d.log, Required)
    BY <1>5, <1>8, <1>10, Zenon DEF LogInv, Allowed, Same
  <2> QED
    BY <1>11, <2>2, <2>3, <2>4, <2>5, Zenon DEF LogInv
<1> QED
  BY <1>1, <1>5, <1>7, <1>8, <1>9, <1>12, Zenon DEF Logs, Good, d, x

\* It becomes d by writing a message.
Writes(s, c, d) ==
    /\ Good(s, d) /\ OutKnown(d) /\ Same(c, d) /\ d.outLevel = c.outLevel
    /\ \A f : In(c.log, f) => In(d.log, f)

\* Data joins an event.
LEMMA JoinEvent ==
  ASSUME NEW e \in Event, NEW data \in Seq(Piece)
  PROVE  [e EXCEPT !.data = @ \o data] \in Event
<1>1. e.data \in Seq(Piece)
  BY Zenon DEF Event
<1> DEFINE x == e.data \o data
<1>2. x \in Seq(Piece)
  BY <1>1
<1> HIDE DEF x
<1>3. [e EXCEPT !.data = x] \in Event
  BY <1>2 DEF Event
<1> QED
  BY <1>3, Zenon DEF x

\* quicWriteCryptoData: the data joins the last event, or a new one.
LEMMA WroteKeeps ==
  ASSUME NEW s \in Sides, NEW c, Good(s, c), OutKnown(c), NEW m \in Messages
  PROVE  Writes(s, c, Wrote(c, m))
<1> DEFINE n == Len(c.events)
           data == [i \in 1..Frags |-> [level |-> c.outLevel, msg |-> m]]
           joins == ~(n = 0 \/ c.events[n].kind # "WriteData" \/ c.events[n].level # c.outLevel)
           b == IF joins THEN c ELSE Noted(c, "WriteData", c.outLevel)
           k == Len(b.events)
           d == [b EXCEPT !.events[k].data = @ \o data]
<1>1. Wrote(c, m) = d
  BY Zenon DEF Wrote
<1>2. c.outLevel \in Levels /\ "WriteData" \in Kinds /\ c.events \in Seq(Event)
  BY Zenon DEF Good, ConnType, Kinds
<1>3. data \in Seq(Piece)
  <2>1. \A i \in 1..Frags : [level |-> c.outLevel, msg |-> m] \in Piece
    BY <1>2, Zenon DEF Piece
  <2> QED
    BY <2>1, FragsAssumption
<1> HIDE DEF data
<1>4. Allowed(s, c, <<"WriteData", c.outLevel>>)
  <2>1. \A l \in Levels \ {"Initial"} : <<"WriteData", c.outLevel>> = <<"WriteData", l>> =>
            In(c.log, <<"SetWriteSecret", l>>)
    BY DEF OutKnown
  <2>2. <<"WriteData", c.outLevel>> \notin {ReadApp, WriteApp, Rejected, Required}
    BY DEF ReadApp, WriteApp, Rejected, Required
  <2> QED
    BY <2>1, <2>2, Zenon DEF Allowed
<1>5. /\ Good(s, b) /\ Same(c, b) /\ b.outLevel = c.outLevel
      /\ \A f : In(c.log, f) => In(b.log, f)
      /\ b.events # << >>
  <2>1. CASE joins
    <3>1. b = c
      BY <2>1, Zenon
    <3>2. n # 0 /\ c.events # << >>
      BY <1>2, <2>1
    <3> QED
      BY <3>1, <3>2, Zenon DEF Same
  <2>2. CASE ~joins
    <3>1. b = Noted(c, "WriteData", c.outLevel)
      BY <2>2, Zenon
    <3>2. Logs(s, c, b, <<"WriteData", c.outLevel>>)
      BY <1>2, <1>4, <3>1, NotedKeeps, Zenon
    <3> QED
      BY <3>2, Zenon DEF Logs
  <2> QED
    BY <2>1, <2>2, Zenon
<1> HIDE DEF b, joins
<1>6. DOMAIN b = Fields /\ b.events \in Seq(Event)
  BY <1>5, Zenon DEF Good, ConnType
<1>7. k \in Nat /\ k \in 1..Len(b.events) /\ b.events[k] \in Event
  BY <1>5, <1>6
<1>8. d.events = [b.events EXCEPT ![k].data = @ \o data]
  BY <1>6, Zenon DEF Fields
<1>9. /\ DOMAIN d = Fields /\ Same(b, d) /\ d.outLevel = b.outLevel /\ d.log = b.log
      /\ d.readbuf = b.readbuf /\ d.hand = b.hand
      /\ d.transportParams = b.transportParams /\ d.paramsEarly = b.paramsEarly
  BY <1>6, Zenon DEF Fields, Same
<1>10. PlainType(d)
  BY <1>5, <1>6, Zenon DEF Fields, PlainType, Good, ConnType
<1> HIDE DEF k
<1>11. d.events \in Seq(Event)
  <2>1. [b.events[k] EXCEPT !.data = @ \o data] \in Event
    BY <1>3, <1>7, JoinEvent, Zenon
  <2> DEFINE v == [b.events[k] EXCEPT !.data = @ \o data]
  <2>2. d.events = [b.events EXCEPT ![k] = v]
    BY <1>8, Zenon
  <2> HIDE DEF v, d
  <2> QED
    BY <1>6, <1>7, <2>1, <2>2 DEF v
<1> HIDE DEF d
<1>12. ConnType(d)
  BY <1>5, <1>9, <1>10, <1>11, Zenon DEF ConnType, Good, Same
<1>13. LogInv(s, d)
  BY <1>5, <1>9, Zenon DEF LogInv, Good, Same
<1> QED
  BY <1>1, <1>5, <1>9, <1>12, <1>13, Zenon DEF Writes, Good, OutKnown, Same

\* d differs from c only in what no invariant relates to the events.
Quiet(c, d) ==
    /\ DOMAIN d = Fields /\ PlainType(d)
    /\ d.step = c.step /\ d.log = c.log /\ d.outLevel = c.outLevel
    /\ d.paramsEarly = c.paramsEarly /\ d.transportParams = c.transportParams
    /\ c.started => d.started

\* It then keeps them.
LEMMA QuietKeeps ==
  ASSUME NEW s \in Sides, NEW c, Good(s, c), NEW d, Quiet(c, d),
         d.call \in Calls, d.place \in Places, d.started \in BOOLEAN,
         d.handshakeMutex \in {"free", "user", "handshake"},
         d.readbuf \in Seq(Piece), d.hand \in Seq(Piece), d.events \in Seq(Event)
  PROVE  Good(s, d) /\ (OutKnown(c) => OutKnown(d))
<1>1. ConnType(d)
  BY Zenon DEF Good, Quiet, ConnType
<1>2. LogInv(s, d)
  BY Zenon DEF Good, Quiet, LogInv
<1> QED
  BY <1>1, <1>2, Zenon DEF Good, Quiet, OutKnown

\* A change of plain fields only.
Plain(c, d) ==
    /\ Quiet(c, d) /\ Same(c, d)
    /\ d.readbuf = c.readbuf /\ d.hand = c.hand /\ d.events = c.events

\* It keeps the invariants.
LEMMA PlainKeeps ==
  ASSUME NEW s \in Sides, NEW c, Good(s, c), NEW d, Plain(c, d)
  PROVE  Good(s, d) /\ (OutKnown(c) => OutKnown(d)) /\ Same(c, d) /\ d.log = c.log
<1>1. /\ d.call \in Calls /\ d.place \in Places /\ d.started \in BOOLEAN
      /\ d.handshakeMutex \in {"free", "user", "handshake"}
      /\ d.readbuf \in Seq(Piece) /\ d.hand \in Seq(Piece) /\ d.events \in Seq(Event)
  BY Zenon DEF Good, ConnType, Plain, Same
<1>2. Quiet(c, d) /\ Same(c, d)
  BY Zenon DEF Plain
<1> QED
  BY <1>1, <1>2, QuietKeeps, Zenon DEF Quiet

\* A message is taken from c.hand.
LEMMA TookKeeps ==
  ASSUME NEW s \in Sides, NEW c, Good(s, c), HasMessage(c)
  PROVE  LET d == Took(c) IN
         /\ Good(s, d) /\ (OutKnown(c) => OutKnown(d)) /\ Same(c, d) /\ d.log = c.log
         /\ d.early = c.early
<1> DEFINE h == SubSeq(c.hand, Frags + 1, Len(c.hand))
           d == [c EXCEPT !.hand = h]
<1>1. Took(c) = d
  BY Zenon DEF Took
<1>2. DOMAIN c = Fields /\ c.hand \in Seq(Piece)
  BY Zenon DEF Good, ConnType
<1>3. h \in Seq(Piece)
  BY <1>2, FragsAssumption
<1> HIDE DEF h
<1>4. d.hand = h /\ d.early = c.early /\ Same(c, d) /\ d.readbuf = c.readbuf /\ d.events = c.events
  BY <1>2, Zenon DEF Fields, Same
<1>5. PlainType(d)
  BY <1>2, Zenon DEF Fields, PlainType, Good, ConnType
<1>6. Quiet(c, d)
  BY <1>2, <1>5, Zenon DEF Fields, Quiet
<1> HIDE DEF d
<1>7. Good(s, d) /\ (OutKnown(c) => OutKnown(d))
  <2>1. /\ d.call \in Calls /\ d.place \in Places /\ d.started \in BOOLEAN
        /\ d.handshakeMutex \in {"free", "user", "handshake"}
        /\ d.readbuf \in Seq(Piece) /\ d.hand \in Seq(Piece) /\ d.events \in Seq(Event)
    BY <1>3, <1>4, Zenon DEF Good, ConnType, Same
  <2> QED
    BY <1>6, <2>1, QuietKeeps, Zenon
<1> QED
  BY <1>1, <1>4, <1>6, <1>7, Zenon DEF Quiet

\* The handshake goes on to its step l.
Stepped(c, d, l) ==
    /\ DOMAIN d = Fields /\ PlainType(d)
    /\ d.step = l /\ d.log = c.log /\ d.outLevel = c.outLevel
    /\ d.call = c.call /\ d.place = c.place /\ d.handshakeMutex = c.handshakeMutex
    /\ d.started = c.started /\ d.hand = c.hand /\ d.readbuf = c.readbuf /\ d.events = c.events
    /\ d.paramsEarly = c.paramsEarly /\ d.transportParams = c.transportParams

\* It keeps the invariants, unless the handshake is at its end.
LEMMA StepKeeps ==
  ASSUME NEW s \in Sides, NEW c, Good(s, c), NEW l \in Steps, NEW d, Stepped(c, d, l),
         c.step # "read_fin"
  PROVE  /\ Good(s, d) /\ (OutKnown(c) => OutKnown(d))
         /\ s = "client" => ~In(d.log, ReadApp) /\ ~In(d.log, WriteApp)
<1>1. ConnType(d)
  BY Zenon DEF Good, ConnType, Stepped
<1>2. LogInv(s, d)
  BY Zenon DEF Good, LogInv, Stepped
<1> QED
  BY <1>1, <1>2, Zenon DEF Good, LogInv, OutKnown, Stepped

\* That is what a change of step does.
LEMMA StepIs ==
  ASSUME NEW s \in Sides, NEW c, Good(s, c), NEW l \in Steps
  PROVE  Stepped(c, [c EXCEPT !.step = l], l)
<1> DEFINE d == [c EXCEPT !.step = l]
<1>1. DOMAIN c = Fields
  BY Zenon DEF Good, ConnType
<1>2. PlainType(d)
  BY <1>1, Zenon DEF Fields, PlainType, Good, ConnType
<1> QED
  BY <1>1, <1>2, Zenon DEF Fields, Stepped

\* Another level is written to.
Relevel(c, d, l) ==
    /\ DOMAIN d = Fields /\ PlainType(d) /\ Same(c, d) /\ d.log = c.log
    /\ d.outLevel = l /\ l \in Levels
    /\ d.paramsEarly = c.paramsEarly /\ d.transportParams = c.transportParams
    /\ d.readbuf = c.readbuf /\ d.hand = c.hand /\ d.events = c.events

\* The events stay in order.
LEMMA RelevelKeeps ==
  ASSUME NEW s \in Sides, NEW c, Good(s, c), NEW d, NEW l, Relevel(c, d, l)
  PROVE  Good(s, d) /\ Same(c, d) /\ d.log = c.log /\ d.outLevel = l
<1>1. ConnType(d)
  BY Zenon DEF Good, Relevel, Same, ConnType
<1>2. LogInv(s, d)
  BY Zenon DEF Good, Relevel, Same, LogInv
<1> QED
  BY <1>1, <1>2, Zenon DEF Good, Relevel

\* The check for data left over when keys change.
LEMMA CheckedKeeps ==
  ASSUME NEW s \in Sides, NEW c, Good(s, c)
  PROVE  LET d == Checked(c) IN
         Good(s, d) /\ Same(c, d) /\ d.log = c.log /\ d.outLevel = c.outLevel
<1> DEFINE a == c.alert \/ c.hand # << >>
           d == [c EXCEPT !.alert = a]
<1>1. Checked(c) = d
  BY Zenon DEF Checked
<1>2. DOMAIN c = Fields /\ a \in BOOLEAN
  BY Zenon DEF Good, ConnType
<1> HIDE DEF a
<1>3. PlainType(d)
  BY <1>2, Zenon DEF Fields, PlainType, Good, ConnType
<1>4. Plain(c, d)
  BY <1>2, <1>3, Zenon DEF Fields, Plain, Quiet, Same
<1>5. d.outLevel = c.outLevel
  BY <1>2, Zenon DEF Fields
<1> HIDE DEF d
<1> QED
  BY <1>1, <1>4, <1>5, PlainKeeps, Zenon

\* The handshake keys.
LEMMA HandshakeKeysKeeps ==
  ASSUME NEW s \in Sides, NEW c, Good(s, c)
  PROVE  LET d == HandshakeKeys(c) IN Good(s, d) /\ OutKnown(d) /\ Same(c, d)
<1> DEFINE c1 == [c EXCEPT !.inLevel = "Handshake", !.outLevel = "Handshake"]
           c2 == Checked(c1)
           w == <<"SetWriteSecret", "Handshake">>
           c3 == Noted(c2, "SetWriteSecret", "Handshake")
           r == <<"SetReadSecret", "Handshake">>
           c4 == Noted(c3, "SetReadSecret", "Handshake")
<1>0. HandshakeKeys(c) = c4
  BY Zenon DEF HandshakeKeys
<1>1. Good(s, c1) /\ Same(c, c1) /\ c1.outLevel = "Handshake"
  <2>1. DOMAIN c = Fields
    BY Zenon DEF Good, ConnType
  <2>2. PlainType(c1)
    BY <2>1, Zenon DEF Fields, PlainType, Good, ConnType, Levels
  <2>3. Relevel(c, c1, "Handshake")
    BY <2>1, <2>2, Zenon DEF Fields, Relevel, Same, Levels
  <2> HIDE DEF c1
  <2> QED
    BY <2>3, RelevelKeeps, Zenon
<1> HIDE DEF c1
<1>2. Good(s, c2) /\ Same(c, c2) /\ c2.outLevel = "Handshake"
  BY <1>1, CheckedKeeps, Zenon DEF Same
<1> HIDE DEF c2
<1>3. /\ w \notin {ReadApp, WriteApp, Rejected, Required} /\ r \notin {ReadApp, WriteApp, Rejected, Required}
      /\ \A l \in Levels : w # <<"WriteData", l>> /\ r # <<"WriteData", l>>
  BY DEF ReadApp, WriteApp, Rejected, Required
<1>4. /\ "SetWriteSecret" \in Kinds /\ "SetReadSecret" \in Kinds /\ "Handshake" \in Levels
  BY Zenon DEF Kinds, Levels
<1>5. Logs(s, c2, c3, w)
  <2>1. Allowed(s, c2, w)
    BY <1>3, Zenon DEF Allowed
  <2> QED
    BY <1>2, <1>4, <2>1, NotedKeeps, Zenon
<1> HIDE DEF c3
<1>6. Good(s, c3) /\ Same(c, c3) /\ c3.outLevel = "Handshake" /\ In(c3.log, w)
  BY <1>2, <1>5, Zenon DEF Logs, Same
<1>7. Logs(s, c3, c4, r)
  <2>1. Allowed(s, c3, r)
    BY <1>3, Zenon DEF Allowed
  <2> QED
    BY <1>4, <1>6, <2>1, NotedKeeps, Zenon
<1> HIDE DEF c4
<1>8. Good(s, c4) /\ Same(c, c4) /\ OutKnown(c4)
  BY <1>6, <1>7, Zenon DEF Logs, Same, OutKnown
<1> QED
  BY <1>0, <1>8, Zenon

\* The application keys, which a client has only at the end.
LEMMA ApplicationKeysKeeps ==
  ASSUME NEW s \in Sides, NEW c, Good(s, c), s = "client" => c.step = "read_fin"
  PROVE  LET d == ApplicationKeys(c) IN Good(s, d) /\ OutKnown(d) /\ Same(c, d)
<1> DEFINE c1 == [c EXCEPT !.outLevel = "Application"]
           c2 == Checked(c1)
           c3 == Noted(c2, "SetWriteSecret", "Application")
<1>0. ApplicationKeys(c) = c3
  BY Zenon DEF ApplicationKeys
<1>1. Good(s, c1) /\ Same(c, c1) /\ c1.outLevel = "Application"
  <2>1. DOMAIN c = Fields
    BY Zenon DEF Good, ConnType
  <2>2. PlainType(c1)
    BY <2>1, Zenon DEF Fields, PlainType, Good, ConnType
  <2>3. Relevel(c, c1, "Application")
    BY <2>1, <2>2, Zenon DEF Fields, Relevel, Same, Levels
  <2> HIDE DEF c1
  <2> QED
    BY <2>3, RelevelKeeps, Zenon
<1> HIDE DEF c1
<1>2. Good(s, c2) /\ Same(c, c2) /\ c2.outLevel = "Application"
  BY <1>1, CheckedKeeps, Zenon DEF Same
<1> HIDE DEF c2
<1>3. /\ WriteApp \notin {ReadApp, Rejected, Required} /\ \A l \in Levels : WriteApp # <<"WriteData", l>>
  BY DEF ReadApp, WriteApp, Rejected, Required
<1>4. "SetWriteSecret" \in Kinds /\ "Application" \in Levels
  BY Zenon DEF Kinds, Levels
<1>5. Logs(s, c2, c3, WriteApp)
  <2>1. Allowed(s, c2, WriteApp)
    BY <1>2, <1>3, Zenon DEF Allowed, Same
  <2> QED
    BY <1>2, <1>4, <2>1, NotedKeeps, Zenon DEF WriteApp
<1> HIDE DEF c3
<1>6. Good(s, c3) /\ Same(c, c3) /\ OutKnown(c3)
  BY <1>2, <1>5, Zenon DEF Logs, Same, OutKnown, WriteApp
<1> QED
  BY <1>0, <1>6, Zenon

\* The handshake goroutine is about to close the channels.
Ends(c, d) ==
    /\ d.call = c.call /\ d.place = "closing" /\ d.handshakeMutex = c.handshakeMutex
    /\ d.started = c.started

\* Nothing else changes.
LEMMA ClosingKeeps ==
  ASSUME NEW s \in Sides, NEW c, Good(s, c), OutKnown(c)
  PROVE  Good(s, Closing(c)) /\ OutKnown(Closing(c)) /\ Ends(c, Closing(c))
<1> DEFINE d == [c EXCEPT !.place = "closing"]
<1>0. Closing(c) = d
  BY Zenon DEF Closing
<1>1. DOMAIN c = Fields
  BY Zenon DEF Good, ConnType
<1>2. PlainType(d)
  BY <1>1, Zenon DEF Fields, PlainType, Good, ConnType
<1>3. Quiet(c, d) /\ Ends(c, d) /\ d.readbuf = c.readbuf /\ d.hand = c.hand /\ d.events = c.events
  BY <1>1, <1>2, Zenon DEF Fields, Quiet, Ends
<1> HIDE DEF d
<1>4. /\ d.call \in Calls /\ d.place \in Places /\ d.started \in BOOLEAN
      /\ d.handshakeMutex \in {"free", "user", "handshake"}
      /\ d.readbuf \in Seq(Piece) /\ d.hand \in Seq(Piece) /\ d.events \in Seq(Event)
  BY <1>3, Zenon DEF Good, ConnType, Ends, Places
<1> QED
  BY <1>0, <1>3, <1>4, QuietKeeps, Zenon

\* The end of a handshake that fails.
LEMMA FailedKeeps ==
  ASSUME NEW s \in Sides, NEW c, Good(s, c), OutKnown(c)
  PROVE  Good(s, Failed(c)) /\ OutKnown(Failed(c)) /\ Ends(c, Failed(c))
<1> DEFINE d == [c EXCEPT !.handshakeErr = TRUE]
<1>0. Failed(c) = Closing(d)
  BY Zenon DEF Failed
<1>1. DOMAIN c = Fields
  BY Zenon DEF Good, ConnType
<1>2. PlainType(d)
  BY <1>1, Zenon DEF Fields, PlainType, Good, ConnType
<1>3. Plain(c, d)
  BY <1>1, <1>2, Zenon DEF Fields, Plain, Quiet, Same
<1> HIDE DEF d
<1>4. Good(s, d) /\ OutKnown(d) /\ Same(c, d)
  BY <1>3, PlainKeeps, Zenon
<1> QED
  BY <1>0, <1>4, ClosingKeeps, Zenon DEF Ends, Same

\* The end of one that completes.
LEMMA CompletedKeeps ==
  ASSUME NEW s \in Sides, NEW c, Good(s, c), OutKnown(c), s = "client" => c.step = "read_fin"
  PROVE  Good(s, Completed(c)) /\ OutKnown(Completed(c)) /\ Ends(c, Completed(c))
<1> DEFINE c1 == [c EXCEPT !.isHandshakeComplete = TRUE]
           c2 == Noted(c1, "HandshakeDone", "Application")
           c3 == Noted(c2, "SetReadSecret", "Application")
<1>0. Completed(c) = Closing(c3)
  BY Zenon DEF Completed
<1>1. Good(s, c1) /\ OutKnown(c1) /\ Same(c, c1)
  <2>1. DOMAIN c = Fields
    BY Zenon DEF Good, ConnType
  <2>2. PlainType(c1)
    BY <2>1, Zenon DEF Fields, PlainType, Good, ConnType
  <2>3. Plain(c, c1)
    BY <2>1, <2>2, Zenon DEF Fields, Plain, Quiet, Same
  <2> QED
    BY <2>3, PlainKeeps, Zenon
<1> HIDE DEF c1
<1>3. /\ Done \notin {ReadApp, WriteApp, Rejected, Required} /\ ReadApp \notin {Rejected, Required}
      /\ \A l \in Levels : Done # <<"WriteData", l>> /\ ReadApp # <<"WriteData", l>>
  BY DEF ReadApp, WriteApp, Rejected, Required, Done
<1>4. "SetReadSecret" \in Kinds /\ "HandshakeDone" \in Kinds /\ "Application" \in Levels
  BY Zenon DEF Kinds, Levels
<1>5. Logs(s, c1, c2, Done)
  <2>1. Allowed(s, c1, Done)
    BY <1>3, Zenon DEF Allowed
  <2> QED
    BY <1>1, <1>4, <2>1, NotedKeeps, Zenon DEF Done
<1> HIDE DEF c2
<1>6. Good(s, c2) /\ Same(c, c2) /\ In(c2.log, Done) /\ OutKnown(c2)
  BY <1>1, <1>5, Zenon DEF Logs, Same, OutKnown
<1>7. Logs(s, c2, c3, ReadApp)
  <2>1. Allowed(s, c2, ReadApp)
    BY <1>3, <1>6, Zenon DEF Allowed, Same
  <2> QED
    BY <1>4, <1>6, <2>1, NotedKeeps, Zenon DEF ReadApp
<1> HIDE DEF c3
<1>8. Good(s, c3) /\ Same(c, c3) /\ OutKnown(c3)
  BY <1>6, <1>7, Zenon DEF Logs, Same, OutKnown
<1>9. Good(s, Closing(c3)) /\ OutKnown(Closing(c3)) /\ Ends(c3, Closing(c3))
  BY <1>8, ClosingKeeps, Zenon
<1> QED
  BY <1>0, <1>8, <1>9, Zenon DEF Ends, Same

\* An event that has no place of its own in the order.
Ordinary(x) == x \notin {ReadApp, WriteApp, Rejected, Required} /\ \A l \in Levels : x # <<"WriteData", l>>

\* Noting one.
LEMMA OrdinaryKeeps ==
  ASSUME NEW s \in Sides, NEW c, Good(s, c), OutKnown(c), NEW kind \in Kinds, NEW level \in Levels,
         Ordinary(<<kind, level>>)
  PROVE  /\ Writes(s, c, Noted(c, kind, level))
         /\ \A f : f # <<kind, level>> => (In(Noted(c, kind, level).log, f) <=> In(c.log, f))
<1>1. Allowed(s, c, <<kind, level>>)
  BY Zenon DEF Allowed, Ordinary
<1>2. Logs(s, c, Noted(c, kind, level), <<kind, level>>)
  BY <1>1, NotedKeeps, Zenon
<1> QED
  BY <1>2, Zenon DEF Logs, Writes, OutKnown

\* The ordinary events.
LEMMA OrdinaryEvents ==
  /\ Ordinary(<<"SetWriteSecret", "Early">>) /\ Ordinary(<<"SetReadSecret", "Early">>)
  /\ Ordinary(<<"TransportParameters", "Initial">>) /\ Ordinary(<<"TransportParameters", "Handshake">>)
  /\ <<"TransportParameters", "Handshake">> \notin {ReadApp, WriteApp}
  /\ {"SetWriteSecret", "SetReadSecret", "TransportParameters", "RejectedEarlyData"} \subseteq Kinds
  /\ {"Initial", "Early", "Handshake"} \subseteq Levels
<1>1. Ordinary(<<"SetWriteSecret", "Early">>) /\ Ordinary(<<"SetReadSecret", "Early">>)
  BY DEF Ordinary, ReadApp, WriteApp, Rejected, Required
<1>2. Ordinary(<<"TransportParameters", "Initial">>) /\ Ordinary(<<"TransportParameters", "Handshake">>)
  BY DEF Ordinary, ReadApp, WriteApp, Rejected, Required
<1> QED
  BY <1>1, <1>2, Zenon DEF Ordinary, Kinds, Levels

\* quicRejectedEarlyData, before there are application keys.
LEMMA RejectKeeps ==
  ASSUME NEW c, Good("client", c), OutKnown(c), ~In(c.log, ReadApp), ~In(c.log, WriteApp)
  PROVE  Writes("client", c, Reject(c))
<1> DEFINE c1 == [c EXCEPT !.early = FALSE]
           c2 == Noted(c1, "RejectedEarlyData", "Early")
<1>0. Reject(c) = c2 /\ "client" \in Sides
  BY Zenon DEF Reject, Sides
<1>1. Good("client", c1) /\ OutKnown(c1) /\ Same(c, c1) /\ c1.log = c.log /\ c1.outLevel = c.outLevel
  <2>1. DOMAIN c = Fields
    BY Zenon DEF Good, ConnType
  <2>2. PlainType(c1)
    BY <2>1, Zenon DEF Fields, PlainType, Good, ConnType
  <2>3. Plain(c, c1) /\ c1.outLevel = c.outLevel
    BY <2>1, <2>2, Zenon DEF Fields, Plain, Quiet, Same
  <2> HIDE DEF c1
  <2> QED
    BY <1>0, <2>3, PlainKeeps, Zenon
<1> HIDE DEF c1
<1>2. Rejected \notin {ReadApp, WriteApp, Required} /\ \A l \in Levels : Rejected # <<"WriteData", l>>
  BY DEF ReadApp, WriteApp, Rejected, Required
<1>3. Logs("client", c1, c2, Rejected)
  <2>1. Allowed("client", c1, Rejected)
    BY <1>1, <1>2, Zenon DEF Allowed
  <2> QED
    BY <1>0, <1>1, <2>1, OrdinaryEvents, NotedKeeps, Zenon DEF Rejected
<1> HIDE DEF c2
<1> QED
  BY <1>0, <1>1, <1>3, Zenon DEF Writes, Logs, OutKnown, Same

\* A new level of c.in.
LEMMA InLevelKeeps ==
  ASSUME NEW s \in Sides, NEW c, Good(s, c), OutKnown(c), NEW l \in Levels
  PROVE  LET d == [c EXCEPT !.inLevel = l] IN Good(s, d) /\ OutKnown(d) /\ Same(c, d)
<1> DEFINE d == [c EXCEPT !.inLevel = l]
<1>1. DOMAIN c = Fields
  BY Zenon DEF Good, ConnType
<1>2. PlainType(d)
  BY <1>1, Zenon DEF Fields, PlainType, Good, ConnType
<1>3. Plain(c, d)
  BY <1>1, <1>2, Zenon DEF Fields, Plain, Quiet, Same
<1> HIDE DEF d
<1>4. Good(s, d) /\ OutKnown(d) /\ Same(c, d)
  BY <1>3, PlainKeeps, Zenon
<1> QED
  BY <1>4, Zenon DEF d

-----------------------------------------------------------------------------
(* The steps of the handshake goroutine.                                   *)

\* One side changes.
LEMMA BecomesKeeps ==
  ASSUME QUICInv, NEW s \in Sides, NEW d, Becomes(s, d), Fine(s, d)
  PROVE  QUICInv'
<1>1. /\ conn' = [conn EXCEPT ![s] = d] /\ net' = net /\ DOMAIN conn = Sides /\ NetInv
      /\ \A t \in Sides : Fine(t, conn[t])
  BY Zenon DEF Becomes, QUICInv
<1>2. conn'[s] = d /\ DOMAIN conn' = Sides /\ \A t \in Sides : t # s => conn'[t] = conn[t]
  BY <1>1, Zenon
<1> QED
  BY <1>1, <1>2, Zenon DEF QUICInv, NetInv

\* The handshake goroutine keeps the connection while it runs.
RunsOn(c, d) ==
    /\ d.call = c.call /\ d.handshakeMutex = c.handshakeMutex /\ d.started = c.started
    /\ d.place \in {"run", "closing"}

\* So it stays its owner.
LEMMA RunsKeeps ==
  ASSUME NEW c, OwnInv(c), c.place = "run", NEW d, RunsOn(c, d)
  PROVE  OwnInv(d)
BY DEF OwnInv, RunsOn

\* A step of the handshake.
LEMMA HandshakeBecomes ==
  ASSUME QUICInv, NEW s \in Sides, conn[s].place = "run", NEW d, Becomes(s, d),
         Good(s, d), OutKnown(d), RunsOn(conn[s], d)
  PROVE  QUICInv'
<1>1. OwnInv(conn[s])
  BY Zenon DEF QUICInv, Fine
<1>2. OwnInv(d)
  BY <1>1, RunsKeeps, Zenon
<1> QED
  BY <1>2, BecomesKeeps, Zenon DEF Fine

\* A message is read, and the handshake goes on to step l.
Taken(s, c, d, l) ==
    /\ Good(s, d) /\ OutKnown(d) /\ RunsOn(c, d) /\ d.step = l
    /\ s = "client" => ~In(d.log, ReadApp) /\ ~In(d.log, WriteApp)

\* So it does.
LEMMA StepTook ==
  ASSUME NEW s \in Sides, NEW c, Good(s, c), OutKnown(c), HasMessage(c), c.place = "run",
         c.step # "read_fin", NEW l \in Steps, NEW b, Stepped(c, b, l)
  PROVE  Taken(s, c, Took(b), l)
<1>1. /\ Good(s, b) /\ OutKnown(b) /\ RunsOn(c, b) /\ b.step = l
      /\ s = "client" => ~In(b.log, ReadApp) /\ ~In(b.log, WriteApp)
  <2>1. /\ Good(s, b) /\ OutKnown(b)
        /\ s = "client" => ~In(b.log, ReadApp) /\ ~In(b.log, WriteApp)
    BY StepKeeps, Zenon
  <2> QED
    BY <2>1, Zenon DEF Stepped, RunsOn
<1>2. HasMessage(b)
  BY Zenon DEF HasMessage, Stepped
<1>3. Good(s, Took(b)) /\ OutKnown(Took(b)) /\ Same(b, Took(b)) /\ Took(b).log = b.log
  BY <1>1, <1>2, TookKeeps, Zenon
<1> QED
  BY <1>1, <1>3, Zenon DEF Taken, Same, RunsOn

\* The messages, the steps and what is known of a side whose handshake runs.
LEMMA RunFacts ==
  ASSUME QUICInv, NEW s \in Sides, conn[s].place = "run"
  PROVE  /\ Good(s, conn[s]) /\ OutKnown(conn[s]) /\ OwnInv(conn[s]) /\ RunsOn(conn[s], conn[s])
         /\ {"ClientHello", "HelloRetryRequest", "ServerHello", "EncryptedExtensions",
             "EarlyAccepted", "Finished", "NewSessionTicket"} \subseteq Messages
         /\ {"params", "read_hello", "read_hello2", "read_ee", "read_fin"} \subseteq Steps
BY Zenon DEF QUICInv, Fine, RunsOn, Messages, Steps

\* The client's first message.
LEMMA ClientHelloKeeps ==
  ASSUME QUICInv, NEW s \in Sides, ClientHello(s)
  PROVE  QUICInv'
<1> DEFINE c == conn[s]
           c1 == [c EXCEPT !.step = "read_hello"]
           c2 == Wrote(c1, "ClientHello")
           c3 == Noted(c2, "SetWriteSecret", "Early")
           d == IF c2.early THEN c3 ELSE c2
<1>1. c.place = "run" /\ c.step = "params" /\ Becomes(s, d)
  BY Zenon DEF ClientHello, Runs
<1>2. Good(s, c) /\ OutKnown(c) /\ "read_hello" \in Steps /\ "ClientHello" \in Messages
  BY <1>1, RunFacts, Zenon
<1>3. Good(s, c1) /\ OutKnown(c1) /\ RunsOn(c, c1)
  <2>1. Stepped(c, c1, "read_hello")
    BY <1>2, StepIs, Zenon
  <2>2. c.step # "read_fin"
    BY <1>1
  <2> HIDE DEF c1
  <2>3. Good(s, c1) /\ OutKnown(c1)
    BY <1>2, <2>1, <2>2, StepKeeps, Zenon
  <2> QED
    BY <1>1, <2>1, <2>3, Zenon DEF Stepped, RunsOn
<1> HIDE DEF c1
<1>4. Writes(s, c1, c2)
  BY <1>2, <1>3, WroteKeeps, Zenon
<1>5. Good(s, c2) /\ OutKnown(c2) /\ RunsOn(c, c2)
  BY <1>3, <1>4, Zenon DEF Writes, Same, RunsOn
<1> HIDE DEF c2
<1>6. Writes(s, c2, c3)
  BY <1>5, OrdinaryKeeps, OrdinaryEvents, Zenon
<1>7. Good(s, c3) /\ OutKnown(c3) /\ RunsOn(c, c3)
  BY <1>5, <1>6, Zenon DEF Writes, Same, RunsOn
<1> HIDE DEF c3
<1>8. Good(s, d) /\ OutKnown(d) /\ RunsOn(c, d)
  BY <1>5, <1>7, Zenon
<1> HIDE DEF d
<1> QED
  BY <1>1, <1>8, HandshakeBecomes, Zenon

\* The answer to a HelloRetryRequest.
LEMMA ClientRetryKeeps ==
  ASSUME QUICInv, NEW s \in Sides, ClientRetry(s)
  PROVE  QUICInv'
<1> DEFINE c == conn[s]
           b == [c EXCEPT !.step = "read_hello2"]
           c1 == Took(b)
           c2 == IF c1.early THEN Reject(c1) ELSE c1
           d == Wrote(c2, "ClientHello")
<1>1. c.place = "run" /\ c.step = "read_hello" /\ HasMessage(c) /\ Becomes(s, d) /\ s = "client"
  BY Zenon DEF ClientRetry, Reads, Runs
<1>2. Good(s, c) /\ OutKnown(c) /\ "read_hello2" \in Steps /\ "ClientHello" \in Messages
  BY <1>1, RunFacts, Zenon
<1>3. Stepped(c, b, "read_hello2") /\ c.step # "read_fin"
  BY <1>1, <1>2, StepIs, Zenon
<1> HIDE DEF b
<1>4. Taken(s, c, c1, "read_hello2")
  BY <1>1, <1>2, <1>3, StepTook, Zenon
<1>5. /\ Good(s, c1) /\ OutKnown(c1) /\ RunsOn(c, c1)
      /\ ~In(c1.log, ReadApp) /\ ~In(c1.log, WriteApp)
  BY <1>1, <1>4, Zenon DEF Taken
<1> HIDE DEF c1
<1>6. Writes(s, c1, Reject(c1))
  BY <1>1, <1>5, RejectKeeps, Zenon
<1>7. Good(s, c2) /\ OutKnown(c2) /\ RunsOn(c, c2)
  BY <1>5, <1>6, Zenon DEF Writes, Same, RunsOn
<1> HIDE DEF c2
<1>8. Writes(s, c2, d)
  BY <1>2, <1>7, WroteKeeps, Zenon
<1>9. Good(s, d) /\ OutKnown(d) /\ RunsOn(c, d)
  BY <1>7, <1>8, Zenon DEF Writes, Same, RunsOn
<1> HIDE DEF d
<1> QED
  BY <1>1, <1>9, HandshakeBecomes, Zenon

\* The client's handshake keys.
LEMMA ClientKeysKeeps ==
  ASSUME QUICInv, NEW s \in Sides, ClientKeys(s)
  PROVE  QUICInv'
<1> DEFINE c == conn[s]
           b == [c EXCEPT !.step = "read_ee"]
           c1 == Took(b)
           d == HandshakeKeys(c1)
<1>1. c.place = "run" /\ c.step \in {"read_hello", "read_hello2"} /\ HasMessage(c) /\ Becomes(s, d)
  BY Zenon DEF ClientKeys, Reads, Runs
<1>2. Good(s, c) /\ OutKnown(c) /\ "read_ee" \in Steps
  BY <1>1, RunFacts, Zenon
<1>3. Stepped(c, b, "read_ee") /\ c.step # "read_fin"
  BY <1>1, <1>2, StepIs, Zenon
<1> HIDE DEF b
<1>4. Taken(s, c, c1, "read_ee")
  BY <1>1, <1>2, <1>3, StepTook, Zenon
<1>5. Good(s, c1) /\ RunsOn(c, c1)
  BY <1>4, Zenon DEF Taken
<1> HIDE DEF c1
<1>6. Good(s, d) /\ OutKnown(d) /\ Same(c1, d)
  BY <1>5, HandshakeKeysKeeps, Zenon
<1> HIDE DEF d
<1>7. RunsOn(c, d)
  BY <1>5, <1>6, Zenon DEF Same, RunsOn
<1> QED
  BY <1>1, <1>6, <1>7, HandshakeBecomes, Zenon

\* The client reads the server's parameters.
LEMMA ClientParametersKeeps ==
  ASSUME QUICInv, NEW s \in Sides, NEW m, ClientParameters(s, m)
  PROVE  QUICInv'
<1> DEFINE c == conn[s]
           b == [c EXCEPT !.step = "read_fin"]
           c1 == Took(b)
           c2 == Noted(c1, "TransportParameters", "Handshake")
           d == IF c2.early /\ m = "EncryptedExtensions" THEN Reject(c2) ELSE c2
<1>1. c.place = "run" /\ c.step = "read_ee" /\ HasMessage(c) /\ Becomes(s, d) /\ s = "client"
  BY Zenon DEF ClientParameters, Reads, Runs
<1>2. Good(s, c) /\ OutKnown(c) /\ "read_fin" \in Steps
  BY <1>1, RunFacts, Zenon
<1>3. Stepped(c, b, "read_fin") /\ c.step # "read_fin"
  BY <1>1, <1>2, StepIs, Zenon
<1> HIDE DEF b
<1>4. Taken(s, c, c1, "read_fin")
  BY <1>1, <1>2, <1>3, StepTook, Zenon
<1>5. /\ Good(s, c1) /\ OutKnown(c1) /\ RunsOn(c, c1)
      /\ ~In(c1.log, ReadApp) /\ ~In(c1.log, WriteApp)
  BY <1>1, <1>4, Zenon DEF Taken
<1> HIDE DEF c1
<1>6. /\ Writes(s, c1, c2)
      /\ \A f : f # <<"TransportParameters", "Handshake">> => (In(c2.log, f) <=> In(c1.log, f))
  BY <1>5, OrdinaryKeeps, OrdinaryEvents, Zenon
<1> HIDE DEF c2
<1>7. Good(s, c2) /\ OutKnown(c2) /\ RunsOn(c, c2)
  BY <1>5, <1>6, Zenon DEF Writes, Same, RunsOn
<1>8. ~In(c2.log, ReadApp) /\ ~In(c2.log, WriteApp)
  BY <1>5, <1>6, OrdinaryEvents, Zenon
<1>9. Writes(s, c2, Reject(c2))
  BY <1>1, <1>7, <1>8, RejectKeeps, Zenon
<1>10. Good(s, d) /\ OutKnown(d) /\ RunsOn(c, d)
  BY <1>7, <1>9, Zenon DEF Writes, Same, RunsOn
<1> HIDE DEF d
<1> QED
  BY <1>1, <1>10, HandshakeBecomes, Zenon

\* The end of the client's handshake.
LEMMA ClientFinishedKeeps ==
  ASSUME QUICInv, NEW s \in Sides, ClientFinished(s)
  PROVE  QUICInv'
<1> DEFINE c == conn[s]
           c1 == Took(c)
           c2 == [c1 EXCEPT !.inLevel = "Application"]
           c3 == Wrote(c2, "Finished")
           c4 == ApplicationKeys(c3)
           d == Completed(c4)
<1>1. c.place = "run" /\ c.step = "read_fin" /\ HasMessage(c) /\ Becomes(s, d)
  BY Zenon DEF ClientFinished, Reads, Runs
<1>2. Good(s, c) /\ OutKnown(c) /\ "Finished" \in Messages /\ "Application" \in Levels
  BY <1>1, RunFacts, Zenon DEF Levels
<1>3. Good(s, c1) /\ OutKnown(c1) /\ Same(c, c1)
  BY <1>1, <1>2, TookKeeps, Zenon
<1> HIDE DEF c1
<1>4. Good(s, c2) /\ OutKnown(c2) /\ Same(c1, c2)
  BY <1>2, <1>3, InLevelKeeps, Zenon
<1> HIDE DEF c2
<1>5. Writes(s, c2, c3)
  BY <1>2, <1>4, WroteKeeps, Zenon
<1>6. Good(s, c3) /\ OutKnown(c3) /\ Same(c2, c3)
  BY <1>5, Zenon DEF Writes
<1> HIDE DEF c3
<1>7. c3.step = "read_fin"
  BY <1>1, <1>3, <1>4, <1>6, Zenon DEF Same
<1>8. Good(s, c4) /\ OutKnown(c4) /\ Same(c3, c4)
  BY <1>6, <1>7, ApplicationKeysKeeps, Zenon
<1> HIDE DEF c4
<1>9. c4.step = "read_fin"
  BY <1>7, <1>8, Zenon DEF Same
<1>10. Good(s, d) /\ OutKnown(d) /\ Ends(c4, d)
  BY <1>8, <1>9, CompletedKeeps, Zenon
<1> HIDE DEF d
<1>11. Same(c, c2)
  BY <1>3, <1>4, Zenon DEF Same
<1>12. Same(c, c4)
  BY <1>11, <1>6, <1>8, Zenon DEF Same
<1>13. RunsOn(c, d)
  BY <1>12, <1>10, Zenon DEF Same, Ends, RunsOn
<1> QED
  BY <1>1, <1>10, <1>13, HandshakeBecomes, Zenon

\* The server asks for another ClientHello.
LEMMA ServerRetryKeeps ==
  ASSUME QUICInv, NEW s \in Sides, ServerRetry(s)
  PROVE  QUICInv'
<1> DEFINE c == conn[s]
           b == [c EXCEPT !.step = "read_hello2"]
           c1 == Took(b)
           d == Wrote(c1, "HelloRetryRequest")
<1>1. c.place = "run" /\ c.step = "read_hello" /\ HasMessage(c) /\ Becomes(s, d)
  BY Zenon DEF ServerRetry, Reads, Runs
<1>2. Good(s, c) /\ OutKnown(c) /\ "read_hello2" \in Steps /\ "HelloRetryRequest" \in Messages
  BY <1>1, RunFacts, Zenon
<1>3. Stepped(c, b, "read_hello2") /\ c.step # "read_fin"
  BY <1>1, <1>2, StepIs, Zenon
<1> HIDE DEF b
<1>4. Taken(s, c, c1, "read_hello2")
  BY <1>1, <1>2, <1>3, StepTook, Zenon
<1>5. Good(s, c1) /\ OutKnown(c1) /\ RunsOn(c, c1)
  BY <1>4, Zenon DEF Taken
<1> HIDE DEF c1
<1>6. Writes(s, c1, d)
  BY <1>2, <1>5, WroteKeeps, Zenon
<1>7. Good(s, d) /\ OutKnown(d) /\ RunsOn(c, d)
  BY <1>5, <1>6, Zenon DEF Writes, Same, RunsOn
<1> HIDE DEF d
<1> QED
  BY <1>1, <1>7, HandshakeBecomes, Zenon

\* The server answers a ClientHello.
LEMMA ServerHelloKeeps ==
  ASSUME QUICInv, NEW s \in Sides, NEW accept \in BOOLEAN, ServerHello(s, accept)
  PROVE  QUICInv'
<1> DEFINE c == conn[s]
           b == [c EXCEPT !.step = "params", !.early = accept]
           c1 == Took(b)
           c2 == Noted(c1, "TransportParameters", "Initial")
           c3 == IF accept THEN Noted(c2, "SetReadSecret", "Early") ELSE c2
           c4 == Wrote(c3, "ServerHello")
           d == HandshakeKeys(c4)
<1>1. c.place = "run" /\ c.step \in {"read_hello", "read_hello2"} /\ HasMessage(c) /\ Becomes(s, d)
  BY Zenon DEF ServerHello, Reads, Runs
<1>2. Good(s, c) /\ OutKnown(c) /\ "params" \in Steps /\ "ServerHello" \in Messages
  BY <1>1, RunFacts, Zenon
<1>3. Stepped(c, b, "params") /\ c.step # "read_fin"
  <2>1. DOMAIN c = Fields
    BY <1>2, Zenon DEF Good, ConnType
  <2>2. PlainType(b)
    BY <1>2, <2>1, Zenon DEF Fields, PlainType, Good, ConnType
  <2> QED
    BY <1>1, <2>1, <2>2, Zenon DEF Fields, Stepped
<1> HIDE DEF b
<1>4. Taken(s, c, c1, "params")
  BY <1>1, <1>2, <1>3, StepTook, Zenon
<1>5. Good(s, c1) /\ OutKnown(c1) /\ RunsOn(c, c1)
  BY <1>4, Zenon DEF Taken
<1> HIDE DEF c1
<1>6. Writes(s, c1, c2)
  BY <1>5, OrdinaryKeeps, OrdinaryEvents, Zenon
<1> HIDE DEF c2
<1>7. Good(s, c2) /\ OutKnown(c2) /\ RunsOn(c, c2)
  BY <1>5, <1>6, Zenon DEF Writes, Same, RunsOn
<1>8. Writes(s, c2, Noted(c2, "SetReadSecret", "Early"))
  BY <1>7, OrdinaryKeeps, OrdinaryEvents, Zenon
<1>9. Good(s, c3) /\ OutKnown(c3) /\ RunsOn(c, c3)
  BY <1>7, <1>8, Zenon DEF Writes, Same, RunsOn
<1> HIDE DEF c3
<1>10. Writes(s, c3, c4)
  BY <1>2, <1>9, WroteKeeps, Zenon
<1> HIDE DEF c4
<1>11. Good(s, c4) /\ RunsOn(c, c4)
  BY <1>9, <1>10, Zenon DEF Writes, Same, RunsOn
<1>12. Good(s, d) /\ OutKnown(d) /\ Same(c4, d)
  BY <1>11, HandshakeKeysKeeps, Zenon
<1> HIDE DEF d
<1>13. RunsOn(c, d)
  BY <1>11, <1>12, Zenon DEF Same, RunsOn
<1> QED
  BY <1>1, <1>12, <1>13, HandshakeBecomes, Zenon

\* The rest of the server's flight.
LEMMA ServerFlightKeeps ==
  ASSUME QUICInv, NEW s \in Sides, ServerFlight(s)
  PROVE  QUICInv'
<1> DEFINE c == conn[s]
           c1 == [c EXCEPT !.step = "read_fin"]
           ee == IF c1.early THEN "EarlyAccepted" ELSE "EncryptedExtensions"
           c2 == Wrote(c1, ee)
           c3 == Wrote(c2, "Finished")
           d == ApplicationKeys(c3)
<1>1. c.place = "run" /\ c.step = "params" /\ Becomes(s, d) /\ s = "server"
  BY Zenon DEF ServerFlight, Runs
<1>2. Good(s, c) /\ OutKnown(c) /\ "read_fin" \in Steps /\ "Finished" \in Messages /\ ee \in Messages
  BY <1>1, RunFacts, Zenon
<1>3. Good(s, c1) /\ OutKnown(c1) /\ RunsOn(c, c1)
  <2>1. Stepped(c, c1, "read_fin") /\ c.step # "read_fin"
    BY <1>1, <1>2, StepIs, Zenon
  <2> HIDE DEF c1
  <2>2. Good(s, c1) /\ OutKnown(c1)
    BY <1>2, <2>1, StepKeeps, Zenon
  <2> QED
    BY <1>1, <2>1, <2>2, Zenon DEF Stepped, RunsOn
<1> HIDE DEF c1, ee
<1>4. Writes(s, c1, c2)
  BY <1>2, <1>3, WroteKeeps, Zenon
<1>5. Good(s, c2) /\ OutKnown(c2) /\ RunsOn(c, c2)
  BY <1>3, <1>4, Zenon DEF Writes, Same, RunsOn
<1> HIDE DEF c2
<1>6. Writes(s, c2, c3)
  BY <1>2, <1>5, WroteKeeps, Zenon
<1>7. Good(s, c3) /\ RunsOn(c, c3)
  BY <1>5, <1>6, Zenon DEF Writes, Same, RunsOn
<1> HIDE DEF c3
<1>8. s # "client"
  BY <1>1
<1>9. Good(s, d) /\ OutKnown(d) /\ Same(c3, d)
  BY <1>7, <1>8, ApplicationKeysKeeps, Zenon
<1> HIDE DEF d
<1>10. RunsOn(c, d)
  BY <1>7, <1>9, Zenon DEF Same, RunsOn
<1> QED
  BY <1>1, <1>9, <1>10, HandshakeBecomes, Zenon

\* The end of the server's handshake.
LEMMA ServerFinishedKeeps ==
  ASSUME QUICInv, NEW s \in Sides, ServerFinished(s)
  PROVE  QUICInv'
<1> DEFINE c == conn[s]
           c1 == Took(c)
           c2 == [c1 EXCEPT !.inLevel = "Application"]
           d == Completed(c2)
<1>1. c.place = "run" /\ HasMessage(c) /\ Becomes(s, d) /\ s = "server"
  BY Zenon DEF ServerFinished, Reads, Runs
<1>2. Good(s, c) /\ OutKnown(c) /\ "Application" \in Levels /\ s # "client"
  BY <1>1, RunFacts, Zenon DEF Levels
<1>3. Good(s, c1) /\ OutKnown(c1) /\ Same(c, c1)
  BY <1>1, <1>2, TookKeeps, Zenon
<1> HIDE DEF c1
<1>4. Good(s, c2) /\ OutKnown(c2) /\ Same(c1, c2)
  BY <1>2, <1>3, InLevelKeeps, Zenon
<1> HIDE DEF c2
<1>5. Good(s, d) /\ OutKnown(d) /\ Ends(c2, d)
  BY <1>2, <1>4, CompletedKeeps, Zenon
<1> HIDE DEF d
<1>6. RunsOn(c, d)
  BY <1>3, <1>4, <1>5, Zenon DEF Same, Ends, RunsOn
<1> QED
  BY <1>1, <1>5, <1>6, HandshakeBecomes, Zenon

\* A check of the handshake fails.
LEMMA AbortKeeps ==
  ASSUME QUICInv, NEW s \in Sides, Abort(s)
  PROVE  QUICInv'
<1> DEFINE c == conn[s]
           d == Failed(c)
<1>1. c.place = "run" /\ Becomes(s, d)
  BY Zenon DEF Abort
<1>2. Good(s, c) /\ OutKnown(c)
  BY <1>1, RunFacts, Zenon
<1>3. Good(s, d) /\ OutKnown(d) /\ Ends(c, d)
  BY <1>2, FailedKeeps, Zenon
<1> HIDE DEF d
<1>4. RunsOn(c, d)
  BY <1>3, Zenon DEF Ends, RunsOn
<1> QED
  BY <1>1, <1>3, <1>4, HandshakeBecomes, Zenon

-----------------------------------------------------------------------------
(* The steps that log nothing.                                             *)

\* What d must have for that.
Calm(c, d) ==
    /\ Quiet(c, d)
    /\ d.call \in Calls /\ d.place \in Places /\ d.started \in BOOLEAN
    /\ d.handshakeMutex \in {"free", "user", "handshake"}
    /\ d.readbuf \in Seq(Piece) /\ d.hand \in Seq(Piece) /\ d.events \in Seq(Event)

\* A step to it.
LEMMA CalmBecomes ==
  ASSUME QUICInv, NEW s \in Sides, NEW d, Becomes(s, d), Calm(conn[s], d), OwnInv(d)
  PROVE  QUICInv'
<1>1. Good(s, conn[s]) /\ OutKnown(conn[s])
  BY Zenon DEF QUICInv, Fine
<1>2. Good(s, d) /\ OutKnown(d)
  BY <1>1, QuietKeeps, Zenon DEF Calm
<1> QED
  BY <1>2, BecomesKeeps, Zenon DEF Fine

\* What is known of a side.
LEMMA SideFacts ==
  ASSUME QUICInv, NEW s \in Sides
  PROVE  /\ Good(s, conn[s]) /\ OutKnown(conn[s]) /\ OwnInv(conn[s])
         /\ DOMAIN conn[s] = Fields /\ PlainType(conn[s]) /\ Calm(conn[s], conn[s])
BY Zenon DEF QUICInv, Fine, Good, ConnType, Calm, Quiet

\* quicWaitForSignal gives the connection to the user.
LEMMA WaitKeeps ==
  ASSUME NEW s \in Sides, NEW c, Fine(s, c), c.place = "run"
  PROVE  Fine(s, Wait(c))
<1> DEFINE d == [c EXCEPT !.place = "blocked", !.handshakeMutex = "free"]
<1>0. Wait(c) = d
  BY Zenon DEF Wait
<1>1. DOMAIN c = Fields /\ ConnType(c) /\ OwnInv(c)
  BY Zenon DEF Fine, Good, ConnType
<1>2. PlainType(d)
  BY <1>1, Zenon DEF Fields, PlainType, ConnType
<1>3. /\ Quiet(c, d) /\ d.call = c.call /\ d.place = "blocked" /\ d.handshakeMutex = "free"
      /\ d.started = c.started
      /\ d.readbuf = c.readbuf /\ d.hand = c.hand /\ d.events = c.events
  BY <1>1, <1>2, Zenon DEF Fields, Quiet
<1> HIDE DEF d
<1>4. OwnInv(d)
  BY <1>1, <1>3 DEF OwnInv
<1>5. Calm(c, d)
  BY <1>1, <1>3, Zenon DEF Calm, ConnType, Places
<1>6. Good(s, d) /\ OutKnown(d)
  BY <1>5, QuietKeeps, Zenon DEF Calm, Fine
<1> QED
  BY <1>0, <1>4, <1>6, Zenon DEF Fine

\* quicReadHandshakeBytes waits for data.
LEMMA NeedDataKeeps ==
  ASSUME QUICInv, NEW s \in Sides, NeedData(s)
  PROVE  QUICInv'
<1>1. conn[s].place = "run" /\ Becomes(s, Wait(conn[s]))
  BY Zenon DEF NeedData
<1>2. Fine(s, Wait(conn[s]))
  BY <1>1, WaitKeeps, Zenon DEF QUICInv
<1> QED
  BY <1>1, <1>2, BecomesKeeps, Zenon

\* quicGetTransportParameters asks for them once, and never if they were set before Start.
LEMMA NeedParamsKeeps ==
  ASSUME QUICInv, NEW s \in Sides, NeedParams(s)
  PROVE  QUICInv'
<1> DEFINE c == conn[s]
           n == Noted(c, "TransportParametersRequired", "Initial")
           b == IF HasLogged(c, Required) THEN c ELSE n
<1>1. c.place = "run" /\ ~c.transportParams /\ Becomes(s, Wait(b))
  BY Zenon DEF NeedParams, Runs
<1>2. Good(s, c) /\ OutKnown(c) /\ OwnInv(c)
  BY <1>1, RunFacts, Zenon
<1>3. c.started /\ ~c.paramsEarly
  BY <1>1, <1>2 DEF OwnInv, Good, ConnType, LogInv
<1>4. Logs(s, c, n, Required)
  <2>1. Required \notin {ReadApp, WriteApp, Rejected} /\ \A l \in Levels : Required # <<"WriteData", l>>
    BY DEF ReadApp, WriteApp, Rejected, Required
  <2>2. Allowed(s, c, Required)
    BY <1>3, <2>1, Zenon DEF Allowed
  <2>3. "TransportParametersRequired" \in Kinds /\ "Initial" \in Levels
    BY Zenon DEF Kinds, Levels
  <2> QED
    BY <1>2, <2>2, <2>3, NotedKeeps, Zenon DEF Required
<1> HIDE DEF n
<1>5. Good(s, b) /\ OutKnown(b) /\ RunsOn(c, b) /\ b.place = "run"
  BY <1>1, <1>2, <1>4, Zenon DEF Logs, Same, RunsOn, OutKnown
<1> HIDE DEF b
<1>6. OwnInv(b)
  BY <1>1, <1>2, <1>5, RunsKeeps, Zenon
<1>7. Fine(s, Wait(b))
  BY <1>5, <1>6, WaitKeeps, Zenon DEF Fine
<1> QED
  BY <1>1, <1>7, BecomesKeeps, Zenon

\* The handshake lets the user go on.
LEMMA BlockedSendKeeps ==
  ASSUME QUICInv, NEW s \in Sides, BlockedSend(s)
  PROVE  QUICInv'
<1> DEFINE c == conn[s]
           d == [c EXCEPT !.place = "signal", !.call = IF @ = "close" THEN "close" ELSE "idle"]
<1>1. c.place = "blocked" /\ Becomes(s, d)
  BY Zenon DEF BlockedSend
<1>2. DOMAIN c = Fields /\ PlainType(c) /\ OwnInv(c) /\ Calm(c, c)
  BY SideFacts, Zenon
<1>3. PlainType(d)
  BY <1>2, Zenon DEF Fields, PlainType
<1>4. /\ DOMAIN d = Fields /\ d.step = c.step /\ d.log = c.log /\ d.outLevel = c.outLevel
      /\ d.paramsEarly = c.paramsEarly /\ d.transportParams = c.transportParams
      /\ d.place = "signal" /\ d.call = (IF c.call = "close" THEN "close" ELSE "idle")
      /\ d.handshakeMutex = c.handshakeMutex /\ d.started = c.started /\ d.readbuf = c.readbuf
      /\ d.hand = c.hand /\ d.events = c.events
  BY <1>2, Zenon DEF Fields
<1> HIDE DEF d
<1>5. OwnInv(d)
  BY <1>1, <1>2, <1>4 DEF OwnInv
<1>6. Calm(c, d)
  BY <1>2, <1>3, <1>4, Zenon DEF Calm, Quiet, Calls, Places
<1> QED
  BY <1>1, <1>5, <1>6, CalmBecomes, Zenon

\* The handshake takes what the user brought.
LEMMA SignalSendKeeps ==
  ASSUME QUICInv, NEW s \in Sides, SignalSend(s)
  PROVE  QUICInv'
<1> DEFINE c == conn[s]
           d == [c EXCEPT !.place = "relock", !.hand = @ \o c.readbuf, !.readbuf = << >>, !.call = IF @ = "hd_signal" THEN "hd_blocked" ELSE "tp_blocked"]
<1>1. c.place = "signal" /\ c.call \in {"hd_signal", "tp_signal"} /\ Becomes(s, d)
  BY Zenon DEF SignalSend
<1>2. DOMAIN c = Fields /\ PlainType(c) /\ OwnInv(c) /\ Calm(c, c)
  BY SideFacts, Zenon
<1>3. PlainType(d)
  BY <1>2, Zenon DEF Fields, PlainType
<1>4. /\ DOMAIN d = Fields /\ d.step = c.step /\ d.log = c.log /\ d.outLevel = c.outLevel
      /\ d.paramsEarly = c.paramsEarly /\ d.transportParams = c.transportParams
      /\ d.place = "relock" /\ d.hand = c.hand \o c.readbuf /\ d.readbuf = << >>
      /\ d.call = (IF c.call = "hd_signal" THEN "hd_blocked" ELSE "tp_blocked")
      /\ d.handshakeMutex = c.handshakeMutex /\ d.started = c.started /\ d.events = c.events
  BY <1>2, Zenon DEF Fields
<1> HIDE DEF d
<1>7. c.hand \o c.readbuf \in Seq(Piece) /\ << >> \in Seq(Piece)
  <2>1. c.hand \in Seq(Piece) /\ c.readbuf \in Seq(Piece)
    BY <1>2, Zenon DEF Calm
  <2> QED
    BY <2>1
<1>5. OwnInv(d)
  BY <1>1, <1>2, <1>4 DEF OwnInv
<1>6. Calm(c, d)
  BY <1>2, <1>3, <1>4, <1>7, Zenon DEF Calm, Quiet, Calls, Places
<1> QED
  BY <1>1, <1>5, <1>6, CalmBecomes, Zenon

\* The wait is cancelled.
LEMMA WaitCanceledKeeps ==
  ASSUME QUICInv, NEW s \in Sides, WaitCanceled(s)
  PROVE  QUICInv'
<1> DEFINE c == conn[s]
           d == [c EXCEPT !.place = "unwind"]
<1>1. c.place \in {"blocked", "signal"} /\ Becomes(s, d)
  BY Zenon DEF WaitCanceled, CancelTo
<1>2. DOMAIN c = Fields /\ PlainType(c) /\ OwnInv(c) /\ Calm(c, c)
  BY SideFacts, Zenon
<1>3. PlainType(d)
  BY <1>2, Zenon DEF Fields, PlainType
<1>4. /\ DOMAIN d = Fields /\ d.step = c.step /\ d.log = c.log /\ d.outLevel = c.outLevel
      /\ d.paramsEarly = c.paramsEarly /\ d.transportParams = c.transportParams
      /\ d.place = "unwind" /\ d.call = c.call /\ d.handshakeMutex = c.handshakeMutex
      /\ d.started = c.started /\ d.readbuf = c.readbuf /\ d.hand = c.hand
      /\ d.events = c.events
  BY <1>2, Zenon DEF Fields
<1> HIDE DEF d
<1>5. OwnInv(d)
  BY <1>1, <1>2, <1>4 DEF OwnInv
<1>6. Calm(c, d)
  BY <1>2, <1>3, <1>4, Zenon DEF Calm, Quiet, Places
<1> QED
  BY <1>1, <1>5, <1>6, CalmBecomes, Zenon

\* The handshake has the mutex again.
LEMMA RelockKeeps ==
  ASSUME QUICInv, NEW s \in Sides, Relock(s)
  PROVE  QUICInv'
<1> DEFINE c == conn[s]
           d == [c EXCEPT !.place = "run", !.handshakeMutex = "handshake"]
<1>1. c.place = "relock" /\ c.handshakeMutex = "free" /\ Becomes(s, d)
  BY Zenon DEF Relock
<1>2. DOMAIN c = Fields /\ PlainType(c) /\ OwnInv(c) /\ Calm(c, c)
  BY SideFacts, Zenon
<1>3. PlainType(d)
  BY <1>2, Zenon DEF Fields, PlainType
<1>4. /\ DOMAIN d = Fields /\ d.step = c.step /\ d.log = c.log /\ d.outLevel = c.outLevel
      /\ d.paramsEarly = c.paramsEarly /\ d.transportParams = c.transportParams
      /\ d.place = "run" /\ d.handshakeMutex = "handshake" /\ d.call = c.call
      /\ d.started = c.started /\ d.readbuf = c.readbuf /\ d.hand = c.hand
      /\ d.events = c.events
  BY <1>2, Zenon DEF Fields
<1> HIDE DEF d
<1>5. OwnInv(d)
  BY <1>1, <1>2, <1>4 DEF OwnInv
<1>6. Calm(c, d)
  BY <1>2, <1>3, <1>4, Zenon DEF Calm, Quiet, Places
<1> QED
  BY <1>1, <1>5, <1>6, CalmBecomes, Zenon

\* The handshake returns.
LEMMA CloseChannelsKeeps ==
  ASSUME QUICInv, NEW s \in Sides, CloseChannels(s)
  PROVE  QUICInv'
<1> DEFINE c == conn[s]
           d == [c EXCEPT !.place = "done", !.handshakeMutex = "free"]
<1>1. c.place = "closing" /\ Becomes(s, d)
  BY Zenon DEF CloseChannels
<1>2. DOMAIN c = Fields /\ PlainType(c) /\ OwnInv(c) /\ Calm(c, c)
  BY SideFacts, Zenon
<1>3. PlainType(d)
  BY <1>2, Zenon DEF Fields, PlainType
<1>4. /\ DOMAIN d = Fields /\ d.step = c.step /\ d.log = c.log /\ d.outLevel = c.outLevel
      /\ d.paramsEarly = c.paramsEarly /\ d.transportParams = c.transportParams
      /\ d.place = "done" /\ d.handshakeMutex = "free" /\ d.call = c.call
      /\ d.started = c.started /\ d.readbuf = c.readbuf /\ d.hand = c.hand
      /\ d.events = c.events
  BY <1>2, Zenon DEF Fields
<1> HIDE DEF d
<1>5. OwnInv(d)
  BY <1>1, <1>2, <1>4 DEF OwnInv
<1>6. Calm(c, d)
  BY <1>2, <1>3, <1>4, Zenon DEF Calm, Quiet, Places
<1> QED
  BY <1>1, <1>5, <1>6, CalmBecomes, Zenon

\* The user goes on when the channels are closed.
LEMMA ReceiveClosedKeeps ==
  ASSUME QUICInv, NEW s \in Sides, ReceiveClosed(s)
  PROVE  QUICInv'
<1> DEFINE c == conn[s]
           next == [start |-> "idle", close |-> "idle", hd_signal |-> "hd_blocked",
                    hd_blocked |-> "hd_lock", tp_signal |-> "tp_blocked", tp_blocked |-> "idle"]
           d == [c EXCEPT !.call = next[@]]
<1>1. c.call \in {"start", "close", "hd_blocked", "tp_blocked", "hd_signal", "tp_signal"}
      /\ c.place \in {"closing", "done"} /\ Becomes(s, d)
  BY Zenon DEF ReceiveClosed, BlockedClosed, SignalClosed
<1>2. DOMAIN c = Fields /\ PlainType(c) /\ OwnInv(c) /\ Calm(c, c)
  BY SideFacts, Zenon
<1>3. PlainType(d)
  BY <1>2, Zenon DEF Fields, PlainType
<1>4. /\ DOMAIN d = Fields /\ d.step = c.step /\ d.log = c.log /\ d.outLevel = c.outLevel
      /\ d.paramsEarly = c.paramsEarly /\ d.transportParams = c.transportParams
      /\ d.call = next[c.call] /\ d.place = c.place /\ d.handshakeMutex = c.handshakeMutex
      /\ d.started = c.started /\ d.readbuf = c.readbuf /\ d.hand = c.hand
      /\ d.events = c.events
  BY <1>2, Zenon DEF Fields
<1> HIDE DEF d
<1>7. next[c.call] \in {"idle", "hd_blocked", "hd_lock", "tp_blocked"}
  BY <1>1
<1> HIDE DEF next
<1>5. OwnInv(d)
  BY <1>1, <1>2, <1>4, <1>7 DEF OwnInv
<1>6. Calm(c, d)
  BY <1>2, <1>3, <1>4, <1>7, Zenon DEF Calm, Quiet, Calls
<1> QED
  BY <1>1, <1>5, <1>6, CalmBecomes, Zenon

\* HandleData locks the mutex after the handshake.
LEMMA PostLockKeeps ==
  ASSUME QUICInv, NEW s \in Sides, PostLock(s)
  PROVE  QUICInv'
<1> DEFINE c == conn[s]
           d == [c EXCEPT !.call = "hd_post", !.handshakeMutex = "user", !.hand = @ \o c.readbuf, !.readbuf = << >>]
<1>1. c.call = "hd_lock" /\ c.handshakeMutex = "free" /\ Becomes(s, d)
  BY Zenon DEF PostLock
<1>2. DOMAIN c = Fields /\ PlainType(c) /\ OwnInv(c) /\ Calm(c, c)
  BY SideFacts, Zenon
<1>3. PlainType(d)
  BY <1>2, Zenon DEF Fields, PlainType
<1>4. /\ DOMAIN d = Fields /\ d.step = c.step /\ d.log = c.log /\ d.outLevel = c.outLevel
      /\ d.paramsEarly = c.paramsEarly /\ d.transportParams = c.transportParams
      /\ d.call = "hd_post" /\ d.handshakeMutex = "user" /\ d.hand = c.hand \o c.readbuf
      /\ d.readbuf = << >> /\ d.place = c.place /\ d.started = c.started /\ d.events = c.events
  BY <1>2, Zenon DEF Fields
<1> HIDE DEF d
<1>7. c.hand \o c.readbuf \in Seq(Piece) /\ << >> \in Seq(Piece)
  <2>1. c.hand \in Seq(Piece) /\ c.readbuf \in Seq(Piece)
    BY <1>2, Zenon DEF Calm
  <2> QED
    BY <2>1
<1>5. OwnInv(d)
  BY <1>1, <1>2, <1>4 DEF OwnInv
<1>6. Calm(c, d)
  BY <1>2, <1>3, <1>4, <1>7, Zenon DEF Calm, Quiet, Calls
<1> QED
  BY <1>1, <1>5, <1>6, CalmBecomes, Zenon

\* It unlocks the mutex and returns.
LEMMA PostReturnKeeps ==
  ASSUME QUICInv, NEW s \in Sides, PostReturn(s)
  PROVE  QUICInv'
<1> DEFINE c == conn[s]
           d == [c EXCEPT !.call = "idle", !.handshakeMutex = "free"]
<1>1. c.call = "hd_post" /\ Becomes(s, d)
  BY Zenon DEF PostReturn
<1>2. DOMAIN c = Fields /\ PlainType(c) /\ OwnInv(c) /\ Calm(c, c)
  BY SideFacts, Zenon
<1>3. PlainType(d)
  BY <1>2, Zenon DEF Fields, PlainType
<1>4. /\ DOMAIN d = Fields /\ d.step = c.step /\ d.log = c.log /\ d.outLevel = c.outLevel
      /\ d.paramsEarly = c.paramsEarly /\ d.transportParams = c.transportParams
      /\ d.call = "idle" /\ d.handshakeMutex = "free" /\ d.place = c.place
      /\ d.started = c.started /\ d.readbuf = c.readbuf /\ d.hand = c.hand
      /\ d.events = c.events
  BY <1>2, Zenon DEF Fields
<1> HIDE DEF d
<1>5. OwnInv(d)
  BY <1>1, <1>2, <1>4 DEF OwnInv
<1>6. Calm(c, d)
  BY <1>2, <1>3, <1>4, Zenon DEF Calm, Quiet, Calls
<1> QED
  BY <1>1, <1>5, <1>6, CalmBecomes, Zenon

\* ConnectionState returns.
LEMMA ConnectionStateReturnKeeps ==
  ASSUME QUICInv, NEW s \in Sides, ConnectionStateReturn(s)
  PROVE  QUICInv'
<1> DEFINE c == conn[s]
           d == [c EXCEPT !.call = "idle"]
<1>1. c.call = "cs_lock" /\ Becomes(s, d)
  BY Zenon DEF ConnectionStateReturn
<1>2. DOMAIN c = Fields /\ PlainType(c) /\ OwnInv(c) /\ Calm(c, c)
  BY SideFacts, Zenon
<1>3. PlainType(d)
  BY <1>2, Zenon DEF Fields, PlainType
<1>4. /\ DOMAIN d = Fields /\ d.step = c.step /\ d.log = c.log /\ d.outLevel = c.outLevel
      /\ d.paramsEarly = c.paramsEarly /\ d.transportParams = c.transportParams
      /\ d.call = "idle" /\ d.place = c.place /\ d.handshakeMutex = c.handshakeMutex
      /\ d.started = c.started /\ d.readbuf = c.readbuf /\ d.hand = c.hand
      /\ d.events = c.events
  BY <1>2, Zenon DEF Fields
<1> HIDE DEF d
<1>5. OwnInv(d)
  BY <1>1, <1>2, <1>4 DEF OwnInv
<1>6. Calm(c, d)
  BY <1>2, <1>3, <1>4, Zenon DEF Calm, Quiet, Calls
<1> QED
  BY <1>1, <1>5, <1>6, CalmBecomes, Zenon

\* The handshake starts.
LEMMA StartKeeps ==
  ASSUME QUICInv, NEW s \in Sides, Start(s)
  PROVE  QUICInv'
<1> DEFINE c == conn[s]
           d == [c EXCEPT !.started = TRUE, !.call = "start", !.place = "run", !.handshakeMutex = "handshake"]
<1>1. c.call = "idle" /\ ~c.started /\ Becomes(s, d)
  BY Zenon DEF Start, Idle
<1>2. DOMAIN c = Fields /\ PlainType(c) /\ OwnInv(c) /\ Calm(c, c)
  BY SideFacts, Zenon
<1>3. PlainType(d)
  BY <1>2, Zenon DEF Fields, PlainType
<1>4. /\ DOMAIN d = Fields /\ d.step = c.step /\ d.log = c.log /\ d.outLevel = c.outLevel
      /\ d.paramsEarly = c.paramsEarly /\ d.transportParams = c.transportParams
      /\ d.started = TRUE /\ d.call = "start" /\ d.place = "run"
      /\ d.handshakeMutex = "handshake" /\ d.readbuf = c.readbuf /\ d.hand = c.hand
      /\ d.events = c.events
  BY <1>2, Zenon DEF Fields
<1> HIDE DEF d
<1>5. OwnInv(d)
  BY <1>1, <1>2, <1>4 DEF OwnInv
<1>6. Calm(c, d)
  BY <1>2, <1>3, <1>4, Zenon DEF Calm, Quiet, Calls, Places
<1> QED
  BY <1>1, <1>5, <1>6, CalmBecomes, Zenon

\* The context of the user is cancelled.
LEMMA CancelKeeps ==
  ASSUME QUICInv, NEW s \in Sides, Cancel(s)
  PROVE  QUICInv'
<1> DEFINE c == conn[s]
           d == [c EXCEPT !.canceled = TRUE]
<1>1. s \in MayCancel /\ Becomes(s, d)
  BY Zenon DEF Cancel
<1>2. DOMAIN c = Fields /\ PlainType(c) /\ OwnInv(c) /\ Calm(c, c)
  BY SideFacts, Zenon
<1>3. PlainType(d)
  BY <1>2, Zenon DEF Fields, PlainType
<1>4. /\ DOMAIN d = Fields /\ d.step = c.step /\ d.log = c.log /\ d.outLevel = c.outLevel
      /\ d.paramsEarly = c.paramsEarly /\ d.transportParams = c.transportParams
      /\ d.call = c.call /\ d.place = c.place /\ d.handshakeMutex = c.handshakeMutex
      /\ d.started = c.started /\ d.readbuf = c.readbuf /\ d.hand = c.hand
      /\ d.events = c.events
  BY <1>2, Zenon DEF Fields
<1> HIDE DEF d
<1>5. OwnInv(d)
  BY <1>1, <1>2, <1>4 DEF OwnInv
<1>6. Calm(c, d)
  BY <1>2, <1>3, <1>4, Zenon DEF Calm, Quiet
<1> QED
  BY <1>1, <1>5, <1>6, CalmBecomes, Zenon

\* The user closes the connection.
LEMMA CloseKeeps ==
  ASSUME QUICInv, NEW s \in Sides, Close(s)
  PROVE  QUICInv'
<1> DEFINE c == conn[s]
           d == [c EXCEPT !.canceled = TRUE, !.call = "close"]
<1>1. c.call = "idle" /\ Becomes(s, d)
  BY Zenon DEF Close, Idle
<1>2. DOMAIN c = Fields /\ PlainType(c) /\ OwnInv(c) /\ Calm(c, c)
  BY SideFacts, Zenon
<1>3. PlainType(d)
  BY <1>2, Zenon DEF Fields, PlainType
<1>4. /\ DOMAIN d = Fields /\ d.step = c.step /\ d.log = c.log /\ d.outLevel = c.outLevel
      /\ d.paramsEarly = c.paramsEarly /\ d.transportParams = c.transportParams
      /\ d.call = "close" /\ d.place = c.place /\ d.handshakeMutex = c.handshakeMutex
      /\ d.started = c.started /\ d.readbuf = c.readbuf /\ d.hand = c.hand
      /\ d.events = c.events
  BY <1>2, Zenon DEF Fields
<1> HIDE DEF d
<1>5. OwnInv(d)
  BY <1>1, <1>2, <1>4 DEF OwnInv
<1>6. Calm(c, d)
  BY <1>2, <1>3, <1>4, Zenon DEF Calm, Quiet, Calls
<1> QED
  BY <1>1, <1>5, <1>6, CalmBecomes, Zenon

\* The user asks for the state.
LEMMA ConnectionStateKeeps ==
  ASSUME QUICInv, NEW s \in Sides, ConnectionState(s)
  PROVE  QUICInv'
<1> DEFINE c == conn[s]
           d == [c EXCEPT !.asked = TRUE, !.call = "cs_lock"]
<1>1. c.call = "idle" /\ Becomes(s, d)
  BY Zenon DEF ConnectionState, Idle
<1>2. DOMAIN c = Fields /\ PlainType(c) /\ OwnInv(c) /\ Calm(c, c)
  BY SideFacts, Zenon
<1>3. PlainType(d)
  BY <1>2, Zenon DEF Fields, PlainType
<1>4. /\ DOMAIN d = Fields /\ d.step = c.step /\ d.log = c.log /\ d.outLevel = c.outLevel
      /\ d.paramsEarly = c.paramsEarly /\ d.transportParams = c.transportParams
      /\ d.call = "cs_lock" /\ d.place = c.place /\ d.handshakeMutex = c.handshakeMutex
      /\ d.started = c.started /\ d.readbuf = c.readbuf /\ d.hand = c.hand
      /\ d.events = c.events
  BY <1>2, Zenon DEF Fields
<1> HIDE DEF d
<1>5. OwnInv(d)
  BY <1>1, <1>2, <1>4 DEF OwnInv
<1>6. Calm(c, d)
  BY <1>2, <1>3, <1>4, Zenon DEF Calm, Quiet, Calls
<1> QED
  BY <1>1, <1>5, <1>6, CalmBecomes, Zenon

-----------------------------------------------------------------------------
(* The other steps.                                                        *)

\* Who owns the connection does not change.
LEMMA OwnSame ==
  ASSUME NEW c, OwnInv(c), NEW d, Same(c, d)
  PROVE  OwnInv(d)
BY DEF OwnInv, Same

\* The cancelled handshake fails once it has the mutex.
LEMMA UnwindKeeps ==
  ASSUME QUICInv, NEW s \in Sides, Unwind(s)
  PROVE  QUICInv'
<1> DEFINE c == conn[s]
           b == [c EXCEPT !.handshakeMutex = "handshake"]
           d == Failed(b)
<1>1. c.place = "unwind" /\ c.handshakeMutex = "free" /\ Becomes(s, d)
  BY Zenon DEF Unwind
<1>2. DOMAIN c = Fields /\ PlainType(c) /\ OwnInv(c) /\ Calm(c, c) /\ Good(s, c) /\ OutKnown(c)
  BY SideFacts, Zenon
<1>3. PlainType(b)
  BY <1>2, Zenon DEF Fields, PlainType
<1>4. /\ DOMAIN b = Fields /\ b.step = c.step /\ b.log = c.log /\ b.outLevel = c.outLevel
      /\ b.paramsEarly = c.paramsEarly /\ b.transportParams = c.transportParams
      /\ b.handshakeMutex = "handshake" /\ b.call = c.call /\ b.place = c.place
      /\ b.started = c.started /\ b.readbuf = c.readbuf /\ b.hand = c.hand /\ b.events = c.events
  BY <1>2, Zenon DEF Fields
<1> HIDE DEF b
<1>5. Calm(c, b)
  BY <1>2, <1>3, <1>4, Zenon DEF Calm, Quiet
<1>6. Good(s, b) /\ OutKnown(b)
  BY <1>2, <1>5, QuietKeeps, Zenon DEF Calm
<1>7. Good(s, d) /\ OutKnown(d) /\ Ends(b, d)
  BY <1>6, FailedKeeps, Zenon
<1> HIDE DEF d
<1>8. OwnInv(d)
  BY <1>1, <1>2, <1>4, <1>7 DEF OwnInv, Ends
<1> QED
  BY <1>1, <1>7, <1>8, BecomesKeeps, Zenon DEF Fine

\* A message after the handshake is handled.
LEMMA PostMessageKeeps ==
  ASSUME QUICInv, NEW s \in Sides, NEW refuse \in BOOLEAN, PostMessage(s, refuse)
  PROVE  QUICInv'
<1> DEFINE c == conn[s]
           b == Took(c)
           e == refuse \/ c.hand[1].msg # "NewSessionTicket" \/ s = "server"
           d == [b EXCEPT !.handshakeErr = e]
<1>1. HasMessage(c) /\ Becomes(s, d)
  BY Zenon DEF PostMessage
<1>2. OwnInv(c) /\ Good(s, c) /\ OutKnown(c)
  BY SideFacts, Zenon
<1>3. Good(s, b) /\ OutKnown(b) /\ Same(c, b)
  BY <1>1, <1>2, TookKeeps, Zenon
<1> HIDE DEF b
<1>4. DOMAIN b = Fields /\ e \in BOOLEAN
  BY <1>3, Zenon DEF Good, ConnType
<1> HIDE DEF e
<1>5. PlainType(d)
  BY <1>3, <1>4, Zenon DEF Fields, PlainType, Good, ConnType
<1>6. Plain(b, d)
  BY <1>4, <1>5, Zenon DEF Fields, Plain, Quiet, Same
<1> HIDE DEF d
<1>7. Good(s, d) /\ OutKnown(d) /\ Same(b, d)
  BY <1>3, <1>6, PlainKeeps, Zenon
<1>8. OwnInv(d)
  BY <1>2, <1>3, <1>7, OwnSame, Zenon
<1> QED
  BY <1>1, <1>7, <1>8, BecomesKeeps, Zenon DEF Fine

\* The server sends a session ticket.
LEMMA SendSessionTicketKeeps ==
  ASSUME QUICInv, NEW s \in Sides, SendSessionTicket(s)
  PROVE  QUICInv'
<1> DEFINE c == conn[s]
           b == [c EXCEPT !.sessionTicketSent = TRUE]
           d == Wrote(b, "NewSessionTicket")
<1>1. Becomes(s, d)
  BY Zenon DEF SendSessionTicket
<1>2. OwnInv(c) /\ Good(s, c) /\ OutKnown(c) /\ DOMAIN c = Fields /\ PlainType(c)
  BY SideFacts, Zenon
<1>3. PlainType(b)
  BY <1>2, Zenon DEF Fields, PlainType
<1>4. Plain(c, b)
  BY <1>2, <1>3, Zenon DEF Fields, Plain, Quiet, Same
<1> HIDE DEF b
<1>5. Good(s, b) /\ OutKnown(b) /\ Same(c, b)
  BY <1>2, <1>4, PlainKeeps, Zenon
<1>6. "NewSessionTicket" \in Messages
  BY Zenon DEF Messages
<1>7. Writes(s, b, d)
  BY <1>5, <1>6, WroteKeeps, Zenon
<1> HIDE DEF d
<1>8. Good(s, d) /\ OutKnown(d) /\ Same(b, d)
  BY <1>7, Zenon DEF Writes
<1>9. OwnInv(d)
  BY <1>2, <1>5, <1>8, OwnSame, Zenon
<1> QED
  BY <1>1, <1>8, <1>9, BecomesKeeps, Zenon DEF Fine

\* The transport parameters are set, once.  Before Start none were asked for.
LEMMA SetTransportParametersKeeps ==
  ASSUME QUICInv, NEW s \in Sides, SetTransportParameters(s)
  PROVE  QUICInv'
<1> DEFINE c == conn[s]
           n == IF c.started THEN "tp_signal" ELSE "idle"
           p == ~c.started
           d == [c EXCEPT !.transportParams = TRUE, !.paramsEarly = p, !.call = n]
<1>1. c.call = "idle" /\ Becomes(s, d)
  BY Zenon DEF SetTransportParameters, Idle
<1>2. DOMAIN c = Fields /\ ConnType(c) /\ OwnInv(c) /\ LogInv(s, c) /\ OutKnown(c)
  BY SideFacts, Zenon DEF Good
<1>3. n \in {"tp_signal", "idle"} /\ n \in Calls /\ p \in BOOLEAN /\ (p => ~In(c.log, Required))
  BY <1>2, Zenon DEF Calls, LogInv
<1> HIDE DEF n, p
<1>4. PlainType(d)
  BY <1>2, <1>3, Zenon DEF Fields, PlainType, ConnType
<1>5. /\ DOMAIN d = Fields /\ d.step = c.step /\ d.log = c.log /\ d.outLevel = c.outLevel
      /\ d.paramsEarly = p /\ d.transportParams = TRUE
      /\ d.handshakeMutex = c.handshakeMutex /\ d.call = n /\ d.place = c.place
      /\ d.started = c.started /\ d.readbuf = c.readbuf /\ d.hand = c.hand /\ d.events = c.events
  BY <1>2, Zenon DEF Fields
<1> HIDE DEF d
<1>6. ConnType(d)
  BY <1>2, <1>3, <1>4, <1>5, Zenon DEF ConnType
<1>7. LogInv(s, d) /\ OutKnown(d)
  BY <1>2, <1>3, <1>5, Zenon DEF LogInv, OutKnown
<1>8. OwnInv(d)
  BY <1>1, <1>2, <1>3, <1>5 DEF OwnInv
<1> QED
  BY <1>1, <1>6, <1>7, <1>8, BecomesKeeps, Zenon DEF Fine, Good

\* A step that also sends or receives.
LEMMA NetBecomes ==
  ASSUME QUICInv, NEW s \in Sides, DOMAIN conn' = Sides, NetInv', Fine(s, conn'[s]),
         \A t \in Sides : t # s => conn'[t] = conn[t]
  PROVE  QUICInv'
BY Zenon DEF QUICInv

\* The user takes an event.
LEMMA NextEventKeeps ==
  ASSUME QUICInv, NEW s \in Sides, NextEvent(s)
  PROVE  QUICInv'
<1> DEFINE c == conn[s]
           e == Head(c.events)
           r == Tail(c.events)
           k == IF e.kind = "SetReadSecret" THEN c.secrets \cup {e.level} ELSE c.secrets
           d == conn'[s]
<1>1. DOMAIN conn = Sides /\ net \in [Sides -> Seq(Piece)]
  BY Zenon DEF QUICInv, NetInv
<1>2. /\ DOMAIN c = Fields /\ PlainType(c) /\ OwnInv(c) /\ Calm(c, c) /\ Good(s, c) /\ OutKnown(c)
      /\ c.events \in Seq(Event)
  BY SideFacts, Zenon DEF Calm
<1>3. c.events # << >> /\ net' = [net EXCEPT ![Other(s)] = @ \o e.data]
  BY Zenon DEF NextEvent
<1>4. conn' = [conn EXCEPT ![s].events = r, ![s].secrets = k]
  BY <1>1, <1>2 DEF NextEvent, Fields
<1>5. e \in Event /\ r \in Seq(Event)
  BY <1>2, <1>3
<1>6. e.data \in Seq(Piece) /\ e.level \in Levels
  BY <1>5 DEF Event
<1>7. k \subseteq Levels
  BY <1>2, <1>6, Zenon DEF PlainType
<1> HIDE DEF e, r, k
<1>8. DOMAIN conn' = Sides /\ \A t \in Sides : t # s => conn'[t] = conn[t]
  BY <1>1, <1>4
<1>9. d = [c EXCEPT !.events = r, !.secrets = k]
  BY <1>1, <1>2, <1>4
<1>10. NetInv'
  <2>1. Other(s) \in Sides
    BY DEF Other, Sides
  <2>2. net[Other(s)] \o e.data \in Seq(Piece)
    BY <1>1, <1>6, <2>1
  <2> QED
    BY <1>1, <1>3, <2>1, <2>2, Zenon DEF NetInv
<1>11. /\ DOMAIN d = Fields /\ d.step = c.step /\ d.log = c.log /\ d.outLevel = c.outLevel
       /\ d.paramsEarly = c.paramsEarly /\ d.transportParams = c.transportParams
       /\ d.handshakeMutex = c.handshakeMutex /\ d.call = c.call /\ d.place = c.place
       /\ d.started = c.started /\ d.readbuf = c.readbuf /\ d.hand = c.hand /\ d.events = r
  <2>1. d.step = c.step /\ d.log = c.log /\ d.outLevel = c.outLevel /\ d.events = r
    BY <1>2, <1>9, Zenon DEF Fields
  <2>2. /\ d.paramsEarly = c.paramsEarly /\ d.transportParams = c.transportParams
        /\ d.handshakeMutex = c.handshakeMutex /\ d.call = c.call /\ d.place = c.place
    BY <1>2, <1>9, Zenon DEF Fields
  <2>3. DOMAIN d = Fields /\ d.started = c.started /\ d.readbuf = c.readbuf /\ d.hand = c.hand
    BY <1>2, <1>9, Zenon DEF Fields
  <2> QED
    BY <2>1, <2>2, <2>3, Zenon
<1>12. PlainType(d)
  BY <1>2, <1>7, <1>9, Zenon DEF Fields, PlainType
<1> HIDE DEF d
<1>13. Calm(c, d) /\ Same(c, d)
  BY <1>2, <1>5, <1>11, <1>12, Zenon DEF Calm, Quiet, Same
<1>14. Good(s, d) /\ OutKnown(d)
  BY <1>2, <1>13, QuietKeeps, Zenon DEF Calm
<1>15. OwnInv(d)
  BY <1>2, <1>13, OwnSame, Zenon
<1> QED
  BY <1>8, <1>10, <1>14, <1>15, NetBecomes, Zenon DEF Fine, d

\* The user delivers data, or is refused.
LEMMA HandleDataKeeps ==
  ASSUME QUICInv, NEW s \in Sides, NEW n \in DOMAIN net[s], HandleData(s, n)
  PROVE  QUICInv'
<1> DEFINE c == conn[s]
           level == net[s][1].level
           b == [c EXCEPT !.wrongLevel = TRUE]
           r == SubSeq(net[s], 1, n)
           q == SubSeq(net[s], n + 1, Len(net[s]))
           a == [c EXCEPT !.readbuf = r, !.call = "hd_signal"]
           d == IF c.inLevel # level THEN b ELSE a
<1>1. /\ DOMAIN conn = Sides /\ net \in [Sides -> Seq(Piece)]
      /\ net[s] \in Seq(Piece)
  BY Zenon DEF QUICInv, NetInv
<1>2. /\ DOMAIN c = Fields /\ PlainType(c) /\ OwnInv(c) /\ Calm(c, c) /\ Good(s, c) /\ OutKnown(c)
  BY SideFacts, Zenon
<1>3. /\ c.call = "idle" /\ net' = [net EXCEPT ![s] = q] /\ conn' = [conn EXCEPT ![s] = d]
      /\ c.started
  BY Zenon DEF HandleData, Idle
<1>4. q \in Seq(Piece) /\ r \in Seq(Piece)
  BY <1>1
<1> HIDE DEF r, q
<1>5. conn'[s] = d /\ DOMAIN conn' = Sides /\ \A t \in Sides : t # s => conn'[t] = conn[t]
  BY <1>1, <1>3, Zenon
<1>6. NetInv'
  BY <1>1, <1>3, <1>4, Zenon DEF NetInv
<1>7. Fine(s, a)
  <2>1. PlainType(a)
    BY <1>2, Zenon DEF Fields, PlainType
  <2>2. /\ DOMAIN a = Fields /\ a.step = c.step /\ a.log = c.log /\ a.outLevel = c.outLevel
        /\ a.paramsEarly = c.paramsEarly /\ a.transportParams = c.transportParams
        /\ a.handshakeMutex = c.handshakeMutex /\ a.call = "hd_signal" /\ a.place = c.place
        /\ a.started = c.started /\ a.readbuf = r /\ a.hand = c.hand /\ a.events = c.events
    BY <1>2, Zenon DEF Fields
  <2> HIDE DEF a
  <2>3. Calm(c, a)
    BY <1>2, <1>4, <2>1, <2>2, Zenon DEF Calm, Quiet, Calls
  <2>4. Good(s, a) /\ OutKnown(a)
    BY <1>2, <2>3, QuietKeeps, Zenon DEF Calm
  <2>5. OwnInv(a)
    BY <1>2, <1>3, <2>2 DEF OwnInv
  <2> QED
    BY <2>4, <2>5, Zenon DEF Fine
<1>8. Fine(s, b)
  <2>1. PlainType(b)
    BY <1>2, Zenon DEF Fields, PlainType
  <2>2. Plain(c, b)
    BY <1>2, <2>1, Zenon DEF Fields, Plain, Quiet, Same
  <2> HIDE DEF b
  <2>3. Good(s, b) /\ OutKnown(b) /\ Same(c, b)
    BY <1>2, <2>2, PlainKeeps, Zenon
  <2>4. OwnInv(b)
    BY <1>2, <2>3, OwnSame, Zenon
  <2> QED
    BY <2>3, <2>4, Zenon DEF Fine
<1> HIDE DEF a, b
<1>9. Fine(s, d)
  BY <1>7, <1>8, Zenon
<1> QED
  BY <1>5, <1>6, <1>9, NetBecomes, Zenon

-----------------------------------------------------------------------------
(* The theorems.                                                           *)

\* A connection is typed, owned by nobody and has no events at first.
LEMMA QUICStart == Init => QUICInv
<1> SUFFICES ASSUME Init PROVE QUICInv
  OBVIOUS
<1>1. DOMAIN conn = Sides /\ NetInv
  <2>1. << >> \in Seq(Piece)
    OBVIOUS
  <2> QED
    BY <2>1, Zenon DEF Init, NetInv
<1> SUFFICES ASSUME NEW s \in Sides PROVE Fine(s, conn[s])
  BY <1>1, Zenon DEF QUICInv
<1> DEFINE c == conn[s]
<1>2. DOMAIN c = Fields
  BY DEF Init, Fields
<1>3. /\ c.call = "idle" /\ c.place = "none" /\ c.step \in {"params", "read_hello"}
      /\ c.handshakeMutex = "free" /\ c.readbuf = << >> /\ c.hand = << >> /\ c.events = << >>
      /\ c.log = << >> /\ c.inLevel = "Initial" /\ c.outLevel = "Initial"
      /\ c.secrets = {"Initial"} /\ c.started = FALSE
  BY DEF Init
<1>4. PlainType(c)
  <2>1. "Initial" \in Levels /\ {"Initial"} \subseteq Levels
    BY Zenon DEF Levels
  <2>2. c.early \in BOOLEAN
    BY Zenon DEF Init
  <2>3. /\ c.transportParams = FALSE /\ c.paramsEarly = FALSE /\ c.canceled = FALSE
        /\ c.isHandshakeComplete = FALSE /\ c.handshakeErr = FALSE
        /\ c.sessionTicketSent = FALSE /\ c.alert = FALSE /\ c.wrongLevel = FALSE /\ c.asked = FALSE
    BY DEF Init
  <2> QED
    BY <1>3, <2>1, <2>2, <2>3, Zenon DEF PlainType
<1>5. c.paramsEarly = FALSE
  BY DEF Init
<1> HIDE DEF c
<1>6. ConnType(c)
  <2>1. \A S : << >> \in Seq(S)
    OBVIOUS
  <2>2. "idle" \in Calls /\ "none" \in Places /\ {"params", "read_hello"} \subseteq Steps /\ "Initial" \in Levels
    BY Zenon DEF Calls, Places, Steps, Levels
  <2> QED
    BY <1>2, <1>3, <1>4, <2>1, <2>2, Zenon DEF ConnType
<1>7. LogInv(s, c)
  <2>1. DOMAIN c.log = {}
    BY <1>3
  <2> QED
    BY <1>5, <2>1, Zenon DEF LogInv, Ordered, Precedes, In
<1>8. OutKnown(c) /\ OwnInv(c)
  BY <1>3 DEF OutKnown, OwnInv
<1> QED
  BY <1>6, <1>7, <1>8, Zenon DEF Fine, Good, c

\* Every step keeps the invariant.
LEMMA QUICStep == QUICInv /\ [Next]_vars => QUICInv'
<1> SUFFICES ASSUME QUICInv, [Next]_vars PROVE QUICInv'
  OBVIOUS
<1>1. CASE UNCHANGED vars
  BY <1>1, Zenon DEF vars, QUICInv, NetInv
<1>2. CASE Next
  <2> PICK s \in Sides :
        \/ Handshake(s) \/ Abort(s) \/ Return(s)
        \/ Start(s) \/ NextEvent(s) \/ SetTransportParameters(s) \/ Deliver(s)
        \/ Cancel(s) \/ Close(s) \/ SendSessionTicket(s) \/ ConnectionState(s)
    BY <1>2, Zenon DEF Next
  <2>1. CASE Handshake(s)
    BY <2>1, NeedDataKeeps, NeedParamsKeeps, BlockedSendKeeps, SignalSendKeeps, WaitCanceledKeeps,
       RelockKeeps, UnwindKeeps, CloseChannelsKeeps, ClientHelloKeeps, ClientRetryKeeps,
       ClientKeysKeeps, ClientFinishedKeeps, ClientParametersKeeps, ServerRetryKeeps,
       ServerFlightKeeps, ServerFinishedKeeps, ServerHelloKeeps, Zenon DEF Handshake
  <2>2. CASE Return(s)
    BY <2>2, ReceiveClosedKeeps, PostLockKeeps, PostReturnKeeps, ConnectionStateReturnKeeps,
       PostMessageKeeps, Zenon DEF Return
  <2>3. CASE Deliver(s)
    BY <2>3, HandleDataKeeps, Zenon DEF Deliver
  <2> QED
    BY <2>1, <2>2, <2>3, AbortKeeps, StartKeeps, NextEventKeeps, SetTransportParametersKeeps,
       CancelKeeps, CloseKeeps, SendSessionTicketKeeps, ConnectionStateKeeps, Zenon
<1> QED
  BY <1>1, <1>2

\* quic.go: the handshake goroutine and the user of a QUICConn never own the connection
\* at once, and handshakeMutex agrees with who owns it, whatever the other side, the
\* cancellations and the failures do.
THEOREM ConnectionHandedOver == Spec => []Handover
<1>1. QUICInv => Handover
  <2> SUFFICES ASSUME QUICInv PROVE Handover
    OBVIOUS
  <2>1. \A s \in Sides : ConnType(conn[s]) /\ OwnInv(conn[s])
    BY Zenon DEF QUICInv, Fine, Good
  <2>2. TypeOK
    <3>1. net \in [Sides -> Seq(Piece)] /\ DOMAIN conn = Sides
      BY Zenon DEF QUICInv, NetInv
    <3>2. \A s \in Sides :
            /\ conn[s].call \in Calls /\ conn[s].place \in Places /\ conn[s].step \in Steps
            /\ conn[s].handshakeMutex \in {"free", "user", "handshake"}
            /\ conn[s].readbuf \in Seq(Piece) /\ conn[s].hand \in Seq(Piece)
            /\ conn[s].inLevel \in Levels /\ conn[s].outLevel \in Levels
            /\ conn[s].secrets \subseteq Levels /\ conn[s].log \in Seq(Kinds \X Levels)
      BY <2>1, Zenon DEF ConnType, PlainType
    <3>3. \A s \in Sides :
            {conn[s].started, conn[s].transportParams, conn[s].paramsEarly, conn[s].canceled,
             conn[s].isHandshakeComplete, conn[s].handshakeErr, conn[s].early,
             conn[s].sessionTicketSent, conn[s].alert, conn[s].wrongLevel, conn[s].asked}
              \subseteq BOOLEAN
      <4> SUFFICES ASSUME NEW s \in Sides
                   PROVE  {conn[s].started, conn[s].transportParams, conn[s].paramsEarly,
                           conn[s].canceled, conn[s].isHandshakeComplete, conn[s].handshakeErr,
                           conn[s].early, conn[s].sessionTicketSent, conn[s].alert,
                           conn[s].wrongLevel, conn[s].asked} \subseteq BOOLEAN
        OBVIOUS
      <4>1. /\ conn[s].started \in BOOLEAN /\ conn[s].transportParams \in BOOLEAN
            /\ conn[s].paramsEarly \in BOOLEAN /\ conn[s].canceled \in BOOLEAN
            /\ conn[s].isHandshakeComplete \in BOOLEAN /\ conn[s].handshakeErr \in BOOLEAN
            /\ conn[s].early \in BOOLEAN /\ conn[s].sessionTicketSent \in BOOLEAN
            /\ conn[s].alert \in BOOLEAN /\ conn[s].wrongLevel \in BOOLEAN
            /\ conn[s].asked \in BOOLEAN
        BY <2>1, Zenon DEF ConnType, PlainType
      <4> QED
        BY <4>1, Zenon
    <3> QED
      BY <3>1, <3>2, <3>3, Zenon DEF TypeOK
  <2> QED
    BY <2>1, <2>2, Zenon DEF Handover, OwnInv
<1> QED
  BY <1>1, QUICStart, QUICStep, PTL DEF Spec

\* quic.go and handshake_*_tls13.go: the events of a QUICConn come in the order that a
\* QUIC implementation relies on, whatever the other side, the cancellations and the
\* failures do.
THEOREM EventsOrdered == Spec => []EventsInOrder
<1>1. QUICInv => EventsInOrder
  <2> SUFFICES ASSUME QUICInv, NEW s \in Sides
               PROVE  LET c == conn[s] IN
                      /\ \A l \in Levels \ {"Initial"} : After(c, <<"WriteData", l>>, <<"SetWriteSecret", l>>)
                      /\ After(c, <<"SetReadSecret", "Application">>, <<"HandshakeDone", "Application">>)
                      /\ \A i, j \in DOMAIN c.log :
                           c.log[i] = <<"RejectedEarlyData", "Early">>
                             /\ c.log[j] \in {"SetReadSecret", "SetWriteSecret"} \X {"Application"} => i < j
                      /\ c.paramsEarly => ~HasLogged(c, Required)
    BY Zenon DEF EventsInOrder
  <2>1. LogInv(s, conn[s])
    BY Zenon DEF QUICInv, Fine, Good
  <2>2. Ordered(conn[s].log) /\ (conn[s].paramsEarly => ~HasLogged(conn[s], Required))
    BY <2>1, Zenon DEF LogInv, In, HasLogged
  <2>3. \A l \in Levels \ {"Initial"} : After(conn[s], <<"WriteData", l>>, <<"SetWriteSecret", l>>)
    BY <2>2, Zenon DEF Ordered, Precedes, After
  <2>4. After(conn[s], <<"SetReadSecret", "Application">>, <<"HandshakeDone", "Application">>)
    BY <2>2, Zenon DEF Ordered, Precedes, After, ReadApp, Done
  <2>5. \A x \in {"SetReadSecret", "SetWriteSecret"} \X {"Application"} : x \in {ReadApp, WriteApp}
    BY DEF ReadApp, WriteApp
  <2>6. \A i, j \in DOMAIN conn[s].log :
          conn[s].log[i] = <<"RejectedEarlyData", "Early">>
            /\ conn[s].log[j] \in {"SetReadSecret", "SetWriteSecret"} \X {"Application"} => i < j
    BY <2>2, <2>5, Zenon DEF Ordered, Rejected
  <2> QED
    BY <2>2, <2>3, <2>4, <2>6, Zenon
<1> QED
  BY <1>1, QUICStart, QUICStep, PTL DEF Spec
=============================================================================
