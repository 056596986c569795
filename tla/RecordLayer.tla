---------------------------- MODULE RecordLayer ----------------------------
(***************************************************************************)
(* The record layer of an open connection (conn.go): Write, closeNotify,   *)
(* Read with its ignored records and post-handshake messages, and key      *)
(* updates, in which the goroutine that reads advances the secret under    *)
(* which others write.  c.in is held throughout a Read, c.out record by    *)
(* record.  The peer is external and conforms to the protocol; it may ask  *)
(* for key updates, which this code never does.  A write may fail and its  *)
(* record be lost; the network keeps order.                                *)
(***************************************************************************)
EXTENDS Naturals, Sequences

CONSTANTS
    Versions,     \* subset of {"1.2", "1.3"}
    maxUselessRecords,
    MaxSeq,       \* stands for 2^64 - 1
    MaxFragments, \* bound: records one Write needs
    MaxWrites,    \* bound: calls of Write
    MaxPeer,      \* bound: records the peer sends
    MaxTickets    \* bound: session tickets in one record

ASSUME BoundsAssumption ==
    /\ {maxUselessRecords, MaxSeq, MaxWrites, MaxPeer, MaxTickets} \subseteq Nat
    /\ MaxFragments \in Nat \ {0}

VARIABLES
    vers,
    out, outErr, outLock,   \* c.out: position, err, and who has locked it
    sealed, wire,           \* the records encrypt made, and those written
    writing,                \* fragments the Write in progress has left
    writes, closeNotifySent,
    peerIn, peerTaken, peerErr, read,   \* the peer's receiving side
    peerOut, peerSealed, peerWire,      \* its sending side
    in, inErr, taken, seen, \* c.in, what decrypt accepted, how far the input is read
    hand,                   \* the messages in c.hand: tickets, and a key update or "none"
    reader,                 \* "read", or what Read needs c.out for
    retryCount,
    input, held, got,       \* c.input; copied to b but not returned yet; returned
    panicked

outVars == <<out, outErr, sealed, wire>>
writerVars == <<writing, writes, closeNotifySent>>
peerVars == <<peerIn, peerTaken, peerErr, read, peerOut, peerSealed, peerWire>>
readVars == <<in, inErr, taken, seen, hand, reader, retryCount, input, held, got>>
vars == <<vers, outVars, outLock, writerVars, peerVars, readVars, panicked>>

\* What a record carries: fragment j of Write i, an alert, or handshake messages, a
\* number of tickets and then perhaps a key update.
Data(i, j) == <<"data", i, j>>
Empty == <<"empty", 0, 0>>
Ccs == <<"ccs", 0, 0>>
Alert(a) == <<a, 0, 0>>
Handshake(n, u) == <<"handshake", n, u>>

Alerts == {"close_notify", "fatal", "warning"}
Updates == {"update", "update_requested"}
HandshakeBodies == {Handshake(0, u) : u \in Updates} \cup {Handshake(n, "none") : n \in 1..MaxTickets}
Bodies ==
    {Data(i, j) : i \in 1..(MaxWrites + MaxPeer), j \in 1..MaxFragments}
    \cup {Empty} \cup {Alert(a) : a \in Alerts} \cup HandshakeBodies

Rekeys(b) == b[1] = "handshake" /\ b[3] # "none"

Start == [epoch |-> 0, seq |-> 0]

\* setTrafficSecret.
SetTrafficSecret(p) == [epoch |-> p.epoch + 1, seq |-> 0]

\* incSeq panics instead of wrapping.
Wraps(p) == p.seq = MaxSeq
IncSeq(p) == [p EXCEPT !.seq = (@ + 1) % (MaxSeq + 1)]

NoMessage == [tickets |-> 0, update |-> "none"]

Init ==
    /\ vers \in Versions
    /\ out = Start /\ outErr = "nil" /\ outLock = "free" /\ sealed = << >> /\ wire = << >>
    /\ writing = 0 /\ writes = 0 /\ closeNotifySent = FALSE
    /\ peerIn = Start /\ peerTaken = << >> /\ peerErr = FALSE /\ read = 0
    /\ peerOut = Start /\ peerSealed = << >> /\ peerWire = << >>
    /\ in = Start /\ inErr = "nil" /\ taken = << >> /\ seen = 0 /\ hand = NoMessage
    /\ reader = "read" /\ retryCount = 0
    /\ input = << >> /\ held = << >> /\ got = << >>
    /\ panicked = FALSE

-----------------------------------------------------------------------------
(* writeRecordLocked.                                                      *)

\* One record; ok: the write succeeds.  A panic comes before the write.
WriteRecordLocked(b, ok) ==
    /\ sealed' = Append(sealed, [pos |-> out, body |-> b, sent |-> ok /\ ~Wraps(out)])
    /\ wire' = IF ok /\ ~Wraps(out) THEN Append(wire, [pos |-> out, body |-> b]) ELSE wire
    /\ panicked' = Wraps(out)

-----------------------------------------------------------------------------
(* Write: the mutex is held over all records of the data.                  *)

WriteCall ==
    /\ writes < MaxWrites /\ outLock = "free" /\ ~panicked
    /\ writes' = writes + 1
    /\ IF outErr = "nil" /\ ~closeNotifySent
       THEN outLock' = "writer" /\ writing' \in 1..MaxFragments
       ELSE UNCHANGED <<outLock, writing>>
    /\ UNCHANGED <<vers, outVars, closeNotifySent, peerVars, readVars, panicked>>

\* A faulty variant: after a failed write the mutex is not released.
WriteFragmentKeepsLock(ok) ==
    /\ outLock = "writer" /\ writing > 0 /\ ~panicked
    /\ WriteRecordLocked(Data(writes, writing), ok)
    /\ out' = IncSeq(out)
    /\ writing' = IF ok THEN writing - 1 ELSE 0
    /\ outErr' = IF ok THEN outErr ELSE "write"
    /\ outLock' = IF ok /\ writing' = 0 THEN "free" ELSE outLock
    /\ UNCHANGED <<vers, writes, closeNotifySent, peerVars, readVars>>

WriteFragment(ok) ==
    /\ outLock = "writer" /\ writing > 0 /\ ~panicked
    /\ WriteRecordLocked(Data(writes, writing), ok)
    /\ out' = IncSeq(out)
    /\ writing' = IF ok THEN writing - 1 ELSE 0
    /\ outErr' = IF ok THEN outErr ELSE "write"
    /\ outLock' = IF writing' = 0 THEN "free" ELSE outLock
    /\ UNCHANGED <<vers, writes, closeNotifySent, peerVars, readVars>>

\* closeNotify does not look at c.out.err.
CloseNotify(ok) ==
    /\ outLock = "free" /\ ~closeNotifySent /\ ~panicked
    /\ WriteRecordLocked(Alert("close_notify"), ok)
    /\ out' = IncSeq(out)
    /\ closeNotifySent' = TRUE
    /\ UNCHANGED <<vers, outErr, outLock, writing, writes, peerVars, readVars>>

-----------------------------------------------------------------------------
(* Read.                                                                   *)

\* Whether a Read has something to return or to do before the next record.
Idle == inErr = "nil" /\ reader = "read" /\ hand = NoMessage /\ input = << >> /\ ~panicked

\* The next record of the input, after decrypt: a ChangeCipherSpec is not protected.
NextRecord == peerWire[seen + 1]
Incoming == Idle /\ seen < Len(peerWire)
Opens == NextRecord.pos = in

\* What a Read returns when it ends now.
Return(data) == got' = got \o data

\* A faulty variant: data copied before the error is lost.
FailsEmpty(e) == inErr' = e /\ Return(<< >>) /\ held' = << >>

Fails(e) == inErr' = e /\ Return(held) /\ held' = << >>

\* decrypt of a record that authenticates.
Decrypt == seen' = seen + 1 /\ in' = IncSeq(in) /\ taken' = Append(taken, NextRecord.body)

\* retryReadRecord.
Retry ==
    /\ retryCount' = retryCount + 1
    /\ reader' = IF retryCount' > maxUselessRecords THEN "alert" ELSE reader
    /\ UNCHANGED <<inErr, held, got>>

\* A record that does not authenticate, or whose sequence number is the last.
BadRecord ==
    /\ Incoming /\ NextRecord.body # Ccs
    /\ \/ ~Opens /\ reader' = "alert" /\ UNCHANGED panicked
       \/ Opens /\ Wraps(in) /\ panicked' = TRUE /\ UNCHANGED reader
    /\ UNCHANGED <<vers, outVars, outLock, writerVars, peerVars, in, inErr, taken, seen, hand,
                   retryCount, input, held, got>>

\* An ignored ChangeCipherSpec, or an empty record.
ReadCcs ==
    /\ Incoming /\ NextRecord.body = Ccs
    /\ seen' = seen + 1
    /\ Retry
    /\ UNCHANGED <<vers, outVars, outLock, writerVars, peerVars, in, taken, hand, input, panicked>>

ReadEmpty ==
    /\ Incoming /\ NextRecord.body = Empty /\ Opens /\ ~Wraps(in)
    /\ Decrypt
    /\ Retry
    /\ UNCHANGED <<vers, outVars, outLock, writerVars, peerVars, hand, input, panicked>>

\* Warnings other than close_notify are ignored before TLS 1.3.
ReadAlert ==
    /\ Incoming /\ NextRecord.body[1] \in Alerts /\ Opens /\ ~Wraps(in)
    /\ Decrypt
    /\ CASE NextRecord.body[1] = "close_notify" -> Fails("EOF") /\ UNCHANGED <<reader, retryCount>>
         [] NextRecord.body[1] = "warning" /\ vers = "1.2" -> Retry
         [] OTHER -> Fails("remote") /\ UNCHANGED <<reader, retryCount>>
    /\ UNCHANGED <<vers, outVars, outLock, writerVars, peerVars, hand, input, panicked>>

ReadHandshake ==
    /\ Incoming /\ NextRecord.body[1] = "handshake" /\ Opens /\ ~Wraps(in)
    /\ Decrypt
    /\ retryCount' = 0
    /\ hand' = [tickets |-> NextRecord.body[2], update |-> NextRecord.body[3]]
    /\ UNCHANGED <<vers, outVars, outLock, writerVars, peerVars, inErr, reader, input, held, got,
                   panicked>>

ReadData ==
    /\ Incoming /\ NextRecord.body[1] = "data" /\ Opens /\ ~Wraps(in)
    /\ Decrypt
    /\ retryCount' = 0
    /\ input' = <<NextRecord.body>>
    /\ UNCHANGED <<vers, outVars, outLock, writerVars, peerVars, inErr, hand, reader, held, got,
                   panicked>>

\* The input is copied to the caller's buffer.  If an alert is next in rawInput (it
\* shows as one only before TLS 1.3, and only if it has arrived), Read goes on with
\* readRecord before it returns; otherwise it returns.
AlertWaits ==
    vers = "1.2" /\ seen < Len(peerWire) /\ NextRecord.body[1] \in Alerts

TakeInput(waits) ==
    /\ input # << >> /\ ~panicked
    /\ waits => AlertWaits /\ held = << >>
    /\ IF held # << >>
       THEN Return(held) /\ held' = << >> /\ UNCHANGED input
       ELSE /\ input' = << >>
            /\ IF waits THEN held' = input /\ UNCHANGED got ELSE Return(input) /\ UNCHANGED held
    /\ UNCHANGED <<vers, outVars, outLock, writerVars, peerVars, in, inErr, taken, seen, hand,
                   reader, retryCount, panicked>>

\* The connection ends without close_notify.
ReadEOF ==
    /\ Idle
    /\ Fails("EOF early")
    /\ UNCHANGED <<vers, outVars, outLock, writerVars, peerVars, in, taken, seen, hand, reader,
                   retryCount, input, panicked>>

-----------------------------------------------------------------------------
(* handlePostHandshakeMessage, and what needs c.out.                       *)

\* A faulty variant: the reading secret advances only when no reply is due.
HandleMessageLate ==
    /\ hand # NoMessage /\ reader = "read" /\ inErr = "nil" /\ ~panicked
    /\ retryCount' = retryCount + 1
    /\ IF hand.tickets > 0
       THEN hand' = [hand EXCEPT !.tickets = @ - 1] /\ UNCHANGED in
       ELSE /\ hand' = NoMessage
            /\ in' = IF hand.update = "update" /\ retryCount' <= maxUselessRecords THEN SetTrafficSecret(in) ELSE in
    /\ reader' = IF retryCount' > maxUselessRecords THEN "alert"
                 ELSE IF hand.tickets = 0 /\ hand.update = "update_requested" THEN "reply"
                 ELSE reader
    /\ UNCHANGED <<vers, outVars, outLock, writerVars, peerVars, inErr, taken, seen, input, held,
                   got, panicked>>

HandleMessage ==
    /\ hand # NoMessage /\ reader = "read" /\ inErr = "nil" /\ ~panicked
    /\ retryCount' = retryCount + 1
    /\ IF hand.tickets > 0
       THEN hand' = [hand EXCEPT !.tickets = @ - 1] /\ UNCHANGED in
       ELSE /\ hand' = NoMessage
            /\ in' = IF retryCount' > maxUselessRecords THEN in ELSE SetTrafficSecret(in)
    /\ reader' = IF retryCount' > maxUselessRecords THEN "alert"
                 ELSE IF hand.tickets = 0 /\ hand.update = "update_requested" THEN "reply"
                 ELSE reader
    /\ UNCHANGED <<vers, outVars, outLock, writerVars, peerVars, inErr, taken, seen, input, held,
                   got, panicked>>

\* The reply of handleKeyUpdate.  A failed write is kept for the next Write, and the
\* secret stays.  A faulty variant: the secret advances nevertheless.
ReplyAdvances(ok) ==
    /\ reader = "reply" /\ outLock = "free" /\ ~panicked
    /\ WriteRecordLocked(Handshake(0, "update"), ok)
    /\ out' = SetTrafficSecret(out)
    /\ outErr' = IF ok THEN outErr ELSE "write"
    /\ reader' = "read"
    /\ UNCHANGED <<vers, outLock, writerVars, peerVars, in, inErr, taken, seen, hand, retryCount,
                   input, held, got>>

Reply(ok) ==
    /\ reader = "reply" /\ outLock = "free" /\ ~panicked
    /\ WriteRecordLocked(Handshake(0, "update"), ok)
    /\ out' = IF ok /\ ~Wraps(out) THEN SetTrafficSecret(out) ELSE IncSeq(out)
    /\ outErr' = IF ok THEN outErr ELSE "write"
    /\ reader' = "read"
    /\ UNCHANGED <<vers, outLock, writerVars, peerVars, in, inErr, taken, seen, hand, retryCount,
                   input, held, got>>

\* sendAlert, after which the Read fails.
SendAlert(ok) ==
    /\ reader = "alert" /\ outLock = "free" /\ ~panicked
    /\ WriteRecordLocked(Alert("fatal"), ok)
    /\ out' = IncSeq(out)
    /\ outErr' = "alert"
    /\ reader' = "read"
    /\ Fails("local")
    /\ UNCHANGED <<vers, outLock, writerVars, peerVars, in, taken, seen, hand, retryCount, input>>

-----------------------------------------------------------------------------
(* The peer: external.                                                     *)

PeerBodies ==
    {Data(Len(peerWire) + 1, 1), Empty, Alert("close_notify"), Alert("fatal")}
    \cup IF vers = "1.2" THEN {Alert("warning")} ELSE HandshakeBodies

PeerEnded ==
    peerWire # << >> /\ peerWire[Len(peerWire)].body \in {Alert("close_notify"), Alert("fatal")}

PeerReady == Len(peerWire) < MaxPeer /\ ~PeerEnded /\ ~panicked

\* It may use the last sequence number of a secret.
PeerSends(b) ==
    LET r == [pos |-> peerOut, body |-> b, sent |-> TRUE] IN
    /\ PeerReady /\ peerOut.seq <= MaxSeq
    /\ peerSealed' = Append(peerSealed, r) /\ peerWire' = Append(peerWire, r)
    /\ peerOut' = IF Rekeys(b) THEN SetTrafficSecret(peerOut) ELSE [peerOut EXCEPT !.seq = @ + 1]
    /\ UNCHANGED <<vers, outVars, outLock, writerVars, peerIn, peerTaken, peerErr, read, readVars,
                   panicked>>

PeerSendsCcs ==
    /\ PeerReady /\ vers = "1.3"
    /\ peerWire' = Append(peerWire, [pos |-> peerOut, body |-> Ccs, sent |-> TRUE])
    /\ UNCHANGED <<vers, outVars, outLock, writerVars, peerIn, peerTaken, peerErr, read, peerOut,
                   peerSealed, readVars, panicked>>

\* It reads on until a record does not authenticate.
PeerReads ==
    /\ read < Len(wire) /\ ~peerErr /\ ~panicked
    /\ read' = read + 1
    /\ IF wire[read'].pos = peerIn
       THEN /\ peerTaken' = Append(peerTaken, wire[read'].body)
            /\ peerIn' = IF Rekeys(wire[read'].body) THEN SetTrafficSecret(peerIn) ELSE IncSeq(peerIn)
            /\ UNCHANGED peerErr
       ELSE peerErr' = TRUE /\ UNCHANGED <<peerIn, peerTaken>>
    /\ UNCHANGED <<vers, outVars, outLock, writerVars, peerOut, peerSealed, peerWire, readVars, panicked>>

-----------------------------------------------------------------------------

WriterStep == \E ok \in BOOLEAN : WriteFragment(ok)

ReaderStep ==
    \/ BadRecord \/ ReadCcs \/ ReadEmpty \/ ReadAlert \/ ReadHandshake \/ ReadData
    \/ (\E waits \in BOOLEAN : TakeInput(waits))
    \/ HandleMessage
    \/ (\E ok \in BOOLEAN : Reply(ok) \/ SendAlert(ok))

Next ==
    \/ WriteCall \/ WriterStep \/ (\E ok \in BOOLEAN : CloseNotify(ok))
    \/ ReaderStep \/ ReadEOF
    \/ (\E b \in PeerBodies : PeerSends(b)) \/ PeerSendsCcs \/ PeerReads

Spec == Init /\ [][Next]_vars

\* A Write in progress and a Read go on; Reads are called again and again.
FairSpec == Spec /\ WF_vars(WriterStep) /\ WF_vars(ReaderStep)

-----------------------------------------------------------------------------
(* Properties.                                                             *)

\* A key update in c.hand counts from the record on that carried it, and a secret
\* whose sequence number has wrapped is used up.
Pending(p) == IF taken # << >> /\ Rekeys(taken[Len(taken)]) /\ p.seq # 0 THEN SetTrafficSecret(p) ELSE p
Spent(p) == IF sealed # << >> /\ sealed[Len(sealed)].pos = [epoch |-> p.epoch, seq |-> MaxSeq]
            THEN [epoch |-> p.epoch, seq |-> MaxSeq + 1] ELSE p

OutStream == INSTANCE RecordStream WITH
    Bodies <- Bodies, Rekeys <- Rekeys, MaxSeq <- MaxSeq,
    next <- Spent(out), sealed <- sealed, expect <- peerIn, taken <- peerTaken
InStream == INSTANCE RecordStream WITH
    Bodies <- Bodies, Rekeys <- Rekeys, MaxSeq <- MaxSeq,
    next <- peerOut, sealed <- peerSealed, expect <- Pending(in), taken <- taken

\* Each direction is such a stream: although the goroutine that reads changes the
\* secret of those that write, and writes fail, each record is protected under the
\* secret and the number its reader will use, or is never accepted.
ImplementsStreams == OutStream!StreamSpec /\ InStream!StreamSpec

\* The consequence: each side accepts a prefix of what the other protected, and no
\* number is used twice under one secret.
StreamsIntact == OutStream!StreamInv /\ InStream!StreamInv

\* d is the data among s, in its order.
IsData(b) == b[1] = "data"
DataOf(d, s) ==
    \E at \in [DOMAIN d -> DOMAIN s] :
        /\ \A k, l \in DOMAIN d : k < l => at[k] < at[l]
        /\ \A k \in DOMAIN d : d[k] = s[at[k]]
        /\ \A i \in DOMAIN s : IsData(s[i]) <=> \E k \in DOMAIN d : at[k] = i

\* What the callers of Read have got, and what is on its way to them, is the data
\* accepted, in order; and an EOF after close_notify means all the peer sent.
ReadInOrder ==
    /\ DataOf(got \o held \o input, taken)
    /\ inErr = "EOF" => DataOf(got, [i \in DOMAIN peerWire |-> peerWire[i].body])

\* Key updates never make the two sides disagree: this side always reads what the
\* peer sends, and the peer always reads what this side writes unless a write failed.
DisagreeOnlyAfterLoss ==
    /\ Incoming /\ NextRecord.body # Ccs => Opens
    /\ peerErr => \E i \in DOMAIN sealed : ~sealed[i].sent

\* A Read that met a request to update is not stuck with it: the reply is protected
\* under the old secret, whatever Writes are under way.
UpdatesAnswered == reader = "reply" ~> (reader = "read" \/ panicked)

\* "maximum number of consecutive non-advancing records": Read goes on over no more
\* records than that without data for its caller.
UselessBound ==
    inErr = "nil" /\ reader = "read" /\ hand = NoMessage =>
        \A i \in 1..seen : i + maxUselessRecords <= seen =>
            \E j \in i..(i + maxUselessRecords) : j <= seen /\ IsData(peerWire[j].body)

\* "Read conventionally returns what is available instead of waiting for more": data
\* copied to the caller's buffer is returned without another record having to come.
DataReturned == held # << >> ~> (held = << >> \/ panicked)
=============================================================================
