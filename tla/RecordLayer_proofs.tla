------------------------- MODULE RecordLayer_proofs -------------------------
(* RecordLayer implements RecordStream in both directions, its two sides   *)
(* disagree only after a loss, and Read returns data in order: for all     *)
(* bounds.                                                                 *)
EXTENDS RecordLayer, TLAPS

Position == [epoch : Nat, seq : 0..MaxSeq]
StreamPosition == [epoch : Nat, seq : 0..(MaxSeq + 1)]
Record == [pos : StreamPosition, body : Bodies, sent : BOOLEAN]
WireRecord == [pos : Position, body : Bodies]
PeerRecord == [pos : StreamPosition, body : Bodies \cup {Ccs}, sent : {TRUE}]

\* c.out, Write and the peer's receiving side.
OutTypeOK ==
    /\ out \in Position /\ peerIn \in Position
    /\ sealed \in Seq(Record)
    /\ wire \in Seq(WireRecord)
    /\ read \in Nat

WriteTypeOK ==
    /\ writes \in 0..MaxWrites /\ writing \in 0..MaxFragments
    /\ outLock = "writer" => writes # 0

\* What is on the wire was protected, and not under the last sequence number.
WireSealed ==
    \A k \in DOMAIN wire :
        /\ wire[k].pos.seq # MaxSeq
        /\ \E i \in DOMAIN sealed :
             sealed[i].sent /\ sealed[i].pos = wire[k].pos /\ sealed[i].body = wire[k].body

\* c.out is past the last record unless it has wrapped.
OutAhead ==
    ~panicked /\ sealed # << >> =>
        LET p == sealed[Len(sealed)].pos IN
        p.epoch < out.epoch \/ (p.epoch = out.epoch /\ p.seq < out.seq)

OutInv == OutTypeOK /\ WriteTypeOK /\ WireSealed /\ OutAhead

\* c.in and the peer's sending side.
InTypeOK ==
    /\ in \in Position
    /\ peerSealed \in Seq(Record)
    /\ peerWire \in Seq(PeerRecord)
    /\ peerOut \in StreamPosition
    /\ taken \in Seq(Bodies)
    /\ seen \in Nat
    /\ hand \in [tickets : 0..MaxTickets, update : Updates \cup {"none"}]

PeerWireSealed ==
    \A k \in DOMAIN peerWire : peerWire[k].body # Ccs =>
        \E i \in DOMAIN peerSealed : peerSealed[i] = peerWire[k]

\* A key update waits in c.hand only after the record that carried it, and once it is
\* handled c.in is where the peer is.
UpdateWaits == taken # << >> /\ Rekeys(taken[Len(taken)]) /\ in.seq # 0

HandAgrees ==
    /\ hand.update # "none" => UpdateWaits /\ hand.tickets = 0
    /\ inErr = "nil" /\ reader # "alert" /\ hand.update = "none" => ~UpdateWaits

InInv == InTypeOK /\ PeerWireSealed /\ HandAgrees

\* The inductive invariant.
LayerInv == OutInv /\ InInv

-----------------------------------------------------------------------------

\* What Append does.
LEMMA AppendFacts ==
  ASSUME NEW S, NEW s \in Seq(S), NEW e \in S
  PROVE  /\ Append(s, e) \in Seq(S) /\ Append(s, e) # << >>
         /\ Len(s) \in Nat /\ Len(Append(s, e)) = Len(s) + 1
         /\ Append(s, e)[Len(s) + 1] = e
         /\ \A i \in 1..Len(s) : Append(s, e)[i] = s[i] /\ s[i] \in S
         /\ DOMAIN s = 1..Len(s) /\ DOMAIN Append(s, e) = 1..(Len(s) + 1)
OBVIOUS

\* Where the elements of an extended sequence come from.
LEMMA AppendCases ==
  ASSUME NEW S, NEW s \in Seq(S), NEW e \in S, NEW t, t = Append(s, e)
  PROVE  /\ t \in Seq(S)
         /\ \A k \in DOMAIN t : t[k] = e \/ (k \in DOMAIN s /\ t[k] = s[k])
BY AppendFacts

\* What records carry.
LEMMA BodyFacts ==
  /\ Ccs \notin Bodies
  /\ Empty \in Bodies /\ \A a \in Alerts : Alert(a) \in Bodies
  /\ \A b \in HandshakeBodies : b \in Bodies
  /\ \A i \in 1..(MaxWrites + MaxPeer), j \in 1..MaxFragments : Data(i, j) \in Bodies
  /\ \A b \in Bodies : b[1] = "handshake" =>
       /\ b[2] \in 0..MaxTickets /\ b[3] \in Updates \cup {"none"}
       /\ b[3] # "none" => b[2] = 0
<1> USE BoundsAssumption
<1>1. Ccs \notin Bodies
  BY DEF Bodies, HandshakeBodies, Ccs, Data, Empty, Alert, Alerts, Handshake
<1>2. /\ Empty \in Bodies /\ \A a \in Alerts : Alert(a) \in Bodies
      /\ \A b \in HandshakeBodies : b \in Bodies
      /\ \A i \in 1..(MaxWrites + MaxPeer), j \in 1..MaxFragments : Data(i, j) \in Bodies
  BY DEF Bodies
<1>3. ASSUME NEW b \in Bodies, b[1] = "handshake"
      PROVE  /\ b[2] \in 0..MaxTickets /\ b[3] \in Updates \cup {"none"}
             /\ b[3] # "none" => b[2] = 0
  <2>1. b \in HandshakeBodies
    BY <1>3 DEF Bodies, Data, Empty, Alert, Alerts
  <2> QED
    BY <2>1 DEF HandshakeBodies, Handshake, Updates
<1> QED
  BY <1>1, <1>2, <1>3

\* How positions move.
LEMMA PositionFacts ==
  ASSUME NEW p \in Position
  PROVE  /\ SetTrafficSecret(p) \in Position
         /\ IncSeq(p) \in Position
         /\ ~Wraps(p) => IncSeq(p) = [epoch |-> p.epoch, seq |-> p.seq + 1]
         /\ Wraps(p) => IncSeq(p) = [epoch |-> p.epoch, seq |-> 0]
BY BoundsAssumption DEF Position, SetTrafficSecret, IncSeq, Wraps

\* writeRecordLocked, with the change of secret that a key update brings, protects one
\* record of the outgoing stream.
LEMMA WriteSeals ==
  ASSUME OutTypeOK, WireSealed, OutAhead, ~panicked, NEW b \in Bodies, NEW ok \in BOOLEAN,
         WriteRecordLocked(b, ok),
         out' = IF ok /\ ~Wraps(out) /\ Rekeys(b) THEN SetTrafficSecret(out) ELSE IncSeq(out),
         UNCHANGED <<peerIn, peerTaken, read>>
  PROVE  OutStream!StreamNext /\ OutTypeOK' /\ WireSealed' /\ OutAhead'
<1> DEFINE snt == ok /\ ~Wraps(out)
           rec == [pos |-> out, body |-> b, sent |-> snt]
           onWire == [pos |-> out, body |-> b]
<1>1. out \in Position /\ out' \in Position
  BY PositionFacts DEF OutTypeOK
<1>2. snt \in BOOLEAN /\ rec \in Record /\ onWire \in WireRecord
  BY <1>1, BoundsAssumption DEF Record, Position, StreamPosition, WireRecord
<1>3. /\ sealed' = Append(sealed, rec)
      /\ wire' = IF snt THEN Append(wire, onWire) ELSE wire
      /\ panicked' = Wraps(out)
  BY DEF WriteRecordLocked
<1>4. /\ rec.pos = out /\ rec.body = b /\ rec.sent = snt
      /\ onWire.pos = out /\ onWire.body = b /\ (snt => onWire.pos.seq # MaxSeq)
  BY DEF Wraps
<1>5. snt \/ ~snt
  BY <1>2
<1> HIDE DEF rec, onWire, snt
<1> DEFINE n == Len(sealed)
<1>6. /\ n \in Nat /\ sealed' \in Seq(Record) /\ sealed' # << >>
      /\ Len(sealed') = n + 1 /\ sealed'[n + 1] = rec
      /\ DOMAIN sealed = 1..n /\ DOMAIN sealed' = 1..(n + 1)
      /\ \A i \in 1..n : sealed'[i] = sealed[i]
  BY <1>2, <1>3, AppendFacts DEF OutTypeOK
<1> HIDE DEF n
<1>7. OutTypeOK'
  <2>1. wire' \in Seq(WireRecord)
    BY <1>2, <1>3, AppendFacts DEF OutTypeOK
  <2> QED
    BY <1>1, <1>6, <2>1 DEF OutTypeOK
<1>8. WireSealed'
  <2> SUFFICES ASSUME NEW k \in DOMAIN wire'
               PROVE  /\ wire'[k].pos.seq # MaxSeq
                      /\ \E i \in DOMAIN sealed' :
                           /\ sealed'[i].sent /\ sealed'[i].pos = wire'[k].pos
                           /\ sealed'[i].body = wire'[k].body
    BY DEF WireSealed
  <2>1. CASE k \in DOMAIN wire /\ wire'[k] = wire[k]
    <3>1. PICK i \in DOMAIN sealed :
            sealed[i].sent /\ sealed[i].pos = wire[k].pos /\ sealed[i].body = wire[k].body
      BY <2>1 DEF WireSealed
    <3>2. i \in DOMAIN sealed' /\ sealed'[i] = sealed[i]
      BY <1>6
    <3> QED
      BY <2>1, <3>1, <3>2 DEF WireSealed
  <2>2. CASE snt /\ wire'[k] = onWire
    <3>1. n + 1 \in DOMAIN sealed' /\ sealed'[n + 1] = rec
      BY <1>6
    <3> QED
      BY <1>4, <2>2, <3>1, Zenon
  <2>3. \/ k \in DOMAIN wire /\ wire'[k] = wire[k]
        \/ snt /\ wire'[k] = onWire
    <3>1. CASE ~snt
      BY <1>3, <3>1
    <3>2. CASE snt
      BY <1>2, <1>3, <3>2, AppendFacts DEF OutTypeOK
    <3> QED
      BY <3>1, <3>2
  <2> QED
    BY <2>1, <2>2, <2>3
<1>9. OutAhead'
  <2>1. sealed'[Len(sealed')].pos = out
    BY <1>4, <1>6
  <2>2. out.epoch \in Nat /\ out.seq \in 0..MaxSeq /\ MaxSeq \in Nat
    BY <1>1, BoundsAssumption DEF Position
  <2>3. ~Wraps(out) => out.epoch < out'.epoch \/ (out.epoch = out'.epoch /\ out.seq < out'.seq)
    BY <1>1, <2>2, PositionFacts DEF SetTrafficSecret
  <2> QED
    BY <1>3, <2>1, <2>3 DEF OutAhead
<1>10. Spent(out) = out
  <2>1. CASE sealed = << >>
    BY <2>1 DEF Spent
  <2>2. CASE sealed # << >>
    <3>1. out.epoch \in Nat /\ out.seq \in 0..MaxSeq /\ MaxSeq \in Nat
      BY <1>1, BoundsAssumption DEF Position
    <3>2. sealed[Len(sealed)].pos # [epoch |-> out.epoch, seq |-> MaxSeq]
      BY <2>2, <3>1 DEF OutAhead
    <3> QED
      BY <3>2 DEF Spent
  <2> QED
    BY <2>1, <2>2
<1>11. Spent(out)' = IF snt THEN OutStream!After(out, b) ELSE OutStream!IncSeq(out)
  <2>1. sealed'[Len(sealed')].pos = out
    BY <1>4, <1>6
  <2>2. Spent(out)' = IF out = [epoch |-> out'.epoch, seq |-> MaxSeq]
                      THEN [epoch |-> out'.epoch, seq |-> MaxSeq + 1] ELSE out'
    BY <1>6, <2>1 DEF Spent
  <2>3. out = [epoch |-> out.epoch, seq |-> out.seq] /\ out.epoch \in Nat /\ out.seq \in 0..MaxSeq
    BY <1>1 DEF Position
  <2>4. OutStream!IncSeq(out) = [epoch |-> out.epoch, seq |-> out.seq + 1]
    BY <2>3 DEF OutStream!IncSeq
  <2>5. CASE Wraps(out)
    BY <1>1, <2>2, <2>3, <2>4, <2>5, PositionFacts DEF Wraps, snt
  <2>6. CASE ~Wraps(out) /\ snt /\ Rekeys(b)
    BY <2>2, <2>3, <2>6 DEF snt, SetTrafficSecret, OutStream!After, OutStream!NextSecret, Wraps
  <2>7. CASE ~Wraps(out) /\ ~(snt /\ Rekeys(b))
    BY <1>1, <2>2, <2>3, <2>4, <2>7, PositionFacts DEF snt, OutStream!After, Wraps
  <2> QED
    BY <2>5, <2>6, <2>7
<1>12. OutStream!Seal(b, snt)
  <2>1. out.seq <= MaxSeq
    BY <1>1, BoundsAssumption DEF Position
  <2> QED
    BY <1>3, <1>10, <1>11, <2>1 DEF OutStream!Seal, rec
<1> QED
  BY <1>2, <1>7, <1>8, <1>9, <1>12 DEF OutStream!StreamNext

\* The peer accepts records of the outgoing stream only.
LEMMA PeerTakes ==
  ASSUME OutTypeOK, WireSealed, OutAhead, PeerReads
  PROVE  /\ OutStream!StreamNext \/ UNCHANGED OutStream!streamVars
         /\ OutTypeOK' /\ WireSealed' /\ OutAhead'
<1> DEFINE r == wire[read + 1]
<1>1. /\ read + 1 \in DOMAIN wire /\ r.pos \in Position /\ r.body \in Bodies
      /\ read' = read + 1 /\ UNCHANGED <<out, sealed, wire, panicked>>
      /\ peerIn \in Position
  <2>1. read + 1 \in DOMAIN wire /\ r \in WireRecord
    BY DEF PeerReads, OutTypeOK
  <2> QED
    BY <2>1 DEF PeerReads, OutTypeOK, outVars, WireRecord
<1>2. WireSealed' /\ OutAhead'
  BY <1>1 DEF WireSealed, OutAhead
<1>3. CASE r.pos # peerIn
  <2>1. UNCHANGED <<peerIn, peerTaken>>
    BY <1>1, <1>3 DEF PeerReads
  <2> QED
    BY <1>1, <1>2, <2>1 DEF OutTypeOK, OutStream!streamVars, Spent
<1>4. CASE r.pos = peerIn
  <2>1. /\ peerTaken' = Append(peerTaken, r.body)
        /\ peerIn' = IF Rekeys(r.body) THEN SetTrafficSecret(peerIn) ELSE IncSeq(peerIn)
    BY <1>1, <1>4 DEF PeerReads
  <2>2. PICK i \in DOMAIN sealed :
          sealed[i].sent /\ sealed[i].pos = r.pos /\ sealed[i].body = r.body
    BY <1>1 DEF WireSealed
  <2>3. /\ peerIn = [epoch |-> peerIn.epoch, seq |-> peerIn.seq] /\ peerIn.epoch \in Nat
        /\ peerIn.seq \in 0..MaxSeq /\ peerIn.seq # MaxSeq
    BY <1>1, <1>4 DEF Position, WireSealed
  <2>4. peerIn' = OutStream!After(peerIn, sealed[i].body)
    <3>1. CASE Rekeys(r.body)
      BY <2>1, <2>2, <3>1 DEF SetTrafficSecret, OutStream!After, OutStream!NextSecret
    <3>2. CASE ~Rekeys(r.body)
      <4>1. peerIn' = [epoch |-> peerIn.epoch, seq |-> peerIn.seq + 1]
        BY <1>1, <2>1, <2>3, <3>2, PositionFacts DEF Wraps
      <4>2. OutStream!IncSeq(peerIn) = [epoch |-> peerIn.epoch, seq |-> peerIn.seq + 1]
        BY <2>3 DEF OutStream!IncSeq
      <4> QED
        BY <2>2, <3>2, <4>1, <4>2 DEF OutStream!After
    <3> QED
      BY <3>1, <3>2
  <2>5. OutStream!Take(i)
    <3>1. peerIn.seq <= MaxSeq /\ UNCHANGED <<Spent(out), sealed>>
      BY <1>1, <2>3, BoundsAssumption DEF Spent
    <3> QED
      BY <1>4, <2>1, <2>2, <2>4, <3>1 DEF OutStream!Take
  <2>6. OutTypeOK'
    BY <1>1, <2>1, PositionFacts DEF OutTypeOK
  <2> QED
    BY <1>2, <2>2, <2>5, <2>6 DEF OutStream!StreamNext
<1> QED
  BY <1>3, <1>4

\* Steps that do not write leave the outgoing stream alone.
LEMMA OutIdle ==
  ASSUME OutTypeOK, WireSealed, OutAhead, UNCHANGED <<out, sealed, wire, peerIn, peerTaken, read>>,
         panicked => panicked'
  PROVE  UNCHANGED OutStream!streamVars /\ OutTypeOK' /\ WireSealed' /\ OutAhead'
BY DEF OutTypeOK, WireSealed, OutAhead, OutStream!streamVars, Spent

\* decrypt accepts a record of the incoming stream.
LEMMA DecryptTakes ==
  ASSUME InInv, Incoming, NextRecord.body # Ccs, Opens, ~Wraps(in), Decrypt,
         UNCHANGED <<peerOut, peerSealed, peerWire>>
  PROVE  /\ InStream!StreamNext
         /\ NextRecord.body \in Bodies
         /\ in' \in Position /\ in'.seq # 0
         /\ taken' \in Seq(Bodies) /\ taken' # << >> /\ taken'[Len(taken')] = NextRecord.body
         /\ seen' \in Nat /\ PeerWireSealed'
<1> DEFINE r == NextRecord
<1>1. /\ r = peerWire[seen + 1] /\ seen + 1 \in DOMAIN peerWire
      /\ r \in PeerRecord
      /\ in \in Position /\ r.pos = in
  BY DEF NextRecord, Incoming, InInv, InTypeOK, Opens
<1>2. r.body \in Bodies /\ r.sent
  BY <1>1, Zenon DEF PeerRecord
<1>3. PICK i \in DOMAIN peerSealed : peerSealed[i] = r
  BY <1>1 DEF InInv, PeerWireSealed
<1>4. Pending(in) = in
  <2>1. ~UpdateWaits
    BY DEF InInv, HandAgrees, Incoming, Idle, NoMessage
  <2> QED
    BY <2>1 DEF UpdateWaits, Pending
<1>5. /\ in' = [epoch |-> in.epoch, seq |-> in.seq + 1] /\ in' \in Position
      /\ in = [epoch |-> in.epoch, seq |-> in.seq] /\ in.epoch \in Nat /\ in.seq \in 0..MaxSeq
  BY <1>1, PositionFacts DEF Decrypt, Position
<1>6. /\ taken' = Append(taken, r.body)
      /\ taken' \in Seq(Bodies) /\ taken' # << >> /\ taken'[Len(taken')] = r.body
  BY <1>2, AppendFacts DEF Decrypt, InInv, InTypeOK
<1>7. Pending(in)' = InStream!After(in, r.body)
  <2>1. Pending(in)' = IF Rekeys(r.body) /\ in'.seq # 0 THEN SetTrafficSecret(in') ELSE in'
    BY <1>6 DEF Pending
  <2>2. in'.seq # 0 /\ in'.epoch = in.epoch
    BY <1>5, BoundsAssumption
  <2>3. InStream!IncSeq(in) = in'
    BY <1>5 DEF InStream!IncSeq
  <2> QED
    BY <2>1, <2>2, <2>3 DEF InStream!After, InStream!NextSecret, SetTrafficSecret
<1>8. InStream!Take(i)
  <2>1. in.seq <= MaxSeq /\ UNCHANGED <<peerOut, peerSealed>>
    BY <1>5, BoundsAssumption
  <2> QED
    BY <1>1, <1>2, <1>3, <1>4, <1>6, <1>7, <2>1 DEF InStream!Take
<1>9. InStream!StreamNext
  BY <1>3, <1>8 DEF InStream!StreamNext
<1>10. seen' \in Nat /\ PeerWireSealed' /\ in'.seq # 0
  <2>1. seen' \in Nat
    BY DEF Decrypt, InInv, InTypeOK
  <2>2. PeerWireSealed'
    BY DEF InInv, PeerWireSealed
  <2>3. in'.seq # 0
    BY <1>5, BoundsAssumption
  <2> QED
    BY <2>1, <2>2, <2>3
<1> QED
  BY <1>2, <1>5, <1>6, <1>9, <1>10

\* Steps that accept nothing, and handle no message, leave the incoming stream alone.
LEMMA InIdle ==
  ASSUME InInv, UNCHANGED <<in, peerSealed, peerWire, peerOut, taken, hand>>, seen' \in Nat,
         inErr' = "nil" /\ reader' # "alert" => inErr = "nil" /\ reader # "alert"
  PROVE  UNCHANGED InStream!streamVars /\ InInv'
<1>1. UNCHANGED InStream!streamVars
  BY DEF InStream!streamVars, Pending
<1>2. InTypeOK' /\ PeerWireSealed'
  <2>1. InTypeOK'
    BY DEF InInv, InTypeOK
  <2>2. PeerWireSealed'
    BY DEF InInv, PeerWireSealed
  <2> QED
    BY <2>1, <2>2
<1>3. HandAgrees'
  BY DEF InInv, HandAgrees, UpdateWaits
<1> QED
  BY <1>1, <1>2, <1>3 DEF InInv

\* What the peer sends.
LEMMA PeerBodiesAre ==
  ASSUME InInv, PeerReady, NEW b \in PeerBodies
  PROVE  b \in Bodies
<1>1. Len(peerWire) + 1 \in 1..(MaxWrites + MaxPeer) /\ 1 \in 1..MaxFragments
  <2>1. Len(peerWire) \in Nat /\ Len(peerWire) < MaxPeer
    BY DEF PeerReady, InInv, InTypeOK
  <2> QED
    BY <2>1, BoundsAssumption
<1> QED
  BY <1>1, BodyFacts DEF PeerBodies, Alerts

\* The peer protects records of the incoming stream.
LEMMA PeerSeals ==
  ASSUME InInv, NEW b \in PeerBodies, PeerSends(b)
  PROVE  InStream!StreamNext /\ InInv'
<1> DEFINE r == [pos |-> peerOut, body |-> b, sent |-> TRUE]
<1>1. b \in Bodies
  BY PeerBodiesAre DEF PeerSends
<1>2. /\ peerSealed' = Append(peerSealed, r) /\ peerWire' = Append(peerWire, r)
      /\ peerOut.seq <= MaxSeq /\ peerOut \in StreamPosition
      /\ UNCHANGED <<in, inErr, taken, seen, hand, reader>>
  BY DEF PeerSends, InInv, InTypeOK, readVars
<1>3. r \in Record /\ r \in PeerRecord
  BY <1>1, <1>2 DEF Record, PeerRecord
<1>4. /\ peerOut' = InStream!After(peerOut, b)
      /\ peerOut' \in StreamPosition
  <2>1. /\ peerOut = [epoch |-> peerOut.epoch, seq |-> peerOut.seq]
        /\ peerOut.epoch \in Nat /\ peerOut.seq \in 0..MaxSeq /\ MaxSeq \in Nat
    BY <1>2, BoundsAssumption DEF StreamPosition
  <2>2. peerOut' = IF Rekeys(b) THEN [epoch |-> peerOut.epoch + 1, seq |-> 0]
                   ELSE [epoch |-> peerOut.epoch, seq |-> peerOut.seq + 1]
    BY <2>1 DEF PeerSends, SetTrafficSecret
  <2>3. InStream!IncSeq(peerOut) = [epoch |-> peerOut.epoch, seq |-> peerOut.seq + 1]
    BY <2>1 DEF InStream!IncSeq
  <2>4. peerOut' = InStream!After(peerOut, b)
    BY <2>2, <2>3 DEF InStream!After, InStream!NextSecret
  <2>5. peerOut' \in StreamPosition
    BY <2>1, <2>2 DEF StreamPosition
  <2> QED
    BY <2>4, <2>5
<1>5. InStream!Seal(b, TRUE)
  BY <1>2, <1>4 DEF InStream!Seal, Pending
<1> HIDE DEF r
<1>6. InTypeOK'
  BY <1>2, <1>3, <1>4, AppendFacts DEF InInv, InTypeOK
<1>7. PeerWireSealed'
  <2> SUFFICES ASSUME NEW k \in DOMAIN peerWire', peerWire'[k].body # Ccs
               PROVE  \E i \in DOMAIN peerSealed' : peerSealed'[i] = peerWire'[k]
    BY DEF PeerWireSealed
  <2>1. /\ Len(peerSealed) + 1 \in DOMAIN peerSealed' /\ peerSealed'[Len(peerSealed) + 1] = r
        /\ \A i \in DOMAIN peerSealed : i \in DOMAIN peerSealed' /\ peerSealed'[i] = peerSealed[i]
    BY <1>2, <1>3, AppendFacts DEF InInv, InTypeOK
  <2>2. peerWire'[k] = r \/ (k \in DOMAIN peerWire /\ peerWire'[k] = peerWire[k])
    BY <1>2, <1>3, AppendFacts DEF InInv, InTypeOK
  <2> QED
    BY <2>1, <2>2 DEF InInv, PeerWireSealed
<1>8. HandAgrees'
  BY <1>2 DEF InInv, HandAgrees, UpdateWaits
<1> QED
  BY <1>1, <1>5, <1>6, <1>7, <1>8, Zenon DEF InStream!StreamNext, InInv

-----------------------------------------------------------------------------

\* What a step does to the two streams.
Simulated ==
    /\ OutStream!StreamNext \/ UNCHANGED OutStream!streamVars
    /\ InStream!StreamNext \/ UNCHANGED InStream!streamVars

\* The steps that write.
LEMMA WriteSteps ==
  ASSUME LayerInv, NEW ok \in BOOLEAN, WriteFragment(ok) \/ CloseNotify(ok) \/ Reply(ok) \/ SendAlert(ok)
  PROVE  LayerInv' /\ Simulated
<1>1. ASSUME NEW x \in Bodies, WriteRecordLocked(x, ok), ~panicked,
             out' = IF ok /\ ~Wraps(out) /\ Rekeys(x) THEN SetTrafficSecret(out) ELSE IncSeq(out),
             UNCHANGED <<peerIn, peerTaken, read>>
      PROVE  OutStream!StreamNext /\ OutTypeOK' /\ WireSealed' /\ OutAhead'
  BY <1>1, WriteSeals DEF LayerInv, OutInv
<1>2. ASSUME UNCHANGED <<in, peerSealed, peerWire, peerOut, taken, seen, hand>>,
             inErr' = "nil" /\ reader' # "alert" => inErr = "nil" /\ reader # "alert"
      PROVE  UNCHANGED InStream!streamVars /\ InInv'
  <2>1. seen' \in Nat
    BY <1>2 DEF LayerInv, InInv, InTypeOK
  <2> QED
    BY <1>2, <2>1, InIdle DEF LayerInv
<1>3. CASE WriteFragment(ok)
  <2>1. Data(writes, writing) \in Bodies /\ ~Rekeys(Data(writes, writing))
    <3>1. writes \in 1..(MaxWrites + MaxPeer) /\ writing \in 1..MaxFragments
      BY <1>3, BoundsAssumption DEF WriteFragment, LayerInv, OutInv, WriteTypeOK
    <3>2. Data(writes, writing)[1] = "data"
      BY DEF Data
    <3> QED
      BY <3>1, <3>2, BodyFacts DEF Rekeys
  <2>2. OutStream!StreamNext /\ OutTypeOK' /\ WireSealed' /\ OutAhead'
    BY <1>1, <1>3, <2>1 DEF WriteFragment, peerVars
  <2>3. WriteTypeOK'
    <3>1. writes \in 0..MaxWrites /\ writing \in 0..MaxFragments /\ writes # 0 /\ writing > 0
      BY <1>3 DEF WriteFragment, LayerInv, OutInv, WriteTypeOK
    <3>2. writes' = writes /\ writing' = IF ok THEN writing - 1 ELSE 0
      BY <1>3 DEF WriteFragment
    <3> QED
      BY <3>1, <3>2, BoundsAssumption DEF WriteTypeOK
  <2>4. UNCHANGED InStream!streamVars /\ InInv'
    BY <1>2, <1>3 DEF WriteFragment, peerVars, readVars
  <2> QED
    BY <2>2, <2>3, <2>4 DEF LayerInv, OutInv, Simulated
<1>4. CASE CloseNotify(ok)
  <2>1. Alert("close_notify") \in Bodies /\ ~Rekeys(Alert("close_notify"))
    BY BodyFacts DEF Alerts, Rekeys, Alert
  <2>2. OutStream!StreamNext /\ OutTypeOK' /\ WireSealed' /\ OutAhead'
    BY <1>1, <1>4, <2>1 DEF CloseNotify, peerVars
  <2>3. WriteTypeOK'
    BY <1>4 DEF CloseNotify, LayerInv, OutInv, WriteTypeOK
  <2>4. UNCHANGED InStream!streamVars /\ InInv'
    BY <1>2, <1>4 DEF CloseNotify, peerVars, readVars
  <2> QED
    BY <2>2, <2>3, <2>4 DEF LayerInv, OutInv, Simulated
<1>5. CASE Reply(ok)
  <2>1. Handshake(0, "update") \in Bodies /\ Rekeys(Handshake(0, "update"))
    BY BodyFacts DEF HandshakeBodies, Updates, Rekeys, Handshake
  <2>2. OutStream!StreamNext /\ OutTypeOK' /\ WireSealed' /\ OutAhead'
    BY <1>1, <1>5, <2>1 DEF Reply, peerVars
  <2>3. WriteTypeOK'
    BY <1>5 DEF Reply, LayerInv, OutInv, WriteTypeOK, writerVars
  <2>4. UNCHANGED InStream!streamVars /\ InInv'
    BY <1>2, <1>5 DEF Reply, peerVars
  <2> QED
    BY <2>2, <2>3, <2>4 DEF LayerInv, OutInv, Simulated
<1>6. CASE SendAlert(ok)
  <2>1. Alert("fatal") \in Bodies /\ ~Rekeys(Alert("fatal"))
    BY BodyFacts DEF Alerts, Rekeys, Alert
  <2>2. OutStream!StreamNext /\ OutTypeOK' /\ WireSealed' /\ OutAhead'
    BY <1>1, <1>6, <2>1 DEF SendAlert, peerVars
  <2>3. WriteTypeOK'
    BY <1>6 DEF SendAlert, LayerInv, OutInv, WriteTypeOK, writerVars
  <2>4. UNCHANGED InStream!streamVars /\ InInv'
    BY <1>2, <1>6 DEF SendAlert, peerVars, Fails
  <2> QED
    BY <2>2, <2>3, <2>4 DEF LayerInv, OutInv, Simulated
<1> QED
  BY <1>3, <1>4, <1>5, <1>6

\* The steps that accept a record.
LEMMA ReadSteps ==
  ASSUME LayerInv, ReadEmpty \/ ReadAlert \/ ReadHandshake \/ ReadData
  PROVE  LayerInv' /\ Simulated
<1> DEFINE body == NextRecord.body
<1>1. /\ Incoming /\ Opens /\ ~Wraps(in) /\ Decrypt /\ body # Ccs
      /\ UNCHANGED <<out, sealed, wire, peerIn, peerTaken, read, panicked>>
      /\ UNCHANGED <<peerOut, peerSealed, peerWire, writes, writing, outLock>>
  BY DEF ReadEmpty, ReadAlert, ReadHandshake, ReadData, outVars, peerVars, writerVars,
         Ccs, Empty, Alerts
<1>2. UNCHANGED OutStream!streamVars /\ OutTypeOK' /\ WireSealed' /\ OutAhead'
  BY <1>1, OutIdle DEF LayerInv, OutInv
<1>3. WriteTypeOK'
  BY <1>1 DEF LayerInv, OutInv, WriteTypeOK
<1>4. /\ InStream!StreamNext /\ body \in Bodies
      /\ in' \in Position /\ in'.seq # 0
      /\ taken' \in Seq(Bodies) /\ taken' # << >> /\ taken'[Len(taken')] = body
      /\ seen' \in Nat /\ PeerWireSealed'
  BY <1>1, DecryptTakes DEF LayerInv
<1>5. UpdateWaits' <=> Rekeys(body)
  BY <1>4 DEF UpdateWaits
<1> HIDE DEF body
<1>6. hand' \in [tickets : 0..MaxTickets, update : Updates \cup {"none"}] /\ HandAgrees'
  <2>1. CASE ReadHandshake
    <3>1. /\ body[1] = "handshake" /\ hand' = [tickets |-> body[2], update |-> body[3]]
          /\ UNCHANGED <<inErr, reader>>
      BY <2>1 DEF ReadHandshake, body
    <3>2. body[2] \in 0..MaxTickets /\ body[3] \in Updates \cup {"none"} /\ (body[3] # "none" => body[2] = 0)
      BY <1>4, <3>1, BodyFacts
    <3> QED
      BY <1>5, <3>1, <3>2 DEF HandAgrees, Rekeys
  <2>2. CASE ~ReadHandshake
    <3>1. hand' = hand /\ body[1] # "handshake"
      BY <2>2 DEF ReadEmpty, ReadAlert, ReadData, body, Empty, Alerts
    <3>2. hand = NoMessage
      BY <1>1 DEF Incoming, Idle
    <3> QED
      BY <1>5, <3>1, <3>2, BoundsAssumption DEF HandAgrees, Rekeys, NoMessage
  <2> QED
    BY <2>1, <2>2
<1>7. InTypeOK'
  BY <1>1, <1>4, <1>6 DEF LayerInv, InInv, InTypeOK
<1> QED
  BY <1>2, <1>3, <1>4, <1>6, <1>7 DEF LayerInv, OutInv, InInv, Simulated

\* The steps that neither write nor accept a record.
LEMMA OtherSteps ==
  ASSUME LayerInv, WriteCall \/ BadRecord \/ ReadCcs \/ (\E waits \in BOOLEAN : TakeInput(waits))
                   \/ ReadEOF \/ UNCHANGED vars
  PROVE  LayerInv' /\ Simulated
<1> DEFINE Idles ==
             /\ UNCHANGED <<out, sealed, wire, peerIn, peerTaken, read>> /\ (panicked => panicked')
             /\ UNCHANGED <<in, peerSealed, peerWire, peerOut, taken, hand>>
             /\ seen' \in Nat
             /\ inErr' = "nil" /\ reader' # "alert" => inErr = "nil" /\ reader # "alert"
             /\ WriteTypeOK'
<1>0. seen \in Nat /\ WriteTypeOK
  BY DEF LayerInv, InInv, InTypeOK, OutInv
<1>1. ASSUME WriteCall PROVE Idles
  <2>1. WriteTypeOK'
    BY <1>0, <1>1, BoundsAssumption DEF WriteCall, WriteTypeOK
  <2> QED
    BY <1>0, <1>1, <2>1 DEF WriteCall, outVars, peerVars, readVars
<1>2. ASSUME BadRecord PROVE Idles
  BY <1>0, <1>2 DEF BadRecord, outVars, peerVars, writerVars, WriteTypeOK, Incoming, Idle
<1>3. ASSUME ReadCcs PROVE Idles
  <2>1. seen' \in Nat /\ inErr = "nil" /\ reader = "read"
    BY <1>0, <1>3 DEF ReadCcs, Incoming, Idle
  <2> QED
    BY <1>0, <1>3, <2>1 DEF ReadCcs, outVars, peerVars, writerVars, WriteTypeOK
<1>4. ASSUME NEW waits \in BOOLEAN, TakeInput(waits) PROVE Idles
  BY <1>0, <1>4 DEF TakeInput, outVars, peerVars, writerVars, WriteTypeOK
<1>5. ASSUME ReadEOF PROVE Idles
  BY <1>0, <1>5, Zenon DEF ReadEOF, Fails, outVars, peerVars, writerVars, WriteTypeOK
<1>6. ASSUME UNCHANGED vars PROVE Idles
  BY <1>0, <1>6 DEF vars, outVars, peerVars, readVars, writerVars, WriteTypeOK
<1>7. Idles
  BY <1>1, <1>2, <1>3, <1>4, <1>5, <1>6
<1>8. UNCHANGED OutStream!streamVars /\ OutTypeOK' /\ WireSealed' /\ OutAhead'
  BY <1>7, OutIdle DEF LayerInv, OutInv
<1>9. UNCHANGED InStream!streamVars /\ InInv'
  BY <1>7, InIdle DEF LayerInv
<1> QED
  BY <1>7, <1>8, <1>9 DEF LayerInv, OutInv, Simulated

\* handlePostHandshakeMessage moves c.in to where the incoming stream is already.
LEMMA MessageStep ==
  ASSUME LayerInv, HandleMessage
  PROVE  LayerInv' /\ Simulated
<1>1. /\ UNCHANGED <<out, sealed, wire, peerIn, peerTaken, read, panicked>>
      /\ UNCHANGED <<peerOut, peerSealed, peerWire, writes, writing, outLock>>
      /\ UNCHANGED <<inErr, taken, seen>>
      /\ inErr = "nil" /\ reader = "read" /\ hand # NoMessage
  BY DEF HandleMessage, outVars, peerVars, writerVars
<1>2. UNCHANGED OutStream!streamVars /\ OutTypeOK' /\ WireSealed' /\ OutAhead'
  BY <1>1, OutIdle DEF LayerInv, OutInv
<1>3. WriteTypeOK'
  BY <1>1 DEF LayerInv, OutInv, WriteTypeOK
<1>4. PeerWireSealed'
  BY <1>1 DEF LayerInv, InInv, PeerWireSealed
<1>5. /\ hand \in [tickets : 0..MaxTickets, update : Updates \cup {"none"}]
      /\ in \in Position /\ SetTrafficSecret(in) \in Position
  BY PositionFacts DEF LayerInv, InInv, InTypeOK
<1>6. CASE hand.tickets > 0
  <2>1. hand.update = "none" /\ ~UpdateWaits
    BY <1>1, <1>5, <1>6 DEF LayerInv, InInv, HandAgrees
  <2>2. /\ hand' = [hand EXCEPT !.tickets = hand.tickets - 1] /\ in' = in
        /\ hand' \in [tickets : 0..MaxTickets, update : Updates \cup {"none"}]
        /\ hand'.update = "none"
    BY <1>5, <1>6, <2>1, BoundsAssumption DEF HandleMessage
  <2>3. InTypeOK' /\ HandAgrees'
    BY <1>1, <2>1, <2>2 DEF LayerInv, InInv, InTypeOK, HandAgrees, UpdateWaits
  <2>4. UNCHANGED InStream!streamVars
    BY <1>1, <2>2 DEF InStream!streamVars, Pending
  <2> QED
    BY <1>2, <1>3, <1>4, <2>3, <2>4 DEF LayerInv, OutInv, InInv, Simulated
<1>7. CASE ~(hand.tickets > 0)
  <2>1. hand.update # "none"
    BY <1>1, <1>5, <1>7 DEF NoMessage
  <2>2. UpdateWaits /\ Pending(in) = SetTrafficSecret(in)
    BY <2>1 DEF LayerInv, InInv, HandAgrees, UpdateWaits, Pending
  <2>3. hand' = NoMessage /\ NoMessage \in [tickets : 0..MaxTickets, update : Updates \cup {"none"}]
    BY <1>7, BoundsAssumption DEF HandleMessage, NoMessage
  <2>4. CASE retryCount' > maxUselessRecords
    <3>1. in' = in /\ reader' = "alert"
      BY <1>7, <2>4 DEF HandleMessage
    <3>2. InTypeOK' /\ HandAgrees'
      BY <1>1, <1>5, <2>3, <3>1 DEF LayerInv, InInv, InTypeOK, HandAgrees, NoMessage
    <3>3. UNCHANGED InStream!streamVars
      BY <1>1, <3>1 DEF InStream!streamVars, Pending
    <3> QED
      BY <1>2, <1>3, <1>4, <3>2, <3>3 DEF LayerInv, OutInv, InInv, Simulated
  <2>5. CASE ~(retryCount' > maxUselessRecords)
    <3>1. in' = SetTrafficSecret(in) /\ in'.seq = 0
      BY <1>7, <2>5 DEF HandleMessage, SetTrafficSecret
    <3>2. InTypeOK' /\ HandAgrees'
      BY <1>1, <1>5, <2>3, <3>1 DEF LayerInv, InInv, InTypeOK, HandAgrees, UpdateWaits, NoMessage
    <3>3. UNCHANGED InStream!streamVars
      <4>1. Pending(in)' = in'
        BY <3>1 DEF Pending
      <4> QED
        BY <1>1, <2>2, <3>1, <4>1 DEF InStream!streamVars
    <3> QED
      BY <1>2, <1>3, <1>4, <3>2, <3>3 DEF LayerInv, OutInv, InInv, Simulated
  <2> QED
    BY <2>4, <2>5
<1> QED
  BY <1>6, <1>7

\* An unprotected record leaves the incoming stream alone.
LEMMA PeerSendsPlain ==
  ASSUME InInv, PeerSendsCcs
  PROVE  UNCHANGED InStream!streamVars /\ InInv'
<1> DEFINE r == [pos |-> peerOut, body |-> Ccs, sent |-> TRUE]
<1>1. /\ peerWire' = Append(peerWire, r)
      /\ UNCHANGED <<in, peerSealed, peerOut, taken, hand, seen, inErr, reader>>
  BY DEF PeerSendsCcs, readVars
<1>2. peerOut \in StreamPosition /\ peerWire \in Seq(PeerRecord)
  BY DEF InInv, InTypeOK
<1>3. r \in PeerRecord /\ r.body = Ccs
  BY <1>2 DEF PeerRecord
<1> HIDE DEF r
<1>4. /\ peerWire' \in Seq(PeerRecord)
      /\ \A k \in DOMAIN peerWire' :
           peerWire'[k] = r \/ (k \in DOMAIN peerWire /\ peerWire'[k] = peerWire[k])
  BY <1>1, <1>2, <1>3, AppendCases
<1>5. InTypeOK'
  BY <1>1, <1>4 DEF InInv, InTypeOK
<1>6. PeerWireSealed'
  BY <1>1, <1>3, <1>4 DEF InInv, PeerWireSealed
<1>7. HandAgrees'
  BY <1>1 DEF InInv, HandAgrees, UpdateWaits
<1>8. UNCHANGED InStream!streamVars
  BY <1>1 DEF InStream!streamVars, Pending
<1> QED
  BY <1>5, <1>6, <1>7, <1>8 DEF InInv

\* The steps of the peer.
LEMMA PeerSteps ==
  ASSUME LayerInv
  PROVE  /\ PeerReads => LayerInv' /\ Simulated
         /\ PeerSendsCcs => LayerInv' /\ Simulated
         /\ \A b \in PeerBodies : PeerSends(b) => LayerInv' /\ Simulated
<1>0. OutTypeOK /\ WireSealed /\ OutAhead /\ WriteTypeOK /\ InInv /\ seen \in Nat
  BY DEF LayerInv, OutInv, InInv, InTypeOK
<1>1. ASSUME UNCHANGED <<writes, writing, outLock>> PROVE WriteTypeOK'
  BY <1>0, <1>1 DEF WriteTypeOK
<1>2. ASSUME UNCHANGED <<out, sealed, wire, peerIn, peerTaken, read, panicked>>
      PROVE  UNCHANGED OutStream!streamVars /\ OutTypeOK' /\ WireSealed' /\ OutAhead'
  BY <1>0, <1>2, OutIdle
<1>3. ASSUME PeerReads PROVE LayerInv' /\ Simulated
  <2>1. /\ OutStream!StreamNext \/ UNCHANGED OutStream!streamVars
        /\ OutTypeOK' /\ WireSealed' /\ OutAhead'
    BY <1>0, <1>3, PeerTakes
  <2>2. UNCHANGED <<in, peerSealed, peerWire, peerOut, taken, hand, inErr, reader, seen>>
    BY <1>3 DEF PeerReads, readVars
  <2>3. UNCHANGED InStream!streamVars /\ InInv'
    BY <1>0, <2>2, InIdle
  <2>4. WriteTypeOK'
    BY <1>1, <1>3 DEF PeerReads, writerVars
  <2> QED
    BY <2>1, <2>3, <2>4 DEF LayerInv, OutInv, Simulated
<1>4. ASSUME PeerSendsCcs PROVE LayerInv' /\ Simulated
  <2>1. UNCHANGED OutStream!streamVars /\ OutTypeOK' /\ WireSealed' /\ OutAhead'
    BY <1>2, <1>4 DEF PeerSendsCcs, outVars
  <2>2. UNCHANGED InStream!streamVars /\ InInv'
    BY <1>0, <1>4, PeerSendsPlain
  <2>3. WriteTypeOK'
    BY <1>1, <1>4 DEF PeerSendsCcs, writerVars
  <2> QED
    BY <2>1, <2>2, <2>3 DEF LayerInv, OutInv, Simulated
<1>5. ASSUME NEW b \in PeerBodies, PeerSends(b) PROVE LayerInv' /\ Simulated
  <2>1. UNCHANGED OutStream!streamVars /\ OutTypeOK' /\ WireSealed' /\ OutAhead'
    BY <1>2, <1>5 DEF PeerSends, outVars
  <2>2. InStream!StreamNext /\ InInv'
    BY <1>0, <1>5, PeerSeals
  <2>3. WriteTypeOK'
    BY <1>1, <1>5 DEF PeerSends, writerVars
  <2> QED
    BY <2>1, <2>2, <2>3 DEF LayerInv, OutInv, Simulated
<1> QED
  BY <1>3, <1>4, <1>5

\* Every step preserves the invariant and is a step of each stream.
LEMMA LayerStep == LayerInv /\ [Next]_vars => LayerInv' /\ Simulated
<1> SUFFICES ASSUME LayerInv, [Next]_vars PROVE LayerInv' /\ Simulated
  OBVIOUS
<1>1. ASSUME NEW ok \in BOOLEAN, WriteFragment(ok) \/ CloseNotify(ok) \/ Reply(ok) \/ SendAlert(ok)
      PROVE  LayerInv' /\ Simulated
  BY <1>1, WriteSteps
<1>2. CASE ReadEmpty \/ ReadAlert \/ ReadHandshake \/ ReadData
  BY <1>2, ReadSteps
<1>3. CASE \/ WriteCall \/ BadRecord \/ ReadCcs \/ (\E waits \in BOOLEAN : TakeInput(waits))
           \/ ReadEOF \/ UNCHANGED vars
  BY <1>3, OtherSteps
<1>4. CASE HandleMessage
  BY <1>4, MessageStep
<1>5. CASE PeerReads \/ PeerSendsCcs \/ (\E b \in PeerBodies : PeerSends(b))
  BY <1>5, PeerSteps
<1> QED
  BY <1>1, <1>2, <1>3, <1>4, <1>5 DEF Next, WriterStep, ReaderStep

\* The invariant holds at first, and both streams start.
LEMMA LayerStart == Init => LayerInv /\ OutStream!StreamInit /\ InStream!StreamInit
<1> SUFFICES ASSUME Init PROVE LayerInv /\ OutStream!StreamInit /\ InStream!StreamInit
  OBVIOUS
<1> USE BoundsAssumption DEF Init, Start
<1>1. Start \in Position /\ Start \in StreamPosition
  BY DEF Position, StreamPosition
<1>2. OutTypeOK /\ WriteTypeOK /\ WireSealed /\ OutAhead
  BY <1>1 DEF OutTypeOK, WriteTypeOK, WireSealed, OutAhead
<1>3. InTypeOK /\ PeerWireSealed /\ HandAgrees
  BY <1>1 DEF InTypeOK, PeerWireSealed, HandAgrees, UpdateWaits, NoMessage
<1>4. OutStream!StreamInit /\ InStream!StreamInit
  BY DEF OutStream!StreamInit, InStream!StreamInit, OutStream!Start, InStream!Start, Spent, Pending
<1> QED
  BY <1>2, <1>3, <1>4 DEF LayerInv, OutInv, InInv

\* Write, closeNotify, Read and the key updates keep both directions streams, whatever
\* the interleaving and whichever writes fail.
THEOREM LayerImplementsStreams == Spec => ImplementsStreams
<1>1. Init => LayerInv /\ OutStream!StreamInit /\ InStream!StreamInit
  BY LayerStart
<1>2. LayerInv /\ [Next]_vars =>
        /\ LayerInv'
        /\ [OutStream!StreamNext]_(OutStream!streamVars)
        /\ [InStream!StreamNext]_(InStream!streamVars)
  BY LayerStep DEF Simulated
<1> QED
  BY <1>1, <1>2, PTL DEF Spec, ImplementsStreams, OutStream!StreamSpec, InStream!StreamSpec

\* Hence each side accepts a prefix of what the other protected, in order, and no
\* secret is used twice with one sequence number.
THEOREM LayerIntact == Spec => []StreamsIntact
<1>1. OutStream!StreamSpec => []OutStream!StreamInv
  BY OutStream!StreamIntact
<1>2. InStream!StreamSpec => []InStream!StreamInv
  BY InStream!StreamIntact
<1> QED
  BY <1>1, <1>2, LayerImplementsStreams, PTL DEF ImplementsStreams, StreamsIntact
-----------------------------------------------------------------------------
(* The wires: each side accepts the records in the order in which they come. *)

Place == [epoch : Nat, seq : Nat]
Before(p, q) == p.epoch < q.epoch \/ (p.epoch = q.epoch /\ p.seq < q.seq)

\* The records P of a wire W are the records of S that were sent, in their order, and
\* those up to r are the first m of S.
Tracks(S, W, P, m, r) ==
    /\ \A k \in DOMAIN S : S[k].sent => \E i \in P : W[i].pos = S[k].pos
    /\ \A i \in P : \E k \in DOMAIN S : S[k].pos = W[i].pos
    /\ \A i, j \in P : i < j => Before(W[i].pos, W[j].pos)
    /\ \A i \in P : i <= r <=> \E k \in 1..m : S[k].pos = W[i].pos

AllSent(S) == \A k \in DOMAIN S : S[k].sent

\* The peer has accepted what it has read, and the record it failed at is not what it
\* expects only if one was lost.
WireInv ==
    /\ read <= Len(wire) /\ (peerErr => read # 0)
    /\ Tracks(sealed, wire, DOMAIN wire, Len(peerTaken), IF peerErr THEN read - 1 ELSE read)
    /\ peerErr => ~AllSent(sealed)

\* None of the peer's records is lost, and this side has accepted the protected ones
\* among those it has read.
Protected == {i \in DOMAIN peerWire : peerWire[i].body # Ccs}

PeerWireInv ==
    /\ seen <= Len(peerWire)
    /\ Tracks(peerSealed, peerWire, Protected, Len(taken), seen)
    /\ AllSent(peerSealed)

\* Positions are used in a strict order.
LEMMA BeforeOrders ==
  ASSUME NEW p \in Place, NEW q \in Place, NEW r \in Place
  PROVE  /\ ~Before(p, p)
         /\ Before(p, q) /\ Before(q, r) => Before(p, r)
         /\ Before(p, q) => p # q
BY DEF Place, Before

\* The first record of W not read is a protected one.
Unread(K, n, S, W, P, m, r) ==
    /\ K \in Nat /\ n \in Nat /\ DOMAIN S = 1..K /\ P \subseteq 1..n
    /\ \A k \in 1..K : S[k].pos \in Place
    /\ \A k, l \in 1..K : k < l => Before(S[k].pos, S[l].pos)
    /\ m \in 0..K /\ r \in Nat /\ Tracks(S, W, P, m, r) /\ r + 1 \in P

FirstNotTaken(K, S, W, m, r) == m < K /\ W[r + 1].pos = S[m + 1].pos

\* S is extended to S1 by one record; it is also put on the wire, or it is lost.
Grows(K, n, S, W, P, m, r, S1, W1, P1) ==
    /\ K \in Nat /\ n \in Nat /\ DOMAIN S = 1..K /\ P \subseteq 1..n
    /\ m \in 0..K /\ r \in 0..n /\ Tracks(S, W, P, m, r)
    /\ DOMAIN S1 = 1..(K + 1) /\ \A k \in 1..K : S1[k] = S[k]
    /\ \A k \in 1..K : S[k].pos \in Place /\ Before(S[k].pos, S1[K + 1].pos)
    /\ S1[K + 1].pos \in Place
    /\ \A i \in 1..n : W1[i] = W[i]
    /\ \/ P1 = P /\ ~S1[K + 1].sent
       \/ P1 = P \cup {n + 1} /\ W1[n + 1].pos = S1[K + 1].pos

\* If none was lost, the first record not read is the first one not accepted.
LEMMA FirstUnread ==
  ASSUME NEW K, NEW n, NEW S, NEW W, NEW P, NEW m, NEW r,
         Unread(K, n, S, W, P, m, r), AllSent(S)
  PROVE  FirstNotTaken(K, S, W, m, r)
<1>a. K \in Nat /\ n \in Nat /\ m \in 0..K /\ r \in Nat /\ r + 1 \in P /\ DOMAIN S = 1..K
  BY Zenon DEF Unread
<1>b. P \subseteq 1..n
  BY Zenon DEF Unread
<1>c. \A k \in 1..K : S[k].pos \in Place
  BY Zenon DEF Unread
<1>d. \A k, l \in 1..K : k < l => Before(S[k].pos, S[l].pos)
  BY Zenon DEF Unread
<1>e. Tracks(S, W, P, m, r)
  BY Zenon DEF Unread
<1>1. PICK k \in 1..K : S[k].pos = W[r + 1].pos
  BY <1>a, <1>e, Zenon DEF Tracks
<1>2. k > m /\ m < K /\ m + 1 \in 1..K
  <2>1. ~(r + 1 <= r)
    BY <1>a
  <2>2. k \notin 1..m
    BY <1>1, <1>a, <1>e, <2>1, Zenon DEF Tracks
  <2> QED
    BY <1>a, <2>2
<1>3. PICK i \in P : W[i].pos = S[m + 1].pos
  BY <1>2, <1>a, <1>e, Zenon DEF Tracks, AllSent
<1>4. ~(i <= r)
  <2> SUFFICES ASSUME i <= r PROVE FALSE
    OBVIOUS
  <2>1. PICK l \in 1..m : S[l].pos = W[i].pos
    BY <1>e, Zenon DEF Tracks
  <2>2. l \in 1..K /\ l < m + 1
    BY <1>a
  <2>3. Before(S[l].pos, S[m + 1].pos) /\ S[l].pos \in Place
    BY <1>2, <1>c, <1>d, <2>2, Zenon
  <2> QED
    BY <1>3, <2>1, <2>3, BeforeOrders, Zenon
<1>5. CASE i = r + 1
  BY <1>2, <1>3, <1>5, Zenon DEF FirstNotTaken
<1>6. CASE r + 1 < i
  <2>1. Before(S[k].pos, S[m + 1].pos)
    BY <1>1, <1>3, <1>6, <1>a, <1>e, Zenon DEF Tracks
  <2>2. S[k].pos \in Place /\ S[m + 1].pos \in Place
    BY <1>2, <1>c, Zenon
  <2>3. k = m + 1 \/ m + 1 < k
    BY <1>2, <1>a
  <2>4. k = m + 1 \/ Before(S[m + 1].pos, S[k].pos)
    BY <1>2, <1>d, <2>3, Zenon
  <2> QED
    BY <2>1, <2>2, <2>4, BeforeOrders, Zenon
<1>7. i = r + 1 \/ r + 1 < i
  BY <1>4, <1>a, <1>b
<1> QED
  BY <1>5, <1>6, <1>7, Zenon

\* Accepting the first record not read goes on in step.
LEMMA NextRead ==
  ASSUME NEW K, NEW n, NEW S, NEW W, NEW P, NEW m, NEW r,
         Unread(K, n, S, W, P, m, r), FirstNotTaken(K, S, W, m, r)
  PROVE  Tracks(S, W, P, m + 1, r + 1)
<1>f. m < K /\ W[r + 1].pos = S[m + 1].pos
  BY Zenon DEF FirstNotTaken
<1>a. K \in Nat /\ n \in Nat /\ m \in 0..K /\ r \in Nat /\ r + 1 \in P /\ DOMAIN S = 1..K
  BY Zenon DEF Unread
<1>b. P \subseteq 1..n
  BY Zenon DEF Unread
<1>c. \A k \in 1..K : S[k].pos \in Place
  BY Zenon DEF Unread
<1>e. Tracks(S, W, P, m, r)
  BY Zenon DEF Unread
<1> SUFFICES ASSUME NEW i \in P PROVE i <= r + 1 <=> \E k \in 1..(m + 1) : S[k].pos = W[i].pos
  BY <1>e, Zenon DEF Tracks
<1>g. m < K
  BY <1>f, Zenon
<1>0. i \in Nat /\ m + 1 \in 1..K /\ m + 1 \in 1..(m + 1)
  BY <1>a, <1>b, <1>g
<1>h. \A k : k \in 1..(m + 1) <=> k \in 1..m \/ k = m + 1
  BY <1>a
<1>1. CASE i <= r
  <2>1. i <= r + 1
    BY <1>0, <1>1, <1>a
  <2>2. PICK k \in 1..m : S[k].pos = W[i].pos
    BY <1>1, <1>e, Zenon DEF Tracks
  <2> QED
    BY <1>h, <2>1, <2>2, Zenon
<1>2. CASE i = r + 1
  <2>1. i <= r + 1
    BY <1>2, <1>a
  <2> QED
    BY <1>0, <1>2, <1>f, <2>1, Zenon
<1>3. CASE r + 1 < i
  <2>1. Before(S[m + 1].pos, W[i].pos)
    BY <1>3, <1>a, <1>e, <1>f, Zenon DEF Tracks
  <2>2. S[m + 1].pos # W[i].pos
    BY <1>0, <1>c, <2>1, BeforeOrders, Zenon
  <2>3. ~(i <= r) /\ ~(i <= r + 1)
    BY <1>0, <1>3, <1>a
  <2>4. \A k \in 1..m : S[k].pos # W[i].pos
    BY <1>e, <2>3, Zenon DEF Tracks
  <2> QED
    BY <1>h, <2>2, <2>3, <2>4, Zenon
<1>4. i <= r \/ i = r + 1 \/ r + 1 < i
  BY <1>0, <1>a
<1> QED
  BY <1>1, <1>2, <1>3, <1>4, Zenon

\* One more record protected, and perhaps sent, changes nothing about those before it.
LEMMA OneMore ==
  ASSUME NEW K, NEW n, NEW S, NEW W, NEW P, NEW m, NEW r, NEW S1, NEW W1, NEW P1,
         Grows(K, n, S, W, P, m, r, S1, W1, P1)
  PROVE  Tracks(S1, W1, P1, m, r)
<1>a. K \in Nat /\ n \in Nat /\ m \in 0..K /\ r \in 0..n /\ DOMAIN S = 1..K /\ DOMAIN S1 = 1..(K + 1)
  BY Zenon DEF Grows
<1>b. P \subseteq 1..n
  BY Zenon DEF Grows
<1>c. \A k \in 1..K : S1[k] = S[k]
  BY Zenon DEF Grows
<1>d. \A k \in 1..K : S[k].pos \in Place /\ Before(S[k].pos, S1[K + 1].pos)
  BY Zenon DEF Grows
<1>e. Tracks(S, W, P, m, r)
  BY Zenon DEF Grows
<1>f. \A i \in 1..n : W1[i] = W[i]
  BY Zenon DEF Grows
<1>g. \/ P1 = P /\ ~S1[K + 1].sent
      \/ P1 = P \cup {n + 1} /\ W1[n + 1].pos = S1[K + 1].pos
  BY Zenon DEF Grows
<1>h. S1[K + 1].pos \in Place
  BY Zenon DEF Grows
<1>i. P \subseteq P1
  BY <1>g, Zenon
<1>j. \A i \in P1 : i \in P \/ (i = n + 1 /\ W1[n + 1].pos = S1[K + 1].pos)
  BY <1>g, Zenon
<1>k. \A k : k \in 1..(K + 1) <=> k \in 1..K \/ k = K + 1
  BY <1>a
<1>l. \A k \in 1..m : k \in 1..K
  BY <1>a
<1>m. ~(n + 1 <= r)
  BY <1>a
<1>n. \A i \in P : ~(n + 1 < i) /\ i # n + 1
  BY <1>a, <1>b
<1>o. ~(n + 1 < n + 1)
  BY <1>a
<1>1. ASSUME NEW k \in 1..(K + 1), S1[k].sent PROVE \E i \in P1 : W1[i].pos = S1[k].pos
  <2>1. CASE k = K + 1
    BY <1>1, <1>g, <2>1, Zenon
  <2>2. CASE k \in 1..K
    <3>1. PICK i \in P : W[i].pos = S[k].pos
      BY <1>1, <1>a, <1>c, <1>e, <2>2, Zenon DEF Tracks
    <3>2. W1[i] = W[i] /\ S1[k] = S[k]
      BY <1>b, <1>c, <1>f, <2>2, Zenon
    <3> QED
      BY <1>i, <3>1, <3>2, Zenon
  <2> QED
    BY <1>k, <2>1, <2>2, Zenon
<1>2. ASSUME NEW i \in P1 PROVE \E k \in 1..(K + 1) : S1[k].pos = W1[i].pos
  <2>1. CASE i \in P
    <3>1. PICK k \in 1..K : S[k].pos = W[i].pos
      BY <1>a, <1>e, <2>1, Zenon DEF Tracks
    <3>2. W1[i] = W[i] /\ S1[k] = S[k]
      BY <1>b, <1>c, <1>f, <2>1, Zenon
    <3> QED
      BY <1>k, <3>1, <3>2, Zenon
  <2>2. CASE i = n + 1 /\ W1[n + 1].pos = S1[K + 1].pos
    BY <1>k, <2>2, Zenon
  <2> QED
    BY <1>j, <2>1, <2>2, Zenon
<1>3. ASSUME NEW i \in P1, NEW j \in P1, i < j PROVE Before(W1[i].pos, W1[j].pos)
  <2>1. i \in P
    BY <1>3, <1>j, <1>n, <1>o, Zenon
  <2>2. W1[i] = W[i]
    BY <1>b, <1>f, <2>1, Zenon
  <2>3. CASE j \in P
    <3>1. W1[j] = W[j]
      BY <1>b, <1>f, <2>3, Zenon
    <3> QED
      BY <1>3, <1>e, <2>1, <2>2, <2>3, <3>1, Zenon DEF Tracks
  <2>4. CASE j = n + 1 /\ W1[n + 1].pos = S1[K + 1].pos
    <3>1. PICK k \in 1..K : S[k].pos = W[i].pos
      BY <1>a, <1>e, <2>1, Zenon DEF Tracks
    <3> QED
      BY <1>d, <2>2, <2>4, <3>1, Zenon
  <2> QED
    BY <1>j, <2>3, <2>4, Zenon
<1>4. ASSUME NEW i \in P1 PROVE i <= r <=> \E k \in 1..m : S1[k].pos = W1[i].pos
  <2>1. \A k \in 1..m : S1[k] = S[k]
    BY <1>c, <1>l, Zenon
  <2>2. CASE i \in P
    <3>1. W1[i] = W[i]
      BY <1>b, <1>f, <2>2, Zenon
    <3>2. i <= r <=> \E k \in 1..m : S[k].pos = W[i].pos
      BY <1>e, <2>2, Zenon DEF Tracks
    <3> QED
      BY <2>1, <3>1, <3>2, Zenon
  <2>3. CASE i = n + 1 /\ W1[n + 1].pos = S1[K + 1].pos
    <3>1. ASSUME NEW k \in 1..m PROVE S1[k].pos # W1[i].pos
      BY <1>d, <1>h, <1>l, <2>1, <2>3, BeforeOrders, Zenon
    <3> QED
      BY <1>m, <2>3, <3>1, Zenon
  <2> QED
    BY <1>j, <2>2, <2>3, Zenon
<1> QED
  BY <1>1, <1>2, <1>3, <1>4, <1>a, Zenon DEF Tracks

\* Only the records P of a wire matter.
LEMMA TracksSame ==
  ASSUME NEW S, NEW W, NEW P, NEW m, NEW r, Tracks(S, W, P, m, r), NEW W1, \A i \in P : W1[i] = W[i]
  PROVE  Tracks(S, W1, P, m, r)
<1>1. ASSUME NEW k \in DOMAIN S, S[k].sent PROVE \E i \in P : W1[i].pos = S[k].pos
  <2>1. PICK i \in P : W[i].pos = S[k].pos
    BY <1>1, Zenon DEF Tracks
  <2> QED
    BY <2>1
<1>2. ASSUME NEW i \in P PROVE /\ \E k \in DOMAIN S : S[k].pos = W1[i].pos
                               /\ i <= r <=> \E k \in 1..m : S[k].pos = W1[i].pos
  <2>1. W1[i] = W[i]
    BY Zenon
  <2>2. /\ \E k \in DOMAIN S : S[k].pos = W[i].pos
        /\ i <= r <=> \E k \in 1..m : S[k].pos = W[i].pos
    BY Zenon DEF Tracks
  <2> QED
    BY <2>1, <2>2, Zenon
<1>3. ASSUME NEW i \in P, NEW j \in P, i < j PROVE Before(W1[i].pos, W1[j].pos)
  BY <1>3, Zenon DEF Tracks
<1> QED
  BY <1>1, <1>2, <1>3, Zenon DEF Tracks

\* The sequence t is s, of length n, with e after it.
Longer(s, n, t, e) ==
    /\ n \in Nat /\ DOMAIN s = 1..n /\ DOMAIN t = 1..(n + 1)
    /\ \A i \in 1..n : t[i] = s[i]
    /\ t[n + 1] = e

\* What Append makes longer.
LEMMA Appended ==
  ASSUME NEW S, NEW s \in Seq(S), NEW e \in S, NEW t, t = Append(s, e)
  PROVE  Len(t) = Len(s) + 1 /\ Longer(s, Len(s), t, e)
BY AppendFacts DEF Longer

\* The outgoing stream, as the proofs below use it.
LEMMA OutFacts ==
  ASSUME OutTypeOK, OutAhead, OutStream!StreamInv
  PROVE  /\ Len(sealed) \in Nat /\ DOMAIN sealed = 1..Len(sealed) /\ Len(peerTaken) \in 0..Len(sealed)
         /\ Len(wire) \in Nat /\ DOMAIN wire = 1..Len(wire)
         /\ \A k \in DOMAIN sealed : sealed[k].pos \in Place
         /\ \A k, l \in DOMAIN sealed : k < l => Before(sealed[k].pos, sealed[l].pos)
         /\ Spent(out) \in Place /\ \A k \in DOMAIN sealed : Before(sealed[k].pos, Spent(out))
         /\ peerIn = IF Len(peerTaken) < Len(sealed) THEN sealed[Len(peerTaken) + 1].pos ELSE Spent(out)
         /\ ~panicked => Spent(out) = out
<1>1. /\ Len(sealed) \in Nat /\ DOMAIN sealed = 1..Len(sealed)
      /\ Len(wire) \in Nat /\ DOMAIN wire = 1..Len(wire)
      /\ \A k \in DOMAIN sealed : sealed[k] \in Record
  BY DEF OutTypeOK
<1>2. Len(peerTaken) \in 0..Len(sealed)
  BY <1>1 DEF OutStream!StreamInv, OutStream!StreamTypeOK, OutStream!TakenIsPrefix
<1>3. \A k \in DOMAIN sealed : sealed[k].pos \in Place
  <2>1. \A x \in Record : x.pos \in Place
    BY BoundsAssumption DEF Record, StreamPosition, Place
  <2> QED
    BY <1>1, <2>1
<1>4. /\ \A k, l \in DOMAIN sealed : k < l => Before(sealed[k].pos, sealed[l].pos)
      /\ \A k \in DOMAIN sealed : Before(sealed[k].pos, Spent(out))
  BY Zenon DEF OutStream!StreamInv, OutStream!NoncesUnique, OutStream!Less, Before
<1>5. Spent(out) \in Place
  BY DEF OutStream!StreamInv, OutStream!StreamTypeOK, OutStream!Position, Place
<1>6. peerIn = IF Len(peerTaken) < Len(sealed) THEN sealed[Len(peerTaken) + 1].pos ELSE Spent(out)
  BY DEF OutStream!StreamInv, OutStream!InStep
<1>7. ~panicked => Spent(out) = out
  <2> SUFFICES ASSUME ~panicked, sealed # << >> PROVE Spent(out) = out
    BY DEF Spent
  <2>1. out.epoch \in Nat /\ out.seq \in 0..MaxSeq /\ MaxSeq \in Nat
    BY BoundsAssumption DEF OutTypeOK, Position
  <2>2. sealed[Len(sealed)].pos # [epoch |-> out.epoch, seq |-> MaxSeq]
    BY <2>1 DEF OutAhead
  <2> QED
    BY <2>2 DEF Spent
<1> QED
  BY <1>1, <1>2, <1>3, <1>4, <1>5, <1>6, <1>7, Zenon

\* The incoming stream.
LEMMA InFacts ==
  ASSUME InTypeOK, InStream!StreamInv
  PROVE  /\ Len(peerSealed) \in Nat /\ DOMAIN peerSealed = 1..Len(peerSealed)
         /\ Len(taken) \in 0..Len(peerSealed)
         /\ Len(peerWire) \in Nat /\ DOMAIN peerWire = 1..Len(peerWire) /\ Protected \subseteq 1..Len(peerWire)
         /\ \A k \in DOMAIN peerSealed : peerSealed[k].pos \in Place
         /\ \A k, l \in DOMAIN peerSealed : k < l => Before(peerSealed[k].pos, peerSealed[l].pos)
         /\ peerOut \in Place /\ \A k \in DOMAIN peerSealed : Before(peerSealed[k].pos, peerOut)
         /\ Pending(in) = IF Len(taken) < Len(peerSealed) THEN peerSealed[Len(taken) + 1].pos ELSE peerOut
<1>1. /\ Len(peerSealed) \in Nat /\ DOMAIN peerSealed = 1..Len(peerSealed)
      /\ Len(peerWire) \in Nat /\ DOMAIN peerWire = 1..Len(peerWire)
      /\ \A k \in DOMAIN peerSealed : peerSealed[k] \in Record
  BY DEF InTypeOK
<1>2. Len(taken) \in 0..Len(peerSealed)
  BY <1>1 DEF InStream!StreamInv, InStream!StreamTypeOK, InStream!TakenIsPrefix
<1>3. \A k \in DOMAIN peerSealed : peerSealed[k].pos \in Place
  <2>1. \A x \in Record : x.pos \in Place
    BY BoundsAssumption DEF Record, StreamPosition, Place
  <2> QED
    BY <1>1, <2>1
<1>4. /\ \A k, l \in DOMAIN peerSealed : k < l => Before(peerSealed[k].pos, peerSealed[l].pos)
      /\ \A k \in DOMAIN peerSealed : Before(peerSealed[k].pos, peerOut)
  BY Zenon DEF InStream!StreamInv, InStream!NoncesUnique, InStream!Less, Before
<1>5. peerOut \in Place
  BY DEF InStream!StreamInv, InStream!StreamTypeOK, InStream!Position, Place
<1>6. Pending(in) = IF Len(taken) < Len(peerSealed) THEN peerSealed[Len(taken) + 1].pos ELSE peerOut
  BY DEF InStream!StreamInv, InStream!InStep
<1> QED
  BY <1>1, <1>2, <1>3, <1>4, <1>5, <1>6 DEF Protected

\* writeRecordLocked keeps the outgoing wire in step.
LEMMA WireWrites ==
  ASSUME OutTypeOK, OutAhead, OutStream!StreamInv, WireInv, ~panicked,
         NEW b \in Bodies, NEW ok \in BOOLEAN, WriteRecordLocked(b, ok),
         UNCHANGED <<peerTaken, peerErr, read>>
  PROVE  WireInv'
<1> DEFINE K == Len(sealed)  n == Len(wire)
           snt == ok /\ ~Wraps(out)
           rec == [pos |-> out, body |-> b, sent |-> snt]
           onWire == [pos |-> out, body |-> b]
           r == IF peerErr THEN read - 1 ELSE read
<1>1. /\ K \in Nat /\ n \in Nat /\ DOMAIN sealed = 1..K /\ DOMAIN wire = 1..n /\ Len(peerTaken) \in 0..K
      /\ \A k \in 1..K : sealed[k].pos \in Place /\ Before(sealed[k].pos, out)
      /\ out \in Place
  BY OutFacts, Zenon
<1>0. n \in Nat /\ read \in Nat /\ read <= n /\ (peerErr => read # 0)
  BY <1>1, Zenon DEF WireInv, OutTypeOK
<1>2. /\ snt \in BOOLEAN /\ rec \in Record /\ onWire \in WireRecord
      /\ sealed' = Append(sealed, rec)
      /\ wire' = IF snt THEN Append(wire, onWire) ELSE wire
  <2>1. out \in StreamPosition
    BY BoundsAssumption DEF Position, StreamPosition, OutTypeOK
  <2>2. out \in Position /\ snt \in BOOLEAN
    BY Zenon DEF OutTypeOK
  <2>3. rec \in Record /\ onWire \in WireRecord
    BY <2>1, <2>2 DEF Record, WireRecord
  <2> QED
    BY <2>2, <2>3, Zenon DEF WriteRecordLocked
<1>3. rec.pos = out /\ rec.sent = snt /\ onWire.pos = out
  BY Zenon
<1> HIDE DEF rec, onWire
<1>4. /\ DOMAIN sealed' = 1..(K + 1) /\ sealed'[K + 1] = rec
      /\ \A k \in 1..K : sealed'[k] = sealed[k]
  <2>1. Longer(sealed, K, sealed', rec)
    BY <1>2, Appended, Zenon DEF OutTypeOK
  <2> QED
    BY <2>1, Zenon DEF Longer
<1>7. r \in 0..n
  BY <1>0
<1>8. Tracks(sealed, wire, DOMAIN wire, Len(peerTaken), r)
  BY Zenon DEF WireInv
<1>9. peerErr' => ~AllSent(sealed)'
  <2>1. K + 1 \in Nat /\ \A k \in 1..K : k \in 1..(K + 1)
    BY <1>1
  <2> QED
    BY <1>1, <1>4, <2>1, Zenon DEF WireInv, AllSent
<1>5. CASE snt
  <2>1. /\ DOMAIN wire' = 1..(n + 1) /\ Len(wire') = n + 1 /\ wire'[n + 1] = onWire
        /\ \A i \in 1..n : wire'[i] = wire[i]
    <3>1. Len(wire') = n + 1 /\ Longer(wire, n, wire', onWire)
      BY <1>2, <1>5, Appended, Zenon DEF OutTypeOK
    <3> QED
      BY <3>1, Zenon DEF Longer
  <2>2. DOMAIN wire' = DOMAIN wire \cup {n + 1}
    <3>1. 1..(n + 1) = 1..n \cup {n + 1}
      BY <1>0
    <3> QED
      BY <1>1, <2>1, <3>1, Zenon
  <2>3. read' <= Len(wire')
    <3>1. Len(wire') = n + 1
      BY <2>1, Zenon
    <3> QED
      BY <1>0, <3>1
  <2> HIDE DEF K, n, r, snt
  <2>4. Tracks(sealed', wire', DOMAIN wire', Len(peerTaken), r)
    <3>1. Grows(K, n, sealed, wire, DOMAIN wire, Len(peerTaken), r, sealed', wire', DOMAIN wire')
      BY <1>1, <1>3, <1>4, <1>7, <1>8, <2>1, <2>2, Zenon DEF Grows
    <3> QED
      BY <3>1, OneMore, Zenon
  <2> QED
    BY <1>0, <1>9, <2>3, <2>4, Zenon DEF WireInv, r
<1>6. CASE ~snt
  <2>1. wire' = wire
    BY <1>2, <1>6
  <2> HIDE DEF K, n, r, snt
  <2>3. Tracks(sealed', wire', DOMAIN wire', Len(peerTaken), r)
    <3>1. Grows(K, n, sealed, wire, DOMAIN wire, Len(peerTaken), r, sealed', wire', DOMAIN wire')
      BY <1>1, <1>3, <1>4, <1>6, <1>7, <1>8, <2>1, Zenon DEF Grows
    <3> QED
      BY <3>1, OneMore, Zenon
  <2> QED
    BY <1>0, <1>9, <2>1, <2>3, Zenon DEF WireInv, r, n
<1> QED
  BY <1>5, <1>6

\* The peer reads the record it expects, unless one was lost.
LEMMA WireReads ==
  ASSUME OutTypeOK, OutAhead, OutStream!StreamInv, WireInv, PeerReads
  PROVE  WireInv'
<1> DEFINE K == Len(sealed)  n == Len(wire)  m == Len(peerTaken)
<1>1. /\ K \in Nat /\ n \in Nat /\ DOMAIN sealed = 1..K /\ DOMAIN wire = 1..n /\ m \in 0..K
      /\ \A k \in 1..K : sealed[k].pos \in Place /\ Before(sealed[k].pos, Spent(out))
      /\ \A k, l \in 1..K : k < l => Before(sealed[k].pos, sealed[l].pos)
      /\ Spent(out) \in Place
      /\ peerIn = IF m < K THEN sealed[m + 1].pos ELSE Spent(out)
  BY OutFacts, Zenon
<1>0. n \in Nat /\ DOMAIN wire = 1..n
  BY <1>1, Zenon
<1>2. /\ ~peerErr /\ read \in Nat /\ read + 1 \in DOMAIN wire /\ read' = read + 1 /\ read' <= n
      /\ UNCHANGED <<sealed, wire>>
  <2>1. /\ ~peerErr /\ read \in Nat /\ read < n /\ read' = read + 1 /\ UNCHANGED <<sealed, wire>>
    BY Zenon DEF PeerReads, OutTypeOK, outVars
  <2>2. read + 1 \in 1..n /\ read + 1 <= n
    BY <1>0, <2>1
  <2> QED
    BY <1>0, <2>1, <2>2, Zenon
<1>3. Tracks(sealed, wire, DOMAIN wire, m, read)
  BY <1>2 DEF WireInv
<1> HIDE DEF K, n, m
<1>6. Unread(K, n, sealed, wire, DOMAIN wire, m, read)
  BY <1>1, <1>2, <1>3, Zenon DEF Unread
<1>4. CASE wire[read + 1].pos = peerIn
  <2>1. peerTaken' = Append(peerTaken, wire[read + 1].body) /\ peerErr' = peerErr
    BY <1>2, <1>4 DEF PeerReads
  <2>2. Len(peerTaken') = m + 1
    <3>1. peerTaken \in Seq(Bodies) /\ wire[read + 1].body \in Bodies
      <4>1. wire[read + 1] \in WireRecord
        BY <1>2 DEF OutTypeOK
      <4> QED
        BY <4>1 DEF OutStream!StreamInv, OutStream!StreamTypeOK, WireRecord
    <3> QED
      BY <2>1, <3>1, AppendFacts DEF m
  <2>3. PICK k \in 1..K : sealed[k].pos = wire[read + 1].pos
    BY <1>1, <1>2, <1>3, Zenon DEF Tracks
  <2>4. FirstNotTaken(K, sealed, wire, m, read)
    BY <1>1, <1>4, <2>3, BeforeOrders, Zenon DEF FirstNotTaken
  <2>5. Tracks(sealed, wire, DOMAIN wire, m + 1, read + 1)
    BY <1>6, <2>4, NextRead, Zenon
  <2> QED
    BY <1>2, <2>1, <2>2, <2>5 DEF WireInv, n
<1>5. CASE wire[read + 1].pos # peerIn
  <2>1. peerErr' = TRUE /\ peerTaken' = peerTaken
    BY <1>2, <1>5 DEF PeerReads
  <2>2. ~AllSent(sealed)
    <3>1. AllSent(sealed) => FirstNotTaken(K, sealed, wire, m, read)
      BY <1>6, FirstUnread, Zenon
    <3> QED
      BY <1>1, <1>5, <3>1, Zenon DEF FirstNotTaken
  <2>3. read' - 1 = read /\ read' # 0
    BY <1>2
  <2> QED
    BY <1>2, <1>3, <2>1, <2>2, <2>3 DEF WireInv, n, m
<1> QED
  BY <1>4, <1>5

\* The peer puts a protected record on the incoming wire.
LEMMA PeerWireGrows ==
  ASSUME InInv, InInv', InStream!StreamInv, PeerWireInv, NEW b \in PeerBodies, PeerSends(b), b # Ccs
  PROVE  PeerWireInv'
<1> DEFINE K == Len(peerSealed)  n == Len(peerWire)  m == Len(taken)
           r == [pos |-> peerOut, body |-> b, sent |-> TRUE]
<1>1. /\ K \in Nat /\ n \in Nat /\ DOMAIN peerSealed = 1..K /\ DOMAIN peerWire = 1..n /\ m \in 0..K
      /\ Protected \subseteq 1..n
      /\ \A k \in 1..K : peerSealed[k].pos \in Place /\ Before(peerSealed[k].pos, peerOut)
      /\ peerOut \in Place
  BY InFacts DEF InInv
<1>0. r \in Record /\ r \in PeerRecord
  <2>1. b \in Bodies
    BY PeerBodiesAre, Zenon DEF PeerSends
  <2> QED
    BY <2>1, Zenon DEF Record, PeerRecord, InInv, InTypeOK
<1>2. /\ peerSealed' = Append(peerSealed, r) /\ peerWire' = Append(peerWire, r)
      /\ UNCHANGED <<taken, seen>>
      /\ r.pos = peerOut /\ r.sent /\ r.body # Ccs
  BY DEF PeerSends, readVars
<1> HIDE DEF r
<1>3. /\ DOMAIN peerSealed' = 1..(K + 1) /\ peerSealed'[K + 1] = r
      /\ \A k \in 1..K : peerSealed'[k] = peerSealed[k]
      /\ Len(peerWire') = n + 1 /\ DOMAIN peerWire' = 1..(n + 1) /\ peerWire'[n + 1] = r
      /\ \A i \in 1..n : peerWire'[i] = peerWire[i]
  <2>1. r \in Record /\ r \in PeerRecord /\ peerSealed \in Seq(Record) /\ peerWire \in Seq(PeerRecord)
    BY <1>0, <1>2 DEF InInv, InTypeOK
  <2>2. /\ Longer(peerSealed, K, peerSealed', r)
        /\ Len(peerWire') = n + 1 /\ Longer(peerWire, n, peerWire', r)
    BY <1>2, <2>1, Appended, Zenon
  <2> QED
    BY <2>2, Zenon DEF Longer
<1>d. \A i : i \in 1..(n + 1) <=> i \in 1..n \/ i = n + 1
  BY <1>1
<1>s. n \in Nat /\ seen \in Nat /\ seen <= n /\ Len(peerWire') = n + 1
  BY <1>1, <1>3, Zenon DEF PeerWireInv, InInv, InTypeOK
<1>5. seen \in 0..n
  BY <1>s
<1>8. seen' <= Len(peerWire')
  BY <1>2, <1>s
<1> HIDE DEF K, n, m
<1>4. Protected' = Protected \cup {n + 1}
  <2>1. \A i \in 1..n : peerWire'[i].body = peerWire[i].body
    BY <1>3, Zenon
  <2>2. peerWire'[n + 1].body # Ccs
    BY <1>2, <1>3, Zenon
  <2> QED
    BY <1>1, <1>3, <1>d, <2>1, <2>2, Zenon DEF Protected
<1>t. Tracks(peerSealed, peerWire, Protected, m, seen)
  BY Zenon DEF PeerWireInv, m
<1>6. Grows(K, n, peerSealed, peerWire, Protected, m, seen, peerSealed', peerWire', Protected')
  BY <1>1, <1>2, <1>3, <1>4, <1>5, <1>t, Zenon DEF Grows
<1>7. Tracks(peerSealed', peerWire', Protected', m, seen)
  BY <1>6, OneMore, Zenon
<1>9. AllSent(peerSealed)'
  <2>1. \A k \in 1..(K + 1) : k \in 1..K \/ k = K + 1
    BY <1>1
  <2> QED
    BY <1>1, <1>2, <1>3, <2>1, Zenon DEF PeerWireInv, AllSent
<1> QED
  BY <1>2, <1>7, <1>8, <1>9 DEF PeerWireInv, m

\* An unprotected record on the incoming wire.
LEMMA PeerWirePlain ==
  ASSUME InInv, InStream!StreamInv, PeerWireInv, PeerSendsCcs
  PROVE  PeerWireInv'
<1> DEFINE n == Len(peerWire)
           r == [pos |-> peerOut, body |-> Ccs, sent |-> TRUE]
<1>1. n \in Nat /\ DOMAIN peerWire = 1..n /\ seen \in Nat
  BY InFacts, Zenon DEF InInv, InTypeOK
<1>0. r \in PeerRecord
  BY Zenon DEF PeerRecord, InInv, InTypeOK
<1>2. /\ peerWire' = Append(peerWire, r) /\ UNCHANGED <<peerSealed, taken, seen>> /\ r.body = Ccs
  BY Zenon DEF PeerSendsCcs, readVars
<1> HIDE DEF r
<1>3. /\ Len(peerWire') = n + 1 /\ DOMAIN peerWire' = 1..(n + 1) /\ peerWire'[n + 1] = r
      /\ \A i \in 1..n : peerWire'[i] = peerWire[i]
  <2>1. r \in PeerRecord /\ peerWire \in Seq(PeerRecord)
    BY <1>0 DEF InInv, InTypeOK
  <2>2. Len(peerWire') = n + 1 /\ Longer(peerWire, n, peerWire', r)
    BY <1>2, <2>1, Appended, Zenon
  <2> QED
    BY <2>2, Zenon DEF Longer
<1>6. seen' <= Len(peerWire')
  <2>1. seen <= n /\ Len(peerWire') = n + 1 /\ seen' = seen
    BY <1>2, <1>3, Zenon DEF PeerWireInv
  <2> QED
    BY <1>1, <2>1
<1>d. \A i \in 1..(n + 1) : i \in 1..n \/ i = n + 1
  BY <1>1
<1>e. \A i \in 1..n : i \in 1..(n + 1)
  BY <1>1
<1> HIDE DEF n
<1>4. Protected' = Protected /\ \A i \in Protected : peerWire'[i] = peerWire[i]
  <2>1. \A i \in 1..n : peerWire'[i].body = peerWire[i].body
    BY <1>3, Zenon
  <2>2. peerWire'[n + 1].body = Ccs
    BY <1>2, <1>3, Zenon
  <2> QED
    BY <1>1, <1>3, <1>d, <1>e, <2>1, <2>2, Zenon DEF Protected
<1>5. Tracks(peerSealed', peerWire', Protected', Len(taken'), seen')
  <2> DEFINE m == Len(taken)
  <2>1. Tracks(peerSealed, peerWire, Protected, m, seen)
    BY DEF PeerWireInv
  <2> HIDE DEF m
  <2>2. Tracks(peerSealed, peerWire', Protected, m, seen)
    BY <1>4, <2>1, TracksSame, Zenon
  <2> QED
    BY <1>2, <1>4, <2>2, Zenon DEF m
<1> QED
  BY <1>2, <1>5, <1>6, Zenon DEF PeerWireInv, AllSent

\* This side meets only records it can open.
LEMMA MeetsExpected ==
  ASSUME InInv, InStream!StreamInv, PeerWireInv, Incoming, NextRecord.body # Ccs
  PROVE  /\ Opens
         /\ Unread(Len(peerSealed), Len(peerWire), peerSealed, peerWire, Protected, Len(taken), seen)
         /\ FirstNotTaken(Len(peerSealed), peerSealed, peerWire, Len(taken), seen)
<1> DEFINE K == Len(peerSealed)  n == Len(peerWire)  m == Len(taken)
<1>1. /\ K \in Nat /\ n \in Nat /\ DOMAIN peerSealed = 1..K /\ DOMAIN peerWire = 1..n /\ m \in 0..K
      /\ Protected \subseteq 1..n
      /\ \A k \in 1..K : peerSealed[k].pos \in Place
      /\ \A k, l \in 1..K : k < l => Before(peerSealed[k].pos, peerSealed[l].pos)
      /\ Pending(in) = IF m < K THEN peerSealed[m + 1].pos ELSE peerOut
  BY InFacts, Zenon DEF InInv
<1> HIDE DEF K, n, m
<1>2. seen \in Nat /\ seen + 1 \in Protected
  BY <1>1 DEF InInv, InTypeOK, Incoming, NextRecord, Protected, n
<1>3. Pending(in) = in
  BY Zenon DEF InInv, HandAgrees, Incoming, Idle, NoMessage, UpdateWaits, Pending
<1>4. Unread(K, n, peerSealed, peerWire, Protected, m, seen)
  BY <1>1, <1>2, Zenon DEF Unread, PeerWireInv, m
<1>5. FirstNotTaken(K, peerSealed, peerWire, m, seen)
  BY <1>4, FirstUnread, Zenon DEF PeerWireInv
<1>6. Opens
  BY <1>1, <1>3, <1>5, Zenon DEF FirstNotTaken, Opens, NextRecord
<1> QED
  BY <1>4, <1>5, <1>6 DEF K, n, m

\* decrypt keeps the incoming wire in step.
LEMMA PeerWireDecrypts ==
  ASSUME InInv, InStream!StreamInv, PeerWireInv, Incoming, NextRecord.body # Ccs, Decrypt,
         UNCHANGED <<peerSealed, peerWire>>
  PROVE  PeerWireInv'
<1> DEFINE K == Len(peerSealed)  n == Len(peerWire)  m == Len(taken)
<1>1. /\ Unread(K, n, peerSealed, peerWire, Protected, m, seen)
      /\ FirstNotTaken(K, peerSealed, peerWire, m, seen)
  BY MeetsExpected
<1>2. Tracks(peerSealed, peerWire, Protected, m + 1, seen + 1)
  BY <1>1, NextRead, Zenon
<1>3. seen' = seen + 1 /\ seen' <= n
  BY DEF Decrypt, Incoming, InInv, InTypeOK
<1>4. Len(taken') = m + 1
  <2>1. NextRecord \in PeerRecord
    BY DEF Incoming, InInv, InTypeOK, NextRecord
  <2>2. NextRecord.body \in Bodies /\ taken \in Seq(Bodies)
    BY <2>1 DEF PeerRecord, InInv, InTypeOK
  <2>3. taken' = Append(taken, NextRecord.body)
    BY Zenon DEF Decrypt
  <2> QED
    BY <2>2, <2>3, Appended, Zenon
<1>5. Protected' = Protected
  BY Zenon DEF Protected
<1> QED
  BY <1>2, <1>3, <1>4, <1>5 DEF PeerWireInv

\* So does an ignored ChangeCipherSpec.
LEMMA PeerWireSkips ==
  ASSUME InInv, PeerWireInv, Incoming, NextRecord.body = Ccs, seen' = seen + 1,
         UNCHANGED <<peerSealed, peerWire, taken>>
  PROVE  PeerWireInv'
<1>1. seen \in Nat /\ seen + 1 \notin Protected /\ Protected' = Protected
      /\ \A i \in Protected : i \in Nat
  BY DEF InInv, InTypeOK, NextRecord, Protected
<1>2. \A i \in Protected : i <= seen + 1 <=> i <= seen
  BY <1>1
<1>3. Tracks(peerSealed, peerWire, Protected, Len(taken), seen + 1)
  BY <1>2, Zenon DEF PeerWireInv, Tracks
<1>4. seen + 1 <= Len(peerWire)
  BY <1>1 DEF Incoming, InInv, InTypeOK
<1> QED
  BY <1>1, <1>3, <1>4, Zenon DEF PeerWireInv

\* Steps that leave a wire, and how far it is read, alone.
LEMMA WiresIdle ==
  /\ WireInv /\ UNCHANGED <<sealed, wire, peerTaken, peerErr, read>> => WireInv'
  /\ PeerWireInv /\ UNCHANGED <<peerSealed, peerWire, taken, seen>> => PeerWireInv'
<1>1. ASSUME WireInv, UNCHANGED <<sealed, wire, peerTaken, peerErr, read>> PROVE WireInv'
  BY <1>1 DEF WireInv
<1>2. ASSUME PeerWireInv, UNCHANGED <<peerSealed, peerWire, taken, seen>> PROVE PeerWireInv'
  BY <1>2 DEF PeerWireInv, Protected
<1> QED
  BY <1>1, <1>2

\* Every step keeps both wires in step.
LEMMA WiresStep ==
  ASSUME LayerInv, LayerInv', StreamsIntact, WireInv, PeerWireInv, [Next]_vars
  PROVE  WireInv' /\ PeerWireInv'
<1>0. /\ OutTypeOK /\ OutAhead /\ OutStream!StreamInv
      /\ InInv /\ InInv' /\ InStream!StreamInv
  BY DEF LayerInv, OutInv, StreamsIntact
<1>1. ASSUME NEW ok \in BOOLEAN, WriteFragment(ok) \/ CloseNotify(ok) \/ Reply(ok) \/ SendAlert(ok)
      PROVE  WireInv' /\ PeerWireInv'
  <2>1. /\ \E b \in Bodies : WriteRecordLocked(b, ok)
        /\ ~panicked /\ UNCHANGED <<peerTaken, peerErr, read>>
        /\ UNCHANGED <<peerSealed, peerWire, taken, seen>>
    <3>1. ASSUME WriteFragment(ok) PROVE Data(writes, writing) \in Bodies
      <4>1. writes \in 1..(MaxWrites + MaxPeer) /\ writing \in 1..MaxFragments
        BY <3>1, BoundsAssumption DEF WriteFragment, LayerInv, OutInv, WriteTypeOK
      <4> QED
        BY <4>1, BodyFacts, Zenon
    <3>2. /\ Alert("close_notify") \in Bodies /\ Alert("fatal") \in Bodies
          /\ Handshake(0, "update") \in Bodies
      BY BodyFacts, Zenon DEF Alerts, HandshakeBodies, Updates
    <3>3. \E b \in Bodies : WriteRecordLocked(b, ok)
      BY <1>1, <3>1, <3>2, Zenon DEF WriteFragment, CloseNotify, Reply, SendAlert
    <3> QED
      BY <1>1, <3>3, Zenon DEF WriteFragment, CloseNotify, Reply, SendAlert, peerVars, readVars
  <2>2. WireInv'
    BY <1>0, <2>1, WireWrites
  <2> QED
    BY <2>1, <2>2, WiresIdle
<1>2. CASE ReadEmpty \/ ReadAlert \/ ReadHandshake \/ ReadData
  <2>1. /\ Incoming /\ NextRecord.body # Ccs /\ Decrypt
        /\ UNCHANGED <<sealed, wire, peerTaken, peerErr, read>> /\ UNCHANGED <<peerSealed, peerWire>>
    BY <1>2 DEF ReadEmpty, ReadAlert, ReadHandshake, ReadData, outVars, peerVars, Ccs, Empty, Alerts
  <2>2. PeerWireInv'
    BY <1>0, <2>1, PeerWireDecrypts
  <2> QED
    BY <2>1, <2>2, WiresIdle
<1>3. CASE ReadCcs
  <2>1. /\ Incoming /\ NextRecord.body = Ccs /\ seen' = seen + 1
        /\ UNCHANGED <<sealed, wire, peerTaken, peerErr, read>> /\ UNCHANGED <<peerSealed, peerWire, taken>>
    BY <1>3 DEF ReadCcs, outVars, peerVars
  <2>2. PeerWireInv'
    BY <1>0, <2>1, PeerWireSkips
  <2> QED
    BY <2>1, <2>2, WiresIdle
<1>4. CASE \/ WriteCall \/ BadRecord \/ (\E waits \in BOOLEAN : TakeInput(waits))
           \/ ReadEOF \/ HandleMessage \/ UNCHANGED vars
  <2>1. /\ UNCHANGED <<sealed, wire, peerTaken, peerErr, read>>
        /\ UNCHANGED <<peerSealed, peerWire, taken, seen>>
    BY <1>4, Zenon DEF WriteCall, BadRecord, TakeInput, ReadEOF, HandleMessage, vars, outVars, peerVars, readVars
  <2> QED
    BY <2>1, WiresIdle
<1>5. CASE PeerReads
  <2>1. WireInv'
    BY <1>0, <1>5, WireReads
  <2>2. UNCHANGED <<peerSealed, peerWire, taken, seen>>
    BY <1>5, Zenon DEF PeerReads, readVars
  <2> QED
    BY <2>1, <2>2, WiresIdle
<1>6. CASE PeerSendsCcs
  <2>1. UNCHANGED <<sealed, wire, peerTaken, peerErr, read>>
    BY <1>6 DEF PeerSendsCcs, outVars
  <2>2. PeerWireInv'
    BY <1>0, <1>6, PeerWirePlain
  <2> QED
    BY <2>1, <2>2, WiresIdle
<1>7. ASSUME NEW b \in PeerBodies, PeerSends(b) PROVE WireInv' /\ PeerWireInv'
  <2>1. UNCHANGED <<sealed, wire, peerTaken, peerErr, read>>
    BY <1>7 DEF PeerSends, outVars
  <2>2. b # Ccs
    <3>1. b[1] # "ccs"
      BY DEF PeerBodies, HandshakeBodies, Data, Empty, Alert, Handshake
    <3> QED
      BY <3>1 DEF Ccs
  <2>3. PeerWireInv'
    BY <1>0, <1>7, <2>2, PeerWireGrows
  <2> QED
    BY <2>1, <2>3, WiresIdle
<1> QED
  BY <1>1, <1>2, <1>3, <1>4, <1>5, <1>6, <1>7, Zenon DEF Next, WriterStep, ReaderStep

\* Both wires are empty at first.
LEMMA WiresStart == Init => WireInv /\ PeerWireInv
<1> SUFFICES ASSUME Init PROVE WireInv /\ PeerWireInv
  OBVIOUS
<1>1. WireInv
  <2>1. sealed = << >> /\ wire = << >> /\ peerTaken = << >> /\ read = 0 /\ peerErr = FALSE
    BY Zenon DEF Init
  <2>2. DOMAIN sealed = {} /\ DOMAIN wire = {} /\ Len(wire) = 0 /\ 0 <= 0
    BY <2>1
  <2> QED
    BY <2>1, <2>2, Zenon DEF WireInv, Tracks
<1>2. PeerWireInv
  <2>1. peerSealed = << >> /\ peerWire = << >> /\ seen = 0
    BY Zenon DEF Init
  <2>2. DOMAIN peerSealed = {} /\ DOMAIN peerWire = {} /\ Len(peerWire) = 0 /\ 0 <= 0
    BY <2>1
  <2> QED
    BY <2>1, <2>2, Zenon DEF PeerWireInv, Protected, Tracks, AllSent
<1> QED
  BY <1>1, <1>2

\* Key updates never make the two sides disagree: this side can open whatever the peer
\* sends next, and the peer fails to open a record only after one was lost.
THEOREM LayerAgrees == Spec => []DisagreeOnlyAfterLoss
<1>1. Init => WireInv /\ PeerWireInv
  BY WiresStart
<1>2. LayerInv /\ LayerInv' /\ StreamsIntact /\ WireInv /\ PeerWireInv /\ [Next]_vars =>
        WireInv' /\ PeerWireInv'
  BY WiresStep
<1>3. LayerInv /\ StreamsIntact /\ WireInv /\ PeerWireInv => DisagreeOnlyAfterLoss
  BY MeetsExpected DEF DisagreeOnlyAfterLoss, WireInv, AllSent, LayerInv, StreamsIntact
<1>4. Init => LayerInv
  BY LayerStart
<1>5. LayerInv /\ [Next]_vars => LayerInv'
  BY LayerStep
<1> QED
  BY <1>1, <1>2, <1>3, <1>4, <1>5, LayerIntact, PTL DEF Spec

-----------------------------------------------------------------------------
(* What Read returns.                                                      *)

Delivered == got \o held \o input
SeenBodies == [i \in 1..seen |-> peerWire[i].body]

\* What is on its way to the callers of Read is the data accepted, and the data among
\* what was read; only the last record of the peer can end the connection, and an EOF
\* is reported only after it.
DataInv ==
    /\ got \in Seq(Bodies) /\ held \in Seq(Bodies) /\ input \in Seq(Bodies)
    /\ DataOf(Delivered, taken) /\ DataOf(Delivered, SeenBodies)
    /\ \A i \in DOMAIN peerWire :
         peerWire[i].body \in {Alert("close_notify"), Alert("fatal")} => i = Len(peerWire)
    /\ inErr = "EOF" => seen = Len(peerWire) /\ PeerEnded /\ held = << >> /\ input = << >>

\* Anything but data leaves the data among a sequence as it was.
LEMMA DataSame ==
  ASSUME NEW d, NEW s, NEW n, NEW t, NEW e, Longer(s, n, t, e), ~IsData(e), DataOf(d, s)
  PROVE  DataOf(d, t)
<1>a. n \in Nat /\ DOMAIN s = 1..n /\ DOMAIN t = 1..(n + 1)
  BY Zenon DEF Longer
<1>b. \A i \in 1..n : t[i] = s[i]
  BY Zenon DEF Longer
<1>c. t[n + 1] = e
  BY Zenon DEF Longer
<1>d. n + 1 \notin 1..n /\ 1..n \subseteq 1..(n + 1) /\ \A i \in 1..(n + 1) : i \in 1..n \/ i = n + 1
  BY <1>a
<1>1. PICK at \in [DOMAIN d -> DOMAIN s] :
        /\ \A k, l \in DOMAIN d : k < l => at[k] < at[l]
        /\ \A k \in DOMAIN d : d[k] = s[at[k]]
        /\ \A i \in DOMAIN s : IsData(s[i]) <=> \E k \in DOMAIN d : at[k] = i
  BY Zenon DEF DataOf
<1>2. \A k \in DOMAIN d : at[k] \in 1..n
  BY <1>a, Zenon
<1>3. at \in [DOMAIN d -> DOMAIN t]
  BY <1>a, <1>d, Zenon
<1>4. \A k \in DOMAIN d : d[k] = t[at[k]]
  BY <1>1, <1>2, <1>b, Zenon
<1>5. ASSUME NEW i \in DOMAIN t PROVE IsData(t[i]) <=> \E k \in DOMAIN d : at[k] = i
  <2>1. CASE i = n + 1
    BY <1>2, <1>c, <1>d, <2>1, Zenon
  <2>2. CASE i \in 1..n
    BY <1>1, <1>a, <1>b, <2>2, Zenon
  <2> QED
    BY <1>a, <1>d, <2>1, <2>2, Zenon
<1> QED
  BY <1>1, <1>3, <1>4, <1>5, Zenon DEF DataOf

\* Data is added at the end.
LEMMA DataMore ==
  ASSUME NEW d, NEW m, NEW c, NEW s, NEW n, NEW t, NEW e,
         Longer(d, m, c, e), Longer(s, n, t, e), IsData(e), DataOf(d, s)
  PROVE  DataOf(c, t)
<1>a. n \in Nat /\ DOMAIN s = 1..n /\ DOMAIN t = 1..(n + 1)
  BY Zenon DEF Longer
<1>b. (\A i \in 1..n : t[i] = s[i]) /\ t[n + 1] = e
  BY Zenon DEF Longer
<1>c. m \in Nat /\ DOMAIN d = 1..m /\ DOMAIN c = 1..(m + 1)
  BY Zenon DEF Longer
<1>d. (\A i \in 1..m : c[i] = d[i]) /\ c[m + 1] = e
  BY Zenon DEF Longer
<1>e. /\ \A k : k \in 1..(m + 1) <=> k \in 1..m \/ k = m + 1
      /\ \A i : i \in 1..(n + 1) <=> i \in 1..n \/ i = n + 1
  BY <1>a, <1>c
<1>f. \A i \in 1..n : i < n + 1 /\ i # n + 1
  BY <1>a
<1>g. \A k \in 1..(m + 1), l \in 1..(m + 1) : k < l => k \in 1..m
  BY <1>c
<1>1. PICK at \in [DOMAIN d -> DOMAIN s] :
        /\ \A k, l \in DOMAIN d : k < l => at[k] < at[l]
        /\ \A k \in DOMAIN d : d[k] = s[at[k]]
        /\ \A i \in DOMAIN s : IsData(s[i]) <=> \E k \in DOMAIN d : at[k] = i
  BY Zenon DEF DataOf
<1> DEFINE to == [k \in 1..(m + 1) |-> IF k = m + 1 THEN n + 1 ELSE at[k]]
<1>2. \A k \in 1..m : at[k] \in 1..n
  BY <1>a, <1>c, Zenon
<1>3. to \in [DOMAIN c -> DOMAIN t]
  BY <1>2, <1>a, <1>c
<1>h. to[m + 1] = n + 1
  BY <1>c
<1>i. \A k \in 1..m : to[k] = at[k]
  BY <1>c
<1> HIDE DEF to
<1>4. ASSUME NEW k \in 1..(m + 1), NEW l \in 1..(m + 1), k < l PROVE to[k] < to[l]
  <2>1. k \in 1..m
    BY <1>4, <1>g, Zenon
  <2>2. CASE l = m + 1
    BY <1>2, <1>f, <1>h, <1>i, <2>1, <2>2, Zenon
  <2>3. CASE l \in 1..m
    BY <1>1, <1>4, <1>c, <1>i, <2>1, <2>3, Zenon
  <2> QED
    BY <1>e, <2>2, <2>3, Zenon
<1>5. ASSUME NEW k \in 1..(m + 1) PROVE c[k] = t[to[k]]
  <2>1. CASE k = m + 1
    BY <1>b, <1>d, <1>h, <2>1, Zenon
  <2>2. CASE k \in 1..m
    <3>1. c[k] = d[k] /\ d[k] = s[at[k]] /\ to[k] = at[k] /\ at[k] \in 1..n
      BY <1>1, <1>2, <1>c, <1>d, <1>i, <2>2, Zenon
    <3>2. t[at[k]] = s[at[k]]
      BY <1>b, <3>1, Zenon
    <3> QED
      BY <3>1, <3>2, Zenon
  <2> QED
    BY <1>e, <2>1, <2>2, Zenon
<1>6. ASSUME NEW i \in 1..(n + 1) PROVE IsData(t[i]) <=> \E k \in 1..(m + 1) : to[k] = i
  <2>1. CASE i = n + 1
    BY <1>b, <1>e, <1>h, <2>1, Zenon
  <2>2. CASE i \in 1..n
    <3>1. IsData(t[i]) <=> \E k \in 1..m : at[k] = i
      BY <1>1, <1>a, <1>b, <1>c, <2>2, Zenon
    <3>2. i # n + 1
      BY <1>f, <2>2, Zenon
    <3> QED
      BY <1>e, <1>h, <1>i, <3>1, <3>2, Zenon
  <2> QED
    BY <1>e, <2>1, <2>2, Zenon
<1>7. /\ \A k, l \in DOMAIN c : k < l => to[k] < to[l]
      /\ \A k \in DOMAIN c : c[k] = t[to[k]]
      /\ \A i \in DOMAIN t : IsData(t[i]) <=> \E k \in DOMAIN c : to[k] = i
  BY <1>4, <1>5, <1>6, <1>a, <1>c, Zenon
<1> QED
  BY <1>3, <1>7, Zenon DEF DataOf

\* Joining sequences.
LEMMA JoinFacts ==
  ASSUME NEW S, NEW s \in Seq(S), NEW t \in Seq(S)
  PROVE  /\ s \o t \in Seq(S) /\ s \o << >> = s /\ << >> \in Seq(S)
         /\ Len(s) \in Nat /\ DOMAIN s = 1..Len(s)
         /\ \A e \in S : /\ <<e>> \in Seq(S)
                         /\ Longer(s, Len(s), s \o <<e>>, e) /\ Longer(s, Len(s), Append(s, e), e)
<1>1. s \o t \in Seq(S) /\ s \o << >> = s /\ << >> \in Seq(S) /\ Len(s) \in Nat /\ DOMAIN s = 1..Len(s)
  OBVIOUS
<1>2. ASSUME NEW e \in S PROVE <<e>> \in Seq(S) /\ s \o <<e>> = Append(s, e)
  OBVIOUS
<1>3. \A e \in S : Longer(s, Len(s), Append(s, e), e)
  BY Appended, Zenon
<1> QED
  BY <1>1, <1>2, <1>3, Zenon

\* What decrypt accepts that is not data.
LEMMA NotDataRead ==
  ASSUME InInv, PeerWireInv, DataInv, Incoming, seen' = seen + 1, ~IsData(NextRecord.body),
         UNCHANGED <<peerWire, Delivered>>,
         \/ taken' = taken
         \/ NextRecord.body # Ccs /\ taken' = Append(taken, NextRecord.body)
  PROVE  DataOf(Delivered', taken') /\ DataOf(Delivered', SeenBodies')
<1> DEFINE n == Len(taken)
<1>1. /\ seen \in Nat /\ seen + 1 \in DOMAIN peerWire /\ peerWire[seen + 1] = NextRecord
      /\ n \in Nat /\ DOMAIN taken = 1..n /\ taken \in Seq(Bodies)
  BY DEF InInv, InTypeOK, Incoming, NextRecord
<1>2. DataOf(Delivered, taken')
  <2>1. CASE taken' = taken
    BY <2>1 DEF DataInv
  <2>2. CASE NextRecord.body # Ccs /\ taken' = Append(taken, NextRecord.body)
    <3>1. NextRecord \in PeerRecord
      BY <1>1 DEF InInv, InTypeOK
    <3>2. NextRecord.body \in Bodies
      BY <2>2, <3>1 DEF PeerRecord
    <3>3. Longer(taken, n, taken', NextRecord.body)
      BY <1>1, <2>2, <3>2, JoinFacts, Zenon
    <3>4. DataOf(Delivered, taken)
      BY DEF DataInv
    <3> HIDE DEF n
    <3> QED
      BY <3>3, <3>4, DataSame, Zenon
  <2> QED
    BY <2>1, <2>2
<1>3. DataOf(Delivered, SeenBodies')
  <2>1. Longer(SeenBodies, seen, SeenBodies', NextRecord.body)
    BY <1>1 DEF SeenBodies, Longer
  <2>2. DataOf(Delivered, SeenBodies)
    BY DEF DataInv
  <2> QED
    BY <2>1, <2>2, DataSame, Zenon
<1> QED
  BY <1>2, <1>3

\* What decrypt accepts that is data goes to c.input.
LEMMA DataRead ==
  ASSUME InInv, PeerWireInv, DataInv, ReadData
  PROVE  /\ input' \in Seq(Bodies)
         /\ DataOf(Delivered', taken') /\ DataOf(Delivered', SeenBodies')
<1> DEFINE n == Len(taken)  e == NextRecord.body  d == got \o held  m == Len(d)
<1>1. /\ seen \in Nat /\ seen + 1 \in DOMAIN peerWire /\ peerWire[seen + 1] = NextRecord
      /\ n \in Nat /\ DOMAIN taken = 1..n /\ taken \in Seq(Bodies)
      /\ seen' = seen + 1 /\ taken' = Append(taken, e) /\ peerWire' = peerWire
      /\ input = << >> /\ input' = <<e>> /\ got' = got /\ held' = held
      /\ e[1] = "data"
  <2>1. seen \in Nat /\ seen + 1 \in DOMAIN peerWire /\ n \in Nat /\ DOMAIN taken = 1..n
    BY DEF InInv, InTypeOK, Incoming, ReadData
  <2> QED
    BY <2>1, Zenon DEF InInv, InTypeOK, Incoming, NextRecord, ReadData, Decrypt, Idle, peerVars
<1>2. e \in Bodies /\ IsData(e)
  <2>1. NextRecord \in PeerRecord
    BY <1>1 DEF InInv, InTypeOK
  <2>2. e # Ccs
    BY <1>1 DEF Ccs
  <2> QED
    BY <1>1, <2>1, <2>2, Zenon DEF PeerRecord, IsData
<1>3. Longer(taken, n, taken', e)
  BY <1>1, <1>2, JoinFacts, Zenon
<1>4. Longer(SeenBodies, seen, SeenBodies', e)
  BY <1>1 DEF SeenBodies, Longer
<1> HIDE DEF e
<1>5. d \in Seq(Bodies)
  BY JoinFacts DEF DataInv
<1>6. Delivered = d /\ Delivered' = d \o <<e>>
  <2>1. Delivered = d \o << >> /\ Delivered' = d \o <<e>>
    BY <1>1 DEF Delivered
  <2> QED
    BY <1>5, <2>1, JoinFacts
<1> HIDE DEF d, n
<1>7. <<e>> \in Seq(Bodies) /\ Longer(d, m, d \o <<e>>, e)
  BY <1>2, <1>5, JoinFacts
<1> HIDE DEF m
<1>8. DataOf(d, taken) /\ DataOf(d, SeenBodies)
  BY <1>6 DEF DataInv
<1>9. DataOf(d \o <<e>>, taken')
  BY <1>2, <1>3, <1>7, <1>8, DataMore, Zenon
<1>10. DataOf(d \o <<e>>, SeenBodies')
  BY <1>2, <1>4, <1>7, <1>8, DataMore, Zenon
<1> QED
  BY <1>1, <1>6, <1>7, <1>9, <1>10

\* Returning what was copied, or copying what was read, changes only where it is.
LEMMA Moves ==
  ASSUME got \in Seq(Bodies), held \in Seq(Bodies), input \in Seq(Bodies)
  PROVE  /\ got \o held \in Seq(Bodies) /\ got \o input \in Seq(Bodies) /\ << >> \in Seq(Bodies)
         /\ (got \o held) \o << >> \o input = Delivered
         /\ held = << >> => got \o << >> \o input = Delivered
         /\ held = << >> => got \o input \o << >> = Delivered
         /\ held = << >> => (got \o input) \o << >> \o << >> = Delivered
<1>1. got \o held \in Seq(Bodies) /\ got \o input \in Seq(Bodies) /\ << >> \in Seq(Bodies)
  BY JoinFacts
<1>2. (got \o held) \o << >> = got \o held /\ (got \o input) \o << >> = got \o input /\ got \o << >> = got
  BY <1>1, JoinFacts
<1> QED
  BY <1>1, <1>2, Zenon DEF Delivered

\* What a step that reads a record does to the buffers of Read.
LEMMA FailsMoves ==
  ASSUME got \in Seq(Bodies), held \in Seq(Bodies), input \in Seq(Bodies), NEW e, Fails(e), input' = input
  PROVE  /\ got' \in Seq(Bodies) /\ held' = << >> /\ held' \in Seq(Bodies) /\ input' \in Seq(Bodies)
         /\ Delivered' = Delivered /\ inErr' = e
<1>1. got' = got \o held /\ held' = << >> /\ inErr' = e
  BY DEF Fails, Return
<1>2. Delivered' = (got \o held) \o << >> \o input
  BY <1>1 DEF Delivered
<1> QED
  BY <1>1, <1>2, Moves

\* Only data starts with "data", and an alert is what its name says.
LEMMA BodyNames ==
  /\ ~IsData(Ccs) /\ ~IsData(Empty)
  /\ \A b : b[1] \in Alerts \cup {"handshake"} => ~IsData(b) /\ b # Ccs
  /\ \A b \in Bodies, a \in Alerts : b[1] = a => b = Alert(a)
  /\ Empty # Ccs
<1>1. ~IsData(Ccs) /\ ~IsData(Empty) /\ Empty # Ccs
  BY DEF IsData, Ccs, Empty
<1>2. \A b : b[1] \in Alerts \cup {"handshake"} => ~IsData(b) /\ b # Ccs
  BY DEF IsData, Ccs, Alerts
<1>3. ASSUME NEW b \in Bodies, NEW a \in Alerts, b[1] = a PROVE b = Alert(a)
  BY <1>3 DEF Bodies, HandshakeBodies, Data, Empty, Alert, Alerts, Handshake
<1> QED
  BY <1>1, <1>2, <1>3

\* The steps of the reader that accept, or skip, a record other than data.
LEMMA ReadKeepsData ==
  ASSUME InInv, PeerWireInv, DataInv, ReadCcs \/ ReadEmpty \/ ReadAlert \/ ReadHandshake
  PROVE  DataInv'
<1>1. /\ Incoming /\ seen' = seen + 1 /\ UNCHANGED <<peerWire, input>>
      /\ input = << >> /\ inErr = "nil" /\ ~IsData(NextRecord.body)
      /\ \/ taken' = taken
         \/ NextRecord.body # Ccs /\ taken' = Append(taken, NextRecord.body)
  <2>1. ASSUME ReadCcs PROVE /\ Incoming /\ seen' = seen + 1 /\ UNCHANGED <<peerWire, input, taken>>
                             /\ NextRecord.body = Ccs
    BY <2>1, Zenon DEF ReadCcs, peerVars
  <2>2. ASSUME ReadEmpty \/ ReadAlert \/ ReadHandshake
        PROVE  /\ Incoming /\ seen' = seen + 1 /\ UNCHANGED <<peerWire, input>>
               /\ taken' = Append(taken, NextRecord.body)
               /\ NextRecord.body = Empty \/ NextRecord.body[1] \in Alerts \cup {"handshake"}
    BY <2>2 DEF ReadEmpty, ReadAlert, ReadHandshake, Decrypt, peerVars
  <2>3. Incoming => input = << >> /\ inErr = "nil"
    BY DEF Incoming, Idle
  <2> QED
    BY <2>1, <2>2, <2>3, BodyNames, Zenon
<1>2. got \in Seq(Bodies) /\ held \in Seq(Bodies) /\ input \in Seq(Bodies)
  BY DEF DataInv
<1>3. /\ UNCHANGED <<inErr, held, got>> \/ Fails("remote")
         \/ (Fails("EOF") /\ ReadAlert /\ NextRecord.body[1] = "close_notify")
  BY DEF ReadCcs, ReadEmpty, ReadAlert, ReadHandshake, Retry
<1>4. /\ got' \in Seq(Bodies) /\ held' \in Seq(Bodies) /\ input' \in Seq(Bodies)
      /\ Delivered' = Delivered
  <2>1. CASE UNCHANGED <<inErr, held, got>>
    BY <1>1, <1>2, <2>1 DEF Delivered
  <2>2. ASSUME NEW e, Fails(e)
        PROVE  /\ got' \in Seq(Bodies) /\ held' \in Seq(Bodies) /\ input' \in Seq(Bodies)
               /\ Delivered' = Delivered
    BY <1>1, <1>2, <2>2, FailsMoves
  <2> QED
    BY <1>3, <2>1, <2>2
<1>5. DataOf(Delivered', taken') /\ DataOf(Delivered', SeenBodies')
  BY <1>1, <1>4, NotDataRead
<1>6. \A i \in DOMAIN peerWire' :
        peerWire'[i].body \in {Alert("close_notify"), Alert("fatal")} => i = Len(peerWire')
  BY <1>1 DEF DataInv
<1>7. ASSUME inErr' = "EOF"
      PROVE  seen' = Len(peerWire') /\ PeerEnded' /\ held' = << >> /\ input' = << >>
  <2>1. Fails("EOF") /\ NextRecord.body[1] = "close_notify"
    BY <1>1, <1>3, <1>7, Zenon DEF Fails
  <2>2. seen \in Nat /\ seen + 1 \in DOMAIN peerWire /\ NextRecord = peerWire[seen + 1] /\ NextRecord \in PeerRecord
    BY <1>1 DEF Incoming, InInv, InTypeOK, NextRecord
  <2>3. NextRecord.body = Alert("close_notify")
    <3>1. NextRecord.body \in Bodies /\ "close_notify" \in Alerts
      BY <2>1, <2>2 DEF PeerRecord, Ccs, Alerts
    <3> QED
      BY <2>1, <3>1, BodyNames, Zenon
  <2>4. seen + 1 = Len(peerWire)
    BY <2>2, <2>3 DEF DataInv
  <2>5. PeerEnded
    BY <2>2, <2>3, <2>4 DEF PeerEnded
  <2> QED
    BY <1>1, <2>1, <2>4, <2>5, Zenon DEF PeerEnded, Fails
<1> QED
  BY <1>4, <1>5, <1>6, <1>7, Zenon DEF DataInv

\* Steps that read no record, and leave the wire alone.
LEMMA MoveKeepsData ==
  ASSUME DataInv, UNCHANGED <<peerWire, taken, seen, Delivered>>,
         got' \in Seq(Bodies), held' \in Seq(Bodies), input' \in Seq(Bodies),
         inErr' = "EOF" => inErr = "EOF" /\ UNCHANGED <<held, input>>
  PROVE  DataInv'
<1>1. SeenBodies' = SeenBodies /\ PeerEnded' = PeerEnded
  BY DEF SeenBodies, PeerEnded
<1> QED
  BY <1>1, Zenon DEF DataInv

\* What the peer sends does not change what was read, and nothing follows its end.
LEMMA SendKeepsData ==
  ASSUME InInv, PeerWireInv, DataInv, PeerReady, NEW r \in PeerRecord, peerWire' = Append(peerWire, r),
         UNCHANGED <<taken, seen, got, held, input, inErr>>
  PROVE  DataInv'
<1> DEFINE n == Len(peerWire)
<1>1. /\ n \in Nat /\ DOMAIN peerWire = 1..n /\ seen \in 0..n
      /\ Len(peerWire') = n + 1 /\ DOMAIN peerWire' = 1..(n + 1)
      /\ \A i \in 1..n : peerWire'[i] = peerWire[i]
  <2>1. peerWire \in Seq(PeerRecord) /\ seen \in Nat /\ seen <= n
    BY Zenon DEF InInv, InTypeOK, PeerWireInv
  <2>2. n \in Nat
    BY <2>1
  <2>3. seen \in 0..n
    BY <2>1, <2>2
  <2>4. Len(peerWire') = n + 1 /\ Longer(peerWire, n, peerWire', r)
    BY <2>1, Appended, Zenon
  <2> QED
    BY <2>3, <2>4, Zenon DEF Longer
<1>2. SeenBodies' = SeenBodies
  BY <1>1 DEF SeenBodies
<1>3. ~PeerEnded /\ inErr # "EOF"
  BY DEF PeerReady, DataInv
<1>4. \A i \in 1..n : peerWire[i].body \notin {Alert("close_notify"), Alert("fatal")}
  <2> SUFFICES ASSUME NEW i \in 1..n, peerWire[i].body \in {Alert("close_notify"), Alert("fatal")} PROVE FALSE
    OBVIOUS
  <2>1. i = n
    BY <1>1, Zenon DEF DataInv
  <2>2. peerWire # << >>
    BY <1>1
  <2> QED
    BY <1>3, <2>1, <2>2 DEF PeerEnded
<1>5. \A i \in DOMAIN peerWire' :
        peerWire'[i].body \in {Alert("close_notify"), Alert("fatal")} => i = Len(peerWire')
  <2> SUFFICES ASSUME NEW i \in 1..(n + 1), peerWire'[i].body \in {Alert("close_notify"), Alert("fatal")}
               PROVE  i = n + 1
    BY <1>1, Zenon
  <2>1. i \in 1..n => peerWire'[i].body = peerWire[i].body
    BY <1>1, Zenon
  <2>2. i \notin 1..n
    BY <1>4, <2>1, Zenon
  <2> QED
    BY <1>1, <2>2
<1>6. Delivered' = Delivered
  BY DEF Delivered
<1> QED
  BY <1>2, <1>3, <1>5, <1>6, Zenon DEF DataInv

\* Every step keeps what Read returns in order.
LEMMA DataStep ==
  ASSUME LayerInv, PeerWireInv, DataInv, [Next]_vars
  PROVE  DataInv'
<1>0. /\ InInv /\ got \in Seq(Bodies) /\ held \in Seq(Bodies) /\ input \in Seq(Bodies)
  BY DEF LayerInv, DataInv
<1>1. CASE ReadCcs \/ ReadEmpty \/ ReadAlert \/ ReadHandshake
  BY <1>0, <1>1, ReadKeepsData
<1>2. CASE ReadData
  <2>1. input' \in Seq(Bodies) /\ DataOf(Delivered', taken') /\ DataOf(Delivered', SeenBodies')
    BY <1>0, <1>2, DataRead
  <2>2. UNCHANGED <<peerWire, inErr, held, got>> /\ inErr = "nil"
    BY <1>2, Zenon DEF ReadData, peerVars, Incoming, Idle
  <2> QED
    BY <1>0, <2>1, <2>2, Zenon DEF DataInv
<1>3. ASSUME UNCHANGED <<peerWire, taken, seen, got, held, input, inErr>> PROVE DataInv'
  <2>1. Delivered' = Delivered
    BY <1>3 DEF Delivered
  <2> QED
    BY <1>0, <1>3, <2>1, MoveKeepsData
<1>4. CASE WriteCall \/ BadRecord \/ HandleMessage \/ PeerReads \/ UNCHANGED vars
  BY <1>3, <1>4 DEF WriteCall, BadRecord, HandleMessage, PeerReads, vars, peerVars, readVars
<1>5. ASSUME NEW ok \in BOOLEAN, WriteFragment(ok) \/ CloseNotify(ok) \/ Reply(ok) PROVE DataInv'
  BY <1>3, <1>5, Zenon DEF WriteFragment, CloseNotify, Reply, peerVars, readVars
<1>6. ASSUME NEW e, e # "EOF", Fails(e), UNCHANGED <<peerWire, taken, seen, input>> PROVE DataInv'
  <2>1. /\ got' \in Seq(Bodies) /\ held' \in Seq(Bodies) /\ input' \in Seq(Bodies)
        /\ Delivered' = Delivered /\ inErr' = e
    BY <1>0, <1>6, FailsMoves
  <2> QED
    BY <1>6, <2>1, MoveKeepsData
<1>7. ASSUME NEW ok \in BOOLEAN, SendAlert(ok) PROVE DataInv'
  BY <1>6, <1>7 DEF SendAlert, peerVars
<1>8. CASE ReadEOF
  BY <1>6, <1>8, Zenon DEF ReadEOF, peerVars
<1>9. ASSUME NEW waits \in BOOLEAN, TakeInput(waits) PROVE DataInv'
  <2>1. UNCHANGED <<peerWire, taken, seen, inErr>> /\ input # << >>
    BY <1>9, Zenon DEF TakeInput, peerVars
  <2>2. inErr # "EOF"
    BY <2>1 DEF DataInv
  <2>3. /\ got' \in Seq(Bodies) /\ held' \in Seq(Bodies) /\ input' \in Seq(Bodies)
        /\ Delivered' = Delivered
    <3>1. CASE held # << >>
      <4>1. got' = got \o held /\ held' = << >> /\ input' = input
        BY <1>9, <3>1 DEF TakeInput, Return
      <4>2. Delivered' = (got \o held) \o << >> \o input
        BY <4>1 DEF Delivered
      <4> QED
        BY <1>0, <4>1, <4>2, Moves
    <3>2. CASE held = << >> /\ waits
      <4>1. got' = got /\ held' = input /\ input' = << >>
        BY <1>9, <3>2 DEF TakeInput
      <4>2. Delivered' = got \o input \o << >>
        BY <4>1 DEF Delivered
      <4> QED
        BY <1>0, <3>2, <4>1, <4>2, Moves
    <3>3. CASE held = << >> /\ ~waits
      <4>1. got' = got \o input /\ held' = << >> /\ input' = << >>
        BY <1>9, <3>3, Zenon DEF TakeInput, Return
      <4>2. Delivered' = (got \o input) \o << >> \o << >>
        BY <4>1 DEF Delivered
      <4> QED
        BY <1>0, <3>3, <4>1, <4>2, Moves
    <3> QED
      BY <3>1, <3>2, <3>3
  <2> QED
    BY <2>1, <2>2, <2>3, MoveKeepsData
<1>10. CASE PeerSendsCcs
  <2> DEFINE r == [pos |-> peerOut, body |-> Ccs, sent |-> TRUE]
  <2>1. r \in PeerRecord
    BY <1>0, Zenon DEF PeerRecord, InInv, InTypeOK
  <2>2. /\ PeerReady /\ peerWire' = Append(peerWire, r)
        /\ UNCHANGED <<taken, seen, got, held, input, inErr>>
    BY <1>10, Zenon DEF PeerSendsCcs, readVars
  <2> QED
    BY <1>0, <2>1, <2>2, SendKeepsData, Zenon
<1>11. ASSUME NEW b \in PeerBodies, PeerSends(b) PROVE DataInv'
  <2> DEFINE r == [pos |-> peerOut, body |-> b, sent |-> TRUE]
  <2>1. /\ PeerReady /\ peerWire' = Append(peerWire, r)
        /\ UNCHANGED <<taken, seen, got, held, input, inErr>>
    BY <1>11 DEF PeerSends, readVars
  <2>2. b \in Bodies
    BY <1>0, <2>1, PeerBodiesAre, Zenon
  <2>3. r \in PeerRecord
    BY <1>0, <2>2, Zenon DEF PeerRecord, InInv, InTypeOK
  <2> QED
    BY <1>0, <2>1, <2>3, SendKeepsData, Zenon
<1> QED
  BY <1>1, <1>2, <1>4, <1>5, <1>7, <1>8, <1>9, <1>10, <1>11 DEF Next, WriterStep, ReaderStep

\* Nothing is read at first.
LEMMA DataStart == Init => DataInv
<1> SUFFICES ASSUME Init PROVE DataInv
  OBVIOUS
<1>1. got = << >> /\ held = << >> /\ input = << >> /\ taken = << >> /\ seen = 0 /\ peerWire = << >> /\ inErr = "nil"
  BY DEF Init
<1>2. << >> \in Seq(Bodies) /\ Delivered = << >>
  BY <1>1 DEF Delivered
<1>3. DataOf(<< >>, taken) /\ DataOf(<< >>, SeenBodies)
  <2>1. ASSUME NEW s, DOMAIN s = {} PROVE DataOf(<< >>, s)
    <3>1. << >> \in [DOMAIN << >> -> DOMAIN s] /\ DOMAIN << >> = {}
      BY <2>1
    <3> QED
      BY <2>1, <3>1, Zenon DEF DataOf
  <2>2. DOMAIN taken = {} /\ DOMAIN SeenBodies = {}
    BY <1>1 DEF SeenBodies
  <2> QED
    BY <2>1, <2>2
<1> QED
  BY <1>1, <1>2, <1>3 DEF DataInv

\* Read returns the data accepted, in order, and reports an EOF only after all the data
\* that the peer sent.
THEOREM LayerReadsInOrder == Spec => []ReadInOrder
<1>1. Init => LayerInv /\ WireInv /\ PeerWireInv /\ DataInv
  BY LayerStart, WiresStart, DataStart
<1>2. LayerInv /\ LayerInv' /\ StreamsIntact /\ WireInv /\ PeerWireInv /\ [Next]_vars =>
        WireInv' /\ PeerWireInv'
  BY WiresStep
<1>3. LayerInv /\ PeerWireInv /\ DataInv /\ [Next]_vars => DataInv'
  BY DataStep
<1>4. LayerInv /\ [Next]_vars => LayerInv'
  BY LayerStep
<1>5. LayerInv /\ DataInv => ReadInOrder
  <2> SUFFICES ASSUME LayerInv, DataInv PROVE ReadInOrder
    OBVIOUS
  <2>1. DataOf(got \o held \o input, taken)
    BY DEF DataInv, Delivered
  <2>2. ASSUME inErr = "EOF" PROVE DataOf(got, [i \in DOMAIN peerWire |-> peerWire[i].body])
    <3>1. seen = Len(peerWire) /\ held = << >> /\ input = << >> /\ got \in Seq(Bodies)
      BY <2>2 DEF DataInv
    <3>2. DOMAIN peerWire = 1..Len(peerWire)
      BY DEF LayerInv, InInv, InTypeOK
    <3>3. SeenBodies = [i \in DOMAIN peerWire |-> peerWire[i].body]
      BY <3>1, <3>2 DEF SeenBodies
    <3>4. Delivered = got
      <4>1. got \o << >> = got
        BY <3>1, JoinFacts
      <4> QED
        BY <3>1, <4>1 DEF Delivered
    <3> QED
      BY <3>3, <3>4 DEF DataInv
  <2> QED
    BY <2>1, <2>2 DEF ReadInOrder
<1> QED
  BY <1>1, <1>2, <1>3, <1>4, <1>5, LayerIntact, PTL DEF Spec
=============================================================================
