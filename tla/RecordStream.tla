---------------------------- MODULE RecordStream ----------------------------
(***************************************************************************)
(* What one direction of the record layer promises: a sender that protects *)
(* each record under its current traffic secret and sequence number, and a *)
(* receiver that authenticates under its own.  The network may show the    *)
(* receiver any protected record at any time; it accepts only the one it   *)
(* expects, so what it accepts is a prefix of what was protected.          *)
(***************************************************************************)
EXTENDS Naturals, Sequences, TLAPS

CONSTANTS
    Bodies,       \* what records carry
    Rekeys(_),    \* whether a body makes both sides go to the next traffic secret
    MaxSeq        \* the largest sequence number

VARIABLES
    next,         \* halfConn of the sender: number of its secret, and seq
    sealed,       \* every record encrypt has made
    expect,       \* halfConn of the receiver
    taken         \* the bodies decrypt has accepted

streamVars == <<next, sealed, expect, taken>>

\* The number of a traffic secret and of a record under it.  A secret whose next
\* sequence number is MaxSeq + 1 is used up.
Position == [epoch : Nat, seq : Nat]

\* Under which position a record is protected, and whether it left the sender.
Record == [pos : Position, body : Bodies, sent : BOOLEAN]

Start == [epoch |-> 0, seq |-> 0]

IncSeq(p) == [p EXCEPT !.seq = @ + 1]

NextSecret(p) == [epoch |-> p.epoch + 1, seq |-> 0]

After(p, b) == IF Rekeys(b) THEN NextSecret(p) ELSE IncSeq(p)

\* A record is protected and, unless the write fails, leaves the sender.  After a
\* write that failed the sender keeps its secret.
Seal(b, sent) ==
    /\ next.seq <= MaxSeq
    /\ sealed' = Append(sealed, [pos |-> next, body |-> b, sent |-> sent])
    /\ next' = IF sent THEN After(next, b) ELSE IncSeq(next)
    /\ UNCHANGED <<expect, taken>>

Take(i) ==
    /\ expect.seq <= MaxSeq
    /\ sealed[i].sent /\ sealed[i].pos = expect
    /\ taken' = Append(taken, sealed[i].body)
    /\ expect' = After(expect, sealed[i].body)
    /\ UNCHANGED <<next, sealed>>

StreamInit == next = Start /\ sealed = << >> /\ expect = Start /\ taken = << >>

StreamNext ==
    \/ \E b \in Bodies, sent \in BOOLEAN : Seal(b, sent)
    \/ \E i \in DOMAIN sealed : Take(i)

StreamSpec == StreamInit /\ [][StreamNext]_streamVars

-----------------------------------------------------------------------------

StreamTypeOK ==
    /\ next \in Position /\ expect \in Position
    /\ sealed \in Seq(Record)
    /\ taken \in Seq(Bodies)

Less(p, q) == p.epoch < q.epoch \/ (p.epoch = q.epoch /\ p.seq < q.seq)

\* No secret is used twice with the same sequence number, or past the largest one.
NoncesUnique ==
    /\ \A i \in DOMAIN sealed : sealed[i].pos.seq <= MaxSeq /\ Less(sealed[i].pos, next)
    /\ \A i, j \in DOMAIN sealed : i < j => Less(sealed[i].pos, sealed[j].pos)

\* What was accepted is what was protected first, without gap, repetition or change
\* of order, and it has left the sender.
TakenIsPrefix ==
    /\ Len(taken) <= Len(sealed)
    /\ \A i \in 1..Len(taken) : taken[i] = sealed[i].body

\* The receiver expects the first record it has not accepted, or the next one.
InStep ==
    /\ expect = IF Len(taken) < Len(sealed) THEN sealed[Len(taken) + 1].pos ELSE next
    /\ \A i \in DOMAIN sealed : sealed[i].sent =>
         After(sealed[i].pos, sealed[i].body) = IF i < Len(sealed) THEN sealed[i + 1].pos ELSE next

\* The inductive invariant.
StreamInv == StreamTypeOK /\ NoncesUnique /\ TakenIsPrefix /\ InStep

-----------------------------------------------------------------------------

\* Positions only grow.
LEMMA AfterGrows ==
  ASSUME NEW p \in Position, NEW b
  PROVE  /\ IncSeq(p) \in Position /\ Less(p, IncSeq(p))
         /\ After(p, b) \in Position /\ Less(p, After(p, b))
BY DEF Position, IncSeq, After, NextSecret, Less

\* Less is a strict order.
LEMMA LessOrders ==
  ASSUME NEW p \in Position, NEW q \in Position, NEW r \in Position
  PROVE  /\ ~Less(p, p)
         /\ Less(p, q) /\ Less(q, r) => Less(p, r)
BY DEF Position, Less

\* What Append does.
LEMMA AppendFacts ==
  ASSUME NEW S, NEW s \in Seq(S), NEW e \in S
  PROVE  /\ Append(s, e) \in Seq(S)
         /\ Len(s) \in Nat /\ Len(Append(s, e)) = Len(s) + 1
         /\ Append(s, e)[Len(s) + 1] = e
         /\ \A i \in 1..Len(s) : Append(s, e)[i] = s[i] /\ s[i] \in S
         /\ DOMAIN s = 1..Len(s) /\ DOMAIN Append(s, e) = 1..(Len(s) + 1)
OBVIOUS

\* encrypt and the write preserve the invariant.
LEMMA SealStep ==
  ASSUME StreamInv, NEW b \in Bodies, NEW sent \in BOOLEAN, Seal(b, sent)
  PROVE  StreamInv'
<1> DEFINE n == Len(sealed)
           rec == [pos |-> next, body |-> b, sent |-> sent]
<1> USE DEF StreamInv
<1>1. next' \in Position /\ Less(next, next')
  BY AfterGrows, Zenon DEF Seal, StreamTypeOK
<1>2. /\ rec \in Record
      /\ sealed' = Append(sealed, rec) /\ expect' = expect /\ taken' = taken
  BY DEF Seal, StreamTypeOK, Record
<1> HIDE DEF rec
<1>3. /\ sealed' \in Seq(Record)
      /\ n \in Nat /\ Len(sealed') = n + 1 /\ sealed'[n + 1] = rec
      /\ \A i \in 1..n : sealed'[i] = sealed[i] /\ sealed[i].pos \in Position
      /\ DOMAIN sealed = 1..n /\ DOMAIN sealed' = 1..(n + 1)
  <2>1. \A r \in Record : r.pos \in Position
    BY DEF Record
  <2> QED
    BY <1>2, <2>1, AppendFacts DEF StreamTypeOK
<1> HIDE DEF n
<1>4. StreamTypeOK'
  BY <1>1, <1>2, <1>3 DEF StreamTypeOK
<1>5. NoncesUnique'
  <2>1. \A i \in DOMAIN sealed' : Less(sealed'[i].pos, next')
    BY <1>1, <1>3, LessOrders DEF NoncesUnique, StreamTypeOK, rec
  <2>3. \A i \in DOMAIN sealed' : sealed'[i].pos.seq <= MaxSeq
    BY <1>3 DEF NoncesUnique, Seal, rec
  <2>2. \A i, j \in DOMAIN sealed' : i < j => Less(sealed'[i].pos, sealed'[j].pos)
    BY <1>3 DEF NoncesUnique, rec
  <2> QED
    BY <2>1, <2>2, <2>3 DEF NoncesUnique
<1>6. TakenIsPrefix'
  BY <1>2, <1>3 DEF TakenIsPrefix, StreamTypeOK, n
<1>7. InStep'
  <2>1. expect' = IF Len(taken') < Len(sealed') THEN sealed'[Len(taken') + 1].pos ELSE next'
    <3>1. Len(taken) \in Nat /\ Len(taken) <= n
      BY DEF StreamTypeOK, TakenIsPrefix, n
    <3>2. CASE Len(taken) < n
      BY <1>2, <1>3, <3>1, <3>2 DEF InStep, n
    <3>3. CASE Len(taken) = n
      BY <1>2, <1>3, <3>1, <3>3 DEF InStep, n, rec
    <3> QED
      BY <3>1, <3>2, <3>3, <1>3
  <2>2. ASSUME NEW i \in DOMAIN sealed', sealed'[i].sent
        PROVE  After(sealed'[i].pos, sealed'[i].body) =
                 IF i < Len(sealed') THEN sealed'[i + 1].pos ELSE next'
    <3>1. CASE i = n + 1
      <4>1. sealed'[i] = rec /\ ~(i < Len(sealed'))
        BY <1>3, <3>1
      <4>2. sent /\ rec.pos = next /\ rec.body = b
        BY <2>2, <4>1 DEF rec
      <4> QED
        BY <4>1, <4>2 DEF Seal
    <3>2. CASE i = n
      BY <1>3, <2>2, <3>2 DEF InStep, n, rec
    <3>3. CASE i < n
      BY <1>3, <2>2, <3>3 DEF InStep, n
    <3> QED
      BY <1>3, <3>1, <3>2, <3>3
  <2> QED
    BY <2>1, <2>2 DEF InStep
<1> QED
  BY <1>4, <1>5, <1>6, <1>7

\* decrypt preserves the invariant: only the first record not accepted fits.
LEMMA TakeStep ==
  ASSUME StreamInv, NEW k \in DOMAIN sealed, Take(k)
  PROVE  StreamInv'
<1> DEFINE n == Len(sealed)  m == Len(taken)
<1> USE DEF StreamInv
<1>1. /\ n \in Nat /\ m \in Nat /\ m <= n /\ DOMAIN sealed = 1..n
      /\ \A i \in 1..n : sealed[i].pos \in Position /\ sealed[i].body \in Bodies
      /\ next \in Position /\ expect \in Position
  <2>1. \A r \in Record : r.pos \in Position /\ r.body \in Bodies
    BY DEF Record
  <2>2. /\ n \in Nat /\ m \in Nat /\ m <= n /\ DOMAIN sealed = 1..n
        /\ \A i \in 1..n : sealed[i] \in Record
    BY DEF StreamTypeOK, TakenIsPrefix
  <2> QED
    BY <2>1, <2>2 DEF StreamTypeOK
<1> HIDE DEF n, m
<1>2. k = m + 1
  <2>1. m < n
    BY <1>1, LessOrders DEF Take, InStep, NoncesUnique, n, m
  <2>2. sealed[k].pos = sealed[m + 1].pos
    BY <1>1, <2>1 DEF Take, InStep, n, m
  <2> QED
    BY <1>1, <2>1, <2>2, LessOrders DEF NoncesUnique
<1>3. /\ taken' \in Seq(Bodies) /\ Len(taken') = m + 1 /\ taken'[m + 1] = sealed[k].body
      /\ \A i \in 1..m : taken'[i] = taken[i]
  BY <1>1 DEF Take, StreamTypeOK, m
<1>4. expect' \in Position
  BY <1>1, AfterGrows, Zenon DEF Take
<1>5. StreamTypeOK' /\ NoncesUnique'
  BY <1>3, <1>4 DEF StreamTypeOK, NoncesUnique, Take
<1>6. TakenIsPrefix'
  BY <1>1, <1>2, <1>3 DEF TakenIsPrefix, Take, n, m
<1>7. InStep'
  BY <1>1, <1>2, <1>3 DEF InStep, Take, n, m
<1> QED
  BY <1>5, <1>6, <1>7

\* Every step preserves the invariant.
LEMMA StreamStep == StreamInv /\ [StreamNext]_streamVars => StreamInv'
<1> SUFFICES ASSUME StreamInv, [StreamNext]_streamVars PROVE StreamInv'
  OBVIOUS
<1>1. CASE StreamNext
  BY <1>1, SealStep, TakeStep DEF StreamNext
<1>2. CASE UNCHANGED streamVars
  BY <1>2 DEF streamVars, StreamInv, StreamTypeOK, NoncesUnique, TakenIsPrefix, InStep
<1> QED
  BY <1>1, <1>2

\* The invariant holds at first.
LEMMA StreamStart == StreamInit => StreamInv
BY DEF StreamInit, Start, StreamInv, StreamTypeOK, Position, NoncesUnique, TakenIsPrefix, InStep

\* Whatever the network does to protected records, and whichever writes fail, a
\* receiver accepts a prefix of what was protected, and no secret protects two records
\* under one sequence number.
THEOREM StreamIntact == StreamSpec => []StreamInv
BY StreamStart, StreamStep, PTL DEF StreamSpec
=============================================================================
