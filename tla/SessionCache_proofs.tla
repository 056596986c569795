------------------------- MODULE SessionCache_proofs -------------------------
(***************************************************************************)
(* lruSessionCache keeps its map and its list together, implements the     *)
(* store of SessionStore, and serves the handshakes that share it, for any *)
(* clients, keys, capacity and bounds.                                     *)
(***************************************************************************)
EXTENDS SessionCache, SequenceTheorems, FiniteSetTheorems, TLAPS

-----------------------------------------------------------------------------
(* The invariants.                                                         *)

\* Map M, elements Q[1], ..., Q[n] and their values V hold the same entries, each once.
Linked(M, Q, n, V) ==
    /\ \A i, j \in 1..n : Q[i] = Q[j] => i = j
    /\ \A i \in 1..n : /\ Q[i] \in DOMAIN V /\ V[Q[i]].sessionKey \in DOMAIN M
                       /\ M[V[Q[i]].sessionKey] = Q[i]
    /\ \A k \in DOMAIN M : V[M[k]].sessionKey = k /\ \E i \in 1..n : Q[i] = M[k]

CacheOK(M, Q, V) ==
    /\ DOMAIN M \subseteq Keys /\ \A k \in DOMAIN M : M[k] \in Elems
    /\ Q \in Seq(Elems) /\ Len(Q) <= Capacity
    /\ DOMAIN V \subseteq Elems /\ \A e \in DOMAIN V : V[e] \in Entry
    /\ Linked(M, Q, Len(Q), V)

CacheInv == CacheOK(m, q, value)

-----------------------------------------------------------------------------
(* Lists.                                                                  *)

\* A sequence without its i-th element.
LEMMA RemoveAtFacts ==
    ASSUME NEW S, NEW s \in Seq(S), NEW i \in 1..Len(s)
    PROVE  /\ RemoveAt(s, i) \in Seq(S)
           /\ Len(RemoveAt(s, i)) = Len(s) - 1
           /\ \A j \in 1..(Len(s) - 1) : RemoveAt(s, i)[j] = IF j < i THEN s[j] ELSE s[j + 1]
<1>1. PICK a, b : a = SubSeq(s, 1, i - 1) /\ b = SubSeq(s, i + 1, Len(s))
  BY Zenon
<1>2. PICK c : c = a \o b
  BY Zenon
<1>3. a \in Seq(S) /\ Len(a) = i - 1 /\ \A j \in 1..(i - 1) : a[j] = s[j]
  BY <1>1, SubSeqProperties
<1>4. b \in Seq(S) /\ Len(b) = Len(s) - i /\ \A j \in 1..(Len(s) - i) : b[j] = s[i + j]
  BY <1>1, SubSeqProperties
<1>5. /\ c \in Seq(S) /\ Len(c) = Len(a) + Len(b)
      /\ \A j \in 1..(Len(a) + Len(b)) : c[j] = IF j <= Len(a) THEN a[j] ELSE b[j - Len(a)]
  BY <1>2, <1>3, <1>4, ConcatProperties, Zenon
<1>6. Len(a) = i - 1 /\ Len(b) = Len(s) - i
  BY <1>3, <1>4
<1>8. RemoveAt(s, i) = c
  BY <1>1, <1>2 DEF RemoveAt
<1>9. Len(s) \in Nat /\ i \in Nat /\ 1 <= i /\ i <= Len(s)
  BY LenProperties
<1>7. ASSUME NEW j \in 1..(Len(s) - 1)
      PROVE  c[j] = IF j < i THEN s[j] ELSE s[j + 1]
  <2>1. CASE j < i
    <3>1. j \in 1..(i - 1) /\ j \in 1..(Len(a) + Len(b)) /\ j <= Len(a)
      BY <1>6, <1>9, <2>1
    <3>2. c[j] = a[j] /\ a[j] = s[j]
      BY <1>3, <1>5, <3>1, Zenon
    <3> QED
      BY <2>1, <3>2
  <2>2. CASE ~(j < i)
    <3>1. c[j] = b[j - (i - 1)] /\ j - (i - 1) \in 1..(Len(s) - i)
      BY <1>5, <1>6, <1>9, <2>2, SMTT(30)
    <3>2. b[j - (i - 1)] = s[i + (j - (i - 1))] /\ i + (j - (i - 1)) = j + 1
      BY <1>4, <3>1
    <3> QED
      BY <2>2, <3>1, <3>2
  <2> QED
    BY <2>1, <2>2
<1> QED
  BY <1>5, <1>6, <1>7, <1>8, <1>9

\* A sequence with an element put in front.
LEMMA ConsFacts ==
    ASSUME NEW S, NEW e \in S, NEW s \in Seq(S)
    PROVE  /\ <<e>> \o s \in Seq(S)
           /\ Len(<<e>> \o s) = Len(s) + 1
           /\ (<<e>> \o s)[1] = e
           /\ \A j \in 2..(Len(s) + 1) : (<<e>> \o s)[j] = s[j - 1]
BY ConcatProperties

\* What MoveToFront does to an element of the list.
LEMMA FrontFacts ==
    ASSUME q \in Seq(Elems), NEW i \in 1..Len(q), \A a, b \in 1..Len(q) : q[a] = q[b] => a = b
    PROVE  /\ Place(q[i]) = i
           /\ Unlinked(q[i]) = RemoveAt(q, i)
           /\ MoveToFront(q[i]) = <<q[i]>> \o RemoveAt(q, i)
<1>1. Place(q[i]) = i
  BY DEF Place
<1>2. q[i] \in Range(q)
  BY DEF Range
<1> QED
  BY <1>1, <1>2 DEF Unlinked, MoveToFront

-----------------------------------------------------------------------------
(* Get and Put keep map and list together, and are steps of the store.     *)

Item == [key : Keys, session : Sessions \cup {nil}]
EntriesOf(Q, V) == [i \in 1..Len(Q) |-> [key |-> V[Q[i]].sessionKey, session |-> V[Q[i]].state]]

\* The entries of a list, one by one.
LEMMA EntriesOfFacts ==
    ASSUME NEW Q \in Seq(Elems), NEW V, \A i \in 1..Len(Q) : V[Q[i]] \in Entry
    PROVE  /\ Len(Q) \in Nat
           /\ EntriesOf(Q, V) \in Seq(Item)
           /\ Len(EntriesOf(Q, V)) = Len(Q)
           /\ \A i \in 1..Len(Q) :
                EntriesOf(Q, V)[i] = [key |-> V[Q[i]].sessionKey, session |-> V[Q[i]].state]
<1>1. Len(Q) \in Nat
  BY LenProperties
<1>2. PICK E : E = EntriesOf(Q, V)
  OBVIOUS
<1>3. E \in [1..Len(Q) -> Item]
  BY <1>2 DEF EntriesOf, Entry, Item
<1>4. E \in Seq(Item)
  BY <1>1, <1>3, SeqDef
<1>5. DOMAIN E = 1..Len(Q)
  BY <1>2 DEF EntriesOf
<1>6. Len(E) \in Nat /\ DOMAIN E = 1..Len(E)
  BY <1>4, LenProperties
<1>7. Len(E) = Len(Q)
  BY <1>1, <1>5, <1>6
<1>8. \A i \in 1..Len(Q) : E[i] = [key |-> V[Q[i]].sessionKey, session |-> V[Q[i]].state]
  BY <1>2 DEF EntriesOf
<1> QED
  BY <1>1, <1>2, <1>4, <1>7, <1>8

\* An entry taken out.
LEMMA UnlinkedOne ==
    ASSUME NEW M, NEW Q, NEW V, NEW n \in Nat, Linked(M, Q, n, V), NEW i \in 1..n,
           NEW R, \A j \in 1..(n - 1) : R[j] = IF j < i THEN Q[j] ELSE Q[j + 1]
    PROVE  /\ Linked(Without(M, V[Q[i]].sessionKey), R, n - 1, V)
           /\ \A j \in 1..(n - 1) : R[j] # Q[i]
<1> DEFINE k == V[Q[i]].sessionKey
<1>1. \A j \in 1..(n - 1) : \E b \in 1..n : b # i /\ R[j] = Q[b]
  OBVIOUS
<1>2. \A b \in 1..n : b # i => \E j \in 1..(n - 1) : R[j] = Q[b]
  <2> SUFFICES ASSUME NEW b \in 1..n, b # i PROVE \E j \in 1..(n - 1) : R[j] = Q[b]
    OBVIOUS
  <2>1. CASE b < i
    BY <2>1
  <2>2. CASE b > i
    <3>1. b - 1 \in 1..(n - 1) /\ R[b - 1] = Q[b]
      BY <2>2
    <3> QED
      BY <3>1
  <2> QED
    BY <2>1, <2>2
<1>3. \A a, b \in 1..(n - 1) : R[a] = R[b] => a = b
  BY DEF Linked
<1>4. \A j \in 1..(n - 1) : R[j] # Q[i]
  BY <1>1 DEF Linked
<1>5. \A b \in 1..n : b # i => V[Q[b]].sessionKey # k
  BY DEF Linked
<1>6. k \in DOMAIN M /\ M[k] = Q[i]
  BY DEF Linked
<1> HIDE DEF k
<1>7. DOMAIN Without(M, k) = DOMAIN M \ {k} /\ \A l \in DOMAIN M \ {k} : Without(M, k)[l] = M[l]
  BY DEF Without
<1>8. ASSUME NEW j \in 1..(n - 1)
      PROVE  /\ R[j] \in DOMAIN V /\ V[R[j]].sessionKey \in DOMAIN Without(M, k)
             /\ Without(M, k)[V[R[j]].sessionKey] = R[j]
  <2>1. PICK b \in 1..n : b # i /\ R[j] = Q[b]
    BY <1>1
  <2> QED
    BY <1>5, <1>7, <2>1 DEF Linked
<1>9. ASSUME NEW l \in DOMAIN Without(M, k)
      PROVE  V[Without(M, k)[l]].sessionKey = l /\ \E j \in 1..(n - 1) : R[j] = Without(M, k)[l]
  <2>1. PICK b \in 1..n : Q[b] = M[l]
    BY <1>7 DEF Linked
  <2>2. V[M[l]].sessionKey = l /\ Without(M, k)[l] = M[l] /\ l # k
    BY <1>7 DEF Linked
  <2>3. b # i
    BY <2>1, <2>2 DEF k
  <2> QED
    BY <1>2, <2>1, <2>2, <2>3
<1>10. Linked(Without(M, k), R, n - 1, V)
  BY <1>3, <1>8, <1>9 DEF Linked
<1> QED
  BY <1>4, <1>10 DEF k

\* A new entry at the front.
LEMMA LinkedOne ==
    ASSUME NEW M, NEW Q, NEW V, NEW n \in Nat, Linked(M, Q, n, V), NEW k, k \notin DOMAIN M,
           NEW e, \A j \in 1..n : Q[j] # e, NEW w, w.sessionKey = k,
           NEW R, R[1] = e, \A j \in 2..(n + 1) : R[j] = Q[j - 1]
    PROVE  Linked(With(M, k, e), R, n + 1, With(V, e, w))
<1> DEFINE M2 == With(M, k, e)
           V2 == With(V, e, w)
<1>1. /\ DOMAIN M2 = DOMAIN M \cup {k} /\ M2[k] = e /\ \A l \in DOMAIN M : M2[l] = M[l]
      /\ DOMAIN V2 = DOMAIN V \cup {e} /\ V2[e] = w /\ \A x \in DOMAIN V \ {e} : V2[x] = V[x]
  BY DEF With
<1> HIDE DEF M2, V2
<1>2. \A j \in 2..(n + 1) : j - 1 \in 1..n /\ R[j] = Q[j - 1] /\ R[j] # e
  OBVIOUS
<1>3. \A b \in 1..n : b + 1 \in 2..(n + 1) /\ R[b + 1] = Q[b]
  OBVIOUS
<1>4. \A a, b \in 1..(n + 1) : R[a] = R[b] => a = b
  <2> SUFFICES ASSUME NEW a \in 1..(n + 1), NEW b \in 1..(n + 1), R[a] = R[b] PROVE a = b
    OBVIOUS
  <2>1. CASE a = 1 \/ b = 1
    BY <1>2, <2>1
  <2>2. CASE a # 1 /\ b # 1
    <3>1. a \in 2..(n + 1) /\ b \in 2..(n + 1)
      BY <2>2
    <3>2. a - 1 = b - 1
      BY <1>2, <3>1 DEF Linked
    <3> QED
      BY <3>1, <3>2
  <2> QED
    BY <2>1, <2>2
<1>5. ASSUME NEW j \in 1..(n + 1)
      PROVE  /\ R[j] \in DOMAIN V2 /\ V2[R[j]].sessionKey \in DOMAIN M2
             /\ M2[V2[R[j]].sessionKey] = R[j]
  <2>1. CASE j = 1
    BY <1>1, <2>1
  <2>2. CASE j \in 2..(n + 1)
    BY <1>1, <1>2, <2>2 DEF Linked
  <2> QED
    BY <2>1, <2>2
<1>6. ASSUME NEW l \in DOMAIN M2
      PROVE  V2[M2[l]].sessionKey = l /\ \E j \in 1..(n + 1) : R[j] = M2[l]
  <2>1. CASE l = k
    BY <1>1, <2>1
  <2>2. CASE l \in DOMAIN M
    <3>1. PICK b \in 1..n : Q[b] = M[l] /\ V[M[l]].sessionKey = l
      BY <2>2 DEF Linked
    <3>2. Q[b] \in DOMAIN V /\ Q[b] # e /\ b + 1 \in 1..(n + 1) /\ R[b + 1] = Q[b]
      BY <1>3 DEF Linked
    <3> QED
      BY <1>1, <2>2, <3>1, <3>2
  <2> QED
    BY <1>1, <2>1, <2>2
<1>7. Linked(M2, R, n + 1, V2)
  BY <1>4, <1>5, <1>6 DEF Linked
<1> QED
  BY <1>7 DEF M2, V2

\* What CacheOK says of the list as such.
LEMMA CacheFacts ==
    ASSUME NEW M, NEW Q, NEW V, CacheOK(M, Q, V)
    PROVE  /\ Q \in Seq(Elems) /\ Len(Q) \in Nat /\ Len(Q) <= Capacity
           /\ Linked(M, Q, Len(Q), V)
           /\ \A j \in 1..Len(Q) : Q[j] \in Elems /\ V[Q[j]] \in Entry
           /\ EntriesOf(Q, V) \in Seq(Item) /\ Len(EntriesOf(Q, V)) = Len(Q)
           /\ \A j \in 1..Len(Q) :
                EntriesOf(Q, V)[j] = [key |-> V[Q[j]].sessionKey, session |-> V[Q[j]].state]
<1>1. Q \in Seq(Elems) /\ Len(Q) <= Capacity /\ Linked(M, Q, Len(Q), V)
  BY DEF CacheOK
<1>2. \A j \in 1..Len(Q) : V[Q[j]] \in Entry
  BY DEF CacheOK, Linked
<1>3. \A j \in 1..Len(Q) : Q[j] \in Elems
  BY <1>1, ElementOfSeq
<1>4. /\ Len(Q) \in Nat /\ EntriesOf(Q, V) \in Seq(Item) /\ Len(EntriesOf(Q, V)) = Len(Q)
      /\ \A j \in 1..Len(Q) :
           EntriesOf(Q, V)[j] = [key |-> V[Q[j]].sessionKey, session |-> V[Q[j]].state]
  BY <1>1, <1>2, EntriesOfFacts
<1> QED
  BY <1>1, <1>2, <1>3, <1>4

\* e is no element of the list.
NotIn(e, Q) == \A j \in 1..Len(Q) : Q[j] # e

\* The element at i and its key leave list and map.
LEMMA Dropped ==
    ASSUME NEW M, NEW Q, NEW V, CacheOK(M, Q, V), NEW i \in 1..Len(Q)
    PROVE  /\ CacheOK(Without(M, V[Q[i]].sessionKey), RemoveAt(Q, i), V)
           /\ EntriesOf(RemoveAt(Q, i), V) = RemoveAt(EntriesOf(Q, V), i)
           /\ Len(RemoveAt(Q, i)) = Len(Q) - 1
           /\ NotIn(Q[i], RemoveAt(Q, i))
<1>1. PICK n, k, R, E : /\ n = Len(Q) /\ k = V[Q[i]].sessionKey
                        /\ R = RemoveAt(Q, i) /\ E = EntriesOf(Q, V)
  OBVIOUS
<1>2. /\ Q \in Seq(Elems) /\ n \in Nat /\ n <= Capacity /\ Linked(M, Q, n, V)
      /\ \A j \in 1..n : Q[j] \in Elems /\ V[Q[j]] \in Entry
      /\ E \in Seq(Item) /\ Len(E) = n
      /\ \A j \in 1..n : E[j] = [key |-> V[Q[j]].sessionKey, session |-> V[Q[j]].state]
  BY <1>1, CacheFacts
<1>3. /\ R \in Seq(Elems) /\ Len(R) = n - 1
      /\ \A j \in 1..(n - 1) : R[j] = IF j < i THEN Q[j] ELSE Q[j + 1]
  BY <1>1, <1>2, RemoveAtFacts, Zenon
<1>4. Linked(Without(M, k), R, n - 1, V) /\ \A j \in 1..(n - 1) : R[j] # Q[i]
  <2>1. n \in Nat /\ i \in 1..n
    BY <1>1, <1>2
  <2>2. Linked(M, Q, n, V)
    BY <1>2
  <2>3. \A j \in 1..(n - 1) : R[j] = IF j < i THEN Q[j] ELSE Q[j + 1]
    BY <1>3
  <2>4. Linked(Without(M, V[Q[i]].sessionKey), R, n - 1, V) /\ \A j \in 1..(n - 1) : R[j] # Q[i]
    BY <2>1, <2>2, <2>3, UnlinkedOne
  <2> QED
    BY <1>1, <2>4
<1>5. CacheOK(Without(M, k), R, V)
  <2>1. DOMAIN Without(M, k) \subseteq DOMAIN M /\ \A l \in DOMAIN Without(M, k) : Without(M, k)[l] = M[l]
    BY DEF Without
  <2>2. /\ DOMAIN M \subseteq Keys /\ \A l \in DOMAIN M : M[l] \in Elems
        /\ DOMAIN V \subseteq Elems /\ \A e \in DOMAIN V : V[e] \in Entry
    BY DEF CacheOK
  <2>3. Len(R) <= Capacity
    BY <1>2, <1>3, CapacityAssumption
  <2>4. DOMAIN Without(M, k) \subseteq Keys /\ \A l \in DOMAIN Without(M, k) : Without(M, k)[l] \in Elems
    BY <2>1, <2>2
  <2>5. R \in Seq(Elems) /\ Linked(Without(M, k), R, Len(R), V)
    BY <1>3, <1>4
  <2> QED
    BY <2>2, <2>3, <2>4, <2>5 DEF CacheOK
<1>6. PICK F, G : F = EntriesOf(R, V) /\ G = RemoveAt(E, i)
  OBVIOUS
<1>7. /\ F \in Seq(Item) /\ Len(F) = n - 1
      /\ \A j \in 1..(n - 1) : F[j] = [key |-> V[R[j]].sessionKey, session |-> V[R[j]].state]
  BY <1>3, <1>5, <1>6, CacheFacts
<1>8. /\ G \in Seq(Item) /\ Len(G) = n - 1
      /\ \A j \in 1..(n - 1) : G[j] = IF j < i THEN E[j] ELSE E[j + 1]
  <2>1. E \in Seq(Item) /\ Len(E) = n /\ i \in 1..Len(E)
    BY <1>1, <1>2
  <2> QED
    BY <1>6, <2>1, RemoveAtFacts
<1>9. ASSUME NEW j \in 1..(n - 1) PROVE F[j] = G[j]
  <2>1. i \in 1..n /\ j \in 1..n /\ j + 1 \in 1..n
    BY <1>1, <1>2
  <2>2. CASE j < i
    <3>1. R[j] = Q[j] /\ G[j] = E[j]
      BY <1>3, <1>8, <2>2
    <3> QED
      BY <1>2, <1>7, <2>1, <3>1, Zenon
  <2>3. CASE ~(j < i)
    <3>1. R[j] = Q[j + 1] /\ G[j] = E[j + 1]
      BY <1>3, <1>8, <2>3
    <3> QED
      BY <1>2, <1>7, <2>1, <3>1, Zenon
  <2> QED
    BY <2>2, <2>3
<1>10. F = G
  BY <1>7, <1>8, <1>9, SeqEqual
<1> QED
  BY <1>1, <1>3, <1>4, <1>5, <1>6, <1>10 DEF NotIn

\* The cache after e, not in the list, became the element of a new key.
PushedOK(M, Q, V, k, s, e) ==
    LET w == [sessionKey |-> k, state |-> s] IN
    /\ CacheOK(With(M, k, e), <<e>> \o Q, With(V, e, w))
    /\ EntriesOf(<<e>> \o Q, With(V, e, w)) = <<[key |-> k, session |-> s]>> \o EntriesOf(Q, V)

\* Such a cache is one, and its entries are the new one and the others in their order.
LEMMA Pushed ==
    ASSUME NEW M, NEW Q, NEW V, CacheOK(M, Q, V), Len(Q) < Capacity,
           NEW k \in Keys, k \notin DOMAIN M, NEW s \in Sessions \cup {nil},
           NEW e \in Elems, NotIn(e, Q)
    PROVE  PushedOK(M, Q, V, k, s, e)
<1>0. PICK n, E : n = Len(Q) /\ E = EntriesOf(Q, V)
  OBVIOUS
<1>a. PICK w, x, R, M2, V2 :
         /\ w = [sessionKey |-> k, state |-> s] /\ x = [key |-> k, session |-> s]
         /\ R = <<e>> \o Q /\ M2 = With(M, k, e) /\ V2 = With(V, e, w)
  BY Zenon
<1>1. /\ n = Len(Q) /\ w = [sessionKey |-> k, state |-> s] /\ x = [key |-> k, session |-> s]
      /\ R = <<e>> \o Q /\ E = EntriesOf(Q, V) /\ M2 = With(M, k, e) /\ V2 = With(V, e, w)
  BY <1>0, <1>a
<1>2. /\ Q \in Seq(Elems) /\ n \in Nat /\ Linked(M, Q, n, V)
      /\ \A j \in 1..n : Q[j] \in Elems /\ V[Q[j]] \in Entry
      /\ E \in Seq(Item) /\ Len(E) = n
      /\ \A j \in 1..n : E[j] = [key |-> V[Q[j]].sessionKey, session |-> V[Q[j]].state]
  BY <1>0, CacheFacts
<1>3. /\ R \in Seq(Elems) /\ Len(R) = n + 1 /\ R[1] = e
      /\ \A j \in 2..(n + 1) : R[j] = Q[j - 1]
  BY <1>1, <1>2, ConsFacts
<1>4. w \in Entry /\ x \in Item /\ w.sessionKey = k /\ w.state = s /\ x.key = k /\ x.session = s
  <2>1. w = [sessionKey |-> k, state |-> s] /\ x = [key |-> k, session |-> s]
    BY <1>1
  <2>2. w \in Entry /\ w.sessionKey = k /\ w.state = s
    BY <2>1 DEF Entry
  <2>3. x \in Item /\ x.key = k /\ x.session = s
    BY <2>1 DEF Item
  <2> QED
    BY <2>2, <2>3
<1>5. Linked(M2, R, n + 1, V2)
  <2>1. n \in Nat /\ Linked(M, Q, n, V)
    BY <1>2
  <2>2. \A j \in 1..n : Q[j] # e
    BY <1>1 DEF NotIn
  <2>3. R[1] = e /\ \A j \in 2..(n + 1) : R[j] = Q[j - 1]
    BY <1>3
  <2>4. w.sessionKey = k
    BY <1>4
  <2>5. Linked(With(M, k, e), R, n + 1, With(V, e, w))
    BY <2>1, <2>2, <2>3, <2>4, LinkedOne
  <2> QED
    BY <1>1, <2>5
<1>6. CacheOK(M2, R, V2)
  <2>1. /\ DOMAIN M \subseteq Keys /\ \A l \in DOMAIN M : M[l] \in Elems
        /\ DOMAIN V \subseteq Elems /\ \A y \in DOMAIN V : V[y] \in Entry
    BY DEF CacheOK
  <2>2. DOMAIN M2 \subseteq Keys /\ \A l \in DOMAIN M2 : M2[l] \in Elems
    BY <1>1, <2>1 DEF With
  <2>3. DOMAIN V2 \subseteq Elems /\ \A y \in DOMAIN V2 : V2[y] \in Entry
    BY <1>1, <1>4, <2>1 DEF With
  <2>4. n + 1 <= Capacity
    BY <1>1, <1>2, CapacityAssumption
  <2>5. R \in Seq(Elems) /\ Len(R) <= Capacity /\ Linked(M2, R, Len(R), V2)
    BY <1>3, <1>5, <2>4
  <2> QED
    BY <2>2, <2>3, <2>5 DEF CacheOK
<1>7. PICK F, G : F = EntriesOf(R, V2) /\ G = <<x>> \o E
  BY Zenon
<1>8. /\ F \in Seq(Item) /\ Len(F) = n + 1
      /\ \A j \in 1..(n + 1) : F[j] = [key |-> V2[R[j]].sessionKey, session |-> V2[R[j]].state]
  BY <1>3, <1>6, <1>7, CacheFacts
<1>9. /\ G \in Seq(Item) /\ Len(G) = n + 1 /\ G[1] = x
      /\ \A j \in 2..(n + 1) : G[j] = E[j - 1]
  BY <1>2, <1>4, <1>7, ConsFacts
<1>10. ASSUME NEW j \in 1..(n + 1) PROVE F[j] = G[j]
  <2>1. CASE j = 1
    <3>1. V2[R[j]] = w
      BY <1>1, <1>3, <2>1 DEF With
    <3> QED
      BY <1>1, <1>4, <1>8, <1>9, <2>1, <3>1
  <2>2. CASE j \in 2..(n + 1)
    <3>1. j - 1 \in 1..n /\ R[j] = Q[j - 1] /\ G[j] = E[j - 1]
      BY <1>2, <1>3, <1>9, <2>2
    <3>2. V2[R[j]] = V[Q[j - 1]]
      BY <1>1, <1>2, <3>1 DEF With, Linked, NotIn
    <3> QED
      BY <1>2, <1>8, <3>1, <3>2
  <2> QED
    BY <1>2, <2>1, <2>2
<1>11. F = G
  BY <1>8, <1>9, <1>10, SeqEqual
<1> QED
  BY <1>1, <1>6, <1>7, <1>11 DEF PushedOK

\* Only the entries of map and values count.
LEMMA SameCache ==
    ASSUME NEW M, NEW Q, NEW V, CacheOK(M, Q, V), NEW M2, NEW V2,
           DOMAIN M2 = DOMAIN M, \A k \in DOMAIN M : M2[k] = M[k],
           DOMAIN V2 = DOMAIN V, \A e \in DOMAIN V : V2[e] = V[e]
    PROVE  CacheOK(M2, Q, V2) /\ EntriesOf(Q, V2) = EntriesOf(Q, V)
<1>1. PICK n : n = Len(Q)
  BY Zenon
<1>2. Linked(M, Q, n, V)
  BY <1>1 DEF CacheOK
<1>3. /\ \A i \in 1..n : Q[i] \in DOMAIN V
      /\ \A k \in DOMAIN M : M[k] \in DOMAIN V
  BY <1>2 DEF Linked
<1>4. Linked(M2, Q, n, V2)
  BY <1>2, <1>3 DEF Linked
<1>5. CacheOK(M2, Q, V2)
  BY <1>1, <1>4 DEF CacheOK
<1>6. EntriesOf(Q, V2) = EntriesOf(Q, V)
  BY <1>1, <1>3 DEF EntriesOf
<1> QED
  BY <1>5, <1>6

-----------------------------------------------------------------------------
(* Get and Put keep map and list together, and are steps of the store.     *)

Front(s) == SubSeq(s, 1, Len(s) - 1)

\* The store uses the same operators on lists.
LEMMA StoreLists ==
    /\ \A s, i : Store!RemoveAt(s, i) = RemoveAt(s, i)
    /\ \A s : Store!Front(s) = Front(s)
BY DEF RemoveAt, Store!RemoveAt, Front, Store!Front

\* Where the entry of a key of the map is, in the list and in the store.
LEMMA Found ==
    ASSUME CacheInv, NEW k \in DOMAIN m
    PROVE  /\ Entries = EntriesOf(q, value) /\ k \in Keys /\ m[k] \in Elems
           /\ m[k] \in DOMAIN value /\ value[m[k]] \in Entry /\ value[m[k]].sessionKey = k
           /\ Store!Holds(k)
           /\ \E i \in 1..Len(q) : q[i] = m[k] /\ Store!Place(k) = i
<1>1. PICK n, E : n = Len(q) /\ E = Entries
  BY Zenon
<1>2. E = EntriesOf(q, value)
  BY <1>1 DEF Entries, EntriesOf
<1>3. /\ Linked(m, q, n, value) /\ n \in Nat /\ Len(E) = n
      /\ \A j \in 1..n : E[j] = [key |-> value[q[j]].sessionKey, session |-> value[q[j]].state]
  BY <1>1, <1>2, CacheFacts DEF CacheInv
<1>4. PICK i \in 1..n : q[i] = m[k]
  BY <1>3 DEF Linked
<1>5. m[k] \in DOMAIN value /\ value[m[k]].sessionKey = k
  BY <1>3, <1>4 DEF Linked
<1>6. ASSUME NEW j \in 1..n PROVE E[j].key = k <=> j = i
  <2>1. E[j].key = value[q[j]].sessionKey /\ m[value[q[j]].sessionKey] = q[j]
    BY <1>3 DEF Linked
  <2>2. q[i] = q[j] => i = j
    BY <1>3 DEF Linked
  <2> QED
    BY <1>4, <1>5, <2>1, <2>2
<1>7. Store!Holds(k) /\ Store!Place(k) = i
  <2>1. \A j \in 1..Len(Entries) : Entries[j].key = k <=> j = i
    BY <1>1, <1>3, <1>6
  <2>2. i \in 1..Len(Entries)
    BY <1>1, <1>3
  <2> QED
    BY <2>1, <2>2 DEF Store!Holds, Store!Place
<1>8. k \in Keys /\ m[k] \in Elems /\ value[m[k]] \in Entry
  BY <1>5 DEF CacheInv, CacheOK
<1> QED
  BY <1>1, <1>2, <1>4, <1>5, <1>7, <1>8

\* A key that is not in the map has no entry.
LEMMA NotFound ==
    ASSUME CacheInv, NEW k \in Keys \ DOMAIN m
    PROVE  ~Store!Holds(k) /\ Entries = EntriesOf(q, value) /\ Len(Entries) = Len(q)
<1>1. PICK n, E : n = Len(q) /\ E = Entries
  BY Zenon
<1>2. E = EntriesOf(q, value)
  BY <1>1 DEF Entries, EntriesOf
<1>3. /\ Linked(m, q, n, value) /\ Len(E) = n
      /\ \A j \in 1..n : E[j] = [key |-> value[q[j]].sessionKey, session |-> value[q[j]].state]
  BY <1>1, <1>2, CacheFacts DEF CacheInv
<1>4. ASSUME NEW j \in 1..n PROVE E[j].key # k
  <2>1. value[q[j]].sessionKey \in DOMAIN m
    BY <1>3, Zenon DEF Linked
  <2>2. E[j].key = value[q[j]].sessionKey
    BY <1>3
  <2> QED
    BY <2>1, <2>2
<1>5. \A j \in 1..Len(Entries) : Entries[j].key # k
  BY <1>1, <1>3, <1>4
<1> QED
  BY <1>1, <1>2, <1>3, <1>5 DEF Store!Holds

\* Different keys have different elements.
LEMMA Apart ==
    ASSUME CacheInv, NEW k \in DOMAIN m, NEW j \in DOMAIN m, j # k
    PROVE  m[j] # m[k]
BY Found

\* A Put of nil for a key in the cache.
LEMMA PutRemoveFacts ==
    ASSUME CacheInv, NEW k \in DOMAIN m, PutRemove(k)
    PROVE  /\ CacheInv' /\ Store!Delete(k)
           /\ Cached(k)' = nil /\ \A j \in Keys \ {k} : Cached(j)' = Cached(j)
<1>1. PICK i \in 1..Len(q) : q[i] = m[k] /\ Store!Place(k) = i
  BY Found
<1>2. /\ Entries = EntriesOf(q, value) /\ value[q[i]].sessionKey = k /\ Store!Holds(k)
  BY <1>1, Found
<1>3. q \in Seq(Elems) /\ \A a, b \in 1..Len(q) : q[a] = q[b] => a = b
  BY DEF CacheInv, CacheOK, Linked
<1>4. q' = RemoveAt(q, i) /\ m' = Without(m, k) /\ value' = value
  BY <1>1, <1>3, FrontFacts, Zenon DEF PutRemove
<1>5. CacheOK(m', q', value') /\ EntriesOf(q', value') = RemoveAt(EntriesOf(q, value), i)
  BY <1>2, <1>4, Dropped DEF CacheInv
<1>6. Store!Delete(k)
  <2>1. Entries' = EntriesOf(q', value')
    BY DEF Entries, EntriesOf
  <2>2. Entries' = RemoveAt(Entries, Store!Place(k))
    BY <1>1, <1>2, <1>5, <2>1
  <2> QED
    BY <1>2, <2>2, StoreLists DEF Store!Delete
<1>7. Cached(k)' = nil /\ \A j \in Keys \ {k} : Cached(j)' = Cached(j)
  BY <1>4 DEF Cached, Without
<1> QED
  BY <1>5, <1>6, <1>7 DEF CacheInv

\* The element of k goes to the front and holds s: a Get, or a Put of another session.
LEMMA RenewFacts ==
    ASSUME CacheInv, NEW k \in DOMAIN m, NEW s \in Sessions \cup {nil},
           q' = MoveToFront(m[k]), m' = m, DOMAIN value' = DOMAIN value,
           \A e \in DOMAIN value :
               value'[e] = IF e = m[k] THEN [sessionKey |-> k, state |-> s] ELSE value[e]
    PROVE  /\ CacheInv' /\ Store!Renew(k, s)
           /\ Cached(k)' = s /\ \A j \in Keys \ {k} : Cached(j)' = Cached(j)
<1>0. PICK e, w : e = m[k] /\ w = [sessionKey |-> k, state |-> s]
  BY Zenon
<1>1. PICK i \in 1..Len(q) : q[i] = e /\ Store!Place(k) = i
  BY <1>0, Found
<1>2. /\ Entries = EntriesOf(q, value) /\ value[q[i]].sessionKey = k /\ Store!Holds(k)
      /\ k \in Keys /\ e \in Elems /\ e \in DOMAIN value
  BY <1>0, <1>1, Found
<1>3. q \in Seq(Elems) /\ \A a, b \in 1..Len(q) : q[a] = q[b] => a = b
  BY DEF CacheInv, CacheOK, Linked
<1>4. PICK R, M : R = RemoveAt(q, i) /\ M = Without(m, k)
  OBVIOUS
<1>5. q' = <<e>> \o R
  BY <1>0, <1>1, <1>3, <1>4, FrontFacts
<1>6. /\ CacheOK(M, R, value) /\ EntriesOf(R, value) = RemoveAt(EntriesOf(q, value), i)
      /\ Len(R) = Len(q) - 1 /\ NotIn(e, R)
  <2>1. /\ CacheOK(Without(m, value[q[i]].sessionKey), RemoveAt(q, i), value)
        /\ EntriesOf(RemoveAt(q, i), value) = RemoveAt(EntriesOf(q, value), i)
        /\ Len(RemoveAt(q, i)) = Len(q) - 1
        /\ NotIn(q[i], RemoveAt(q, i))
    BY Dropped DEF CacheInv
  <2> QED
    BY <1>1, <1>2, <1>4, <2>1
<1>7. Len(R) < Capacity
  <2>1. Len(q) \in Nat /\ Len(q) <= Capacity
    BY CacheFacts DEF CacheInv
  <2> QED
    BY <1>6, <2>1, CapacityAssumption
<1>8. k \notin DOMAIN M
  BY <1>4 DEF Without
<1>9. /\ CacheOK(With(M, k, e), <<e>> \o R, With(value, e, w))
      /\ EntriesOf(<<e>> \o R, With(value, e, w)) =
           <<[key |-> k, session |-> s]>> \o EntriesOf(R, value)
  <2>1. PushedOK(M, R, value, k, s, e)
    BY <1>2, <1>6, <1>7, <1>8, Pushed
  <2> QED
    BY <1>0, <2>1, Zenon DEF PushedOK
<1>10. /\ DOMAIN m' = DOMAIN With(M, k, e) /\ \A l \in DOMAIN m' : m'[l] = With(M, k, e)[l]
       /\ DOMAIN value' = DOMAIN With(value, e, w)
       /\ \A x \in DOMAIN value' : value'[x] = With(value, e, w)[x]
  BY <1>0, <1>2, <1>4, Zenon DEF With, Without
<1>11. CacheOK(m', q', value') /\ EntriesOf(q', value') = EntriesOf(q', With(value, e, w))
  <2>1. PICK M2, V2 : M2 = With(M, k, e) /\ V2 = With(value, e, w)
    OBVIOUS
  <2>2. CacheOK(M2, q', V2)
    BY <1>5, <1>9, <2>1
  <2>3. /\ DOMAIN m' = DOMAIN M2 /\ \A l \in DOMAIN M2 : m'[l] = M2[l]
        /\ DOMAIN value' = DOMAIN V2 /\ \A x \in DOMAIN V2 : value'[x] = V2[x]
    BY <1>10, <2>1
  <2>4. CacheOK(m', q', value') /\ EntriesOf(q', value') = EntriesOf(q', V2)
    BY <2>2, <2>3, SameCache, SMTT(30)
  <2> QED
    BY <2>1, <2>4
<1>12. Store!Renew(k, s)
  <2>1. Entries' = EntriesOf(q', value')
    BY DEF Entries, EntriesOf
  <2>2. Entries' = <<[key |-> k, session |-> s]>> \o RemoveAt(Entries, Store!Place(k))
    BY <1>1, <1>2, <1>5, <1>6, <1>9, <1>11, <2>1, SMTT(30)
  <2>3. Store!Holds(k)
    BY <1>2
  <2>4. Entries' = <<[key |-> k, session |-> s]>> \o Store!RemoveAt(Entries, Store!Place(k))
    BY <2>2, StoreLists, Zenon
  <2> QED
    BY <2>3, <2>4, Zenon DEF Store!Renew
<1>13. Cached(k)' = s
  BY <1>0, <1>2 DEF Cached
<1>14. ASSUME NEW j \in Keys \ {k} PROVE Cached(j)' = Cached(j)
  <2>1. CASE j \in DOMAIN m
    BY <2>1, Apart, Found, SMTT(30) DEF Cached
  <2>2. CASE j \notin DOMAIN m
    BY <2>2 DEF Cached
  <2> QED
    BY <2>1, <2>2
<1> QED
  BY <1>11, <1>12, <1>13, <1>14 DEF CacheInv

\* There is an element for a new entry.
LEMMA FreeElement ==
    ASSUME CacheInv, Len(q) < Capacity
    PROVE  LET e == CHOOSE x \in Elems : x \notin Range(q) IN e \in Elems /\ e \notin Range(q)
<1>1. PICK n : n = Len(q)
  OBVIOUS
<1>2. n \in Nat /\ q \in Seq(Elems) /\ q \in [1..n -> Elems] /\ DOMAIN q = 1..n
  BY <1>1, CacheFacts, LenProperties DEF CacheInv
<1>3. ~(Elems \subseteq Range(q))
  <2> SUFFICES ASSUME Elems \subseteq Range(q) PROVE FALSE
    OBVIOUS
  <2>1. q \in Surjection(1..n, Elems)
    BY <1>2 DEF Surjection, Range
  <2>2. Cardinality(Elems) <= n
    BY <1>2, <2>1, FS_SurjCardinalityBound DEF ExistsSurjection
  <2>3. Cardinality(Elems) \in Nat /\ Cardinality(Elems) >= Capacity
    BY ElemsAssumption, FS_CardinalityType
  <2> QED
    BY <1>1, <1>2, <2>2, <2>3, CapacityAssumption
<1> QED
  BY <1>3

\* A Put of a new key when there is room.
LEMMA PutInsertFacts ==
    ASSUME CacheInv, NEW k \in Keys \ DOMAIN m, NEW s \in Sessions \cup {nil}, Len(q) < Capacity,
           PutInsert(k, s)
    PROVE  /\ CacheInv' /\ Store!Insert(k, s)
           /\ Cached(k)' = s /\ \A j \in Keys \ {k} : Cached(j)' = Cached(j)
<1>0. PICK e, w : e = (CHOOSE x \in Elems : x \notin Range(q)) /\ w = [sessionKey |-> k, state |-> s]
  BY Zenon
<1>1. e \in Elems /\ e \notin Range(q)
  BY <1>0, FreeElement
<1>2. Len(q) \in Nat /\ DOMAIN q = 1..Len(q)
  BY CacheFacts, LenProperties DEF CacheInv
<1>3. \A j \in 1..Len(q) : q[j] # e
  BY <1>1, <1>2 DEF Range
<1>4. value' = With(value, e, w) /\ q' = <<e>> \o q /\ m' = With(m, k, e)
  BY <1>0 DEF PutInsert
<1>5. /\ CacheOK(m', q', value')
      /\ EntriesOf(q', value') = <<[key |-> k, session |-> s]>> \o EntriesOf(q, value)
  <2>1. CacheOK(m, q, value)
    BY DEF CacheInv
  <2>2. PushedOK(m, q, value, k, s, e)
    BY <1>1, <1>3, <2>1, Pushed DEF NotIn
  <2> QED
    BY <1>0, <1>4, <2>2 DEF PushedOK
<1>6. Store!Insert(k, s)
  <2>1. Entries' = EntriesOf(q', value')
    BY DEF Entries, EntriesOf
  <2>2. ~Store!Holds(k) /\ Entries = EntriesOf(q, value) /\ Len(Entries) # Capacity
    BY <1>2, NotFound, CapacityAssumption
  <2>3. Entries' = <<[key |-> k, session |-> s]>> \o Entries
    BY <1>5, <2>1, <2>2
  <2> QED
    BY <2>2, <2>3 DEF Store!Insert
<1>7. Cached(k)' = s
  BY <1>0, <1>4 DEF Cached, With
<1>8. ASSUME NEW j \in Keys \ {k} PROVE Cached(j)' = Cached(j)
  <2>1. CASE j \in DOMAIN m
    <3>1. m[j] # e /\ m[j] \in DOMAIN value
      BY <1>3, <2>1, Found
    <3> QED
      BY <1>4, <2>1, <3>1 DEF Cached, With
  <2>2. CASE j \notin DOMAIN m
    BY <1>4, <2>2 DEF Cached, With
  <2> QED
    BY <2>1, <2>2
<1> QED
  BY <1>5, <1>6, <1>7, <1>8 DEF CacheInv

\* The last element of a list, and the list without it.
LEMMA LastFacts ==
    ASSUME NEW S, NEW s \in Seq(S), s # << >>
    PROVE  Len(s) \in 1..Len(s) /\ Last(s) = s[Len(s)] /\ RemoveAt(s, Len(s)) = Front(s)
<1>1. PICK n : n = Len(s)
  OBVIOUS
<1>2. n \in Nat /\ n >= 1
  BY <1>1, EmptySeq, LenProperties
<1>3. PICK c, d : c = RemoveAt(s, n) /\ d = Front(s)
  OBVIOUS
<1>4. /\ c \in Seq(S) /\ Len(c) = n - 1
      /\ \A j \in 1..(n - 1) : c[j] = IF j < n THEN s[j] ELSE s[j + 1]
  <2>1. n \in 1..Len(s)
    BY <1>1, <1>2
  <2>2. /\ RemoveAt(s, n) \in Seq(S) /\ Len(RemoveAt(s, n)) = Len(s) - 1
        /\ \A j \in 1..(Len(s) - 1) : RemoveAt(s, n)[j] = IF j < n THEN s[j] ELSE s[j + 1]
    BY <2>1, RemoveAtFacts
  <2> QED
    BY <1>1, <1>3, <2>2
<1>5. /\ d \in Seq(S) /\ Len(d) = n - 1 /\ \A j \in 1..(n - 1) : d[j] = s[j]
  BY <1>1, <1>2, <1>3, SubSeqProperties DEF Front
<1>6. \A j \in 1..(n - 1) : c[j] = d[j]
  BY <1>2, <1>4, <1>5
<1>7. c = d
  BY <1>4, <1>5, <1>6, SeqEqual
<1> QED
  BY <1>1, <1>2, <1>3, <1>7 DEF Last

\* A Put of a new key when the list is full: the last entry gives its element.
LEMMA PutEvictFacts ==
    ASSUME CacheInv, NEW k \in Keys \ DOMAIN m, NEW s \in Sessions \cup {nil}, ~(Len(q) < Capacity),
           PutEvict(k, s)
    PROVE  /\ CacheInv' /\ Store!Insert(k, s)
           /\ Cached(k)' = s /\ \A j \in Keys \ {k} : Cached(j)' \in {Cached(j), nil}
<1>0. PICK i : i = Len(q)
  OBVIOUS
<1>1. q \in Seq(Elems) /\ i \in Nat /\ i = Capacity /\ i >= 1 /\ Linked(m, q, i, value)
  BY <1>0, CacheFacts, CapacityAssumption DEF CacheInv
<1>2. i \in 1..Len(q) /\ Last(q) = q[i] /\ q # << >>
  <2>1. q \in Seq(Elems) /\ Len(q) # 0
    BY <1>0, <1>1
  <2>2. q # << >>
    BY <2>1
  <2> QED
    BY <1>0, <2>1, <2>2, LastFacts
<1>3. PICK e, w, o : /\ e = q[i] /\ w = [sessionKey |-> k, state |-> s]
                     /\ o = value[q[i]].sessionKey
  BY Zenon
<1>4. e \in Elems /\ e \in DOMAIN value /\ o \in DOMAIN m /\ m[o] = e
  <2>1. q[i] \in Elems
    BY <1>1, <1>2, ElementOfSeq
  <2> QED
    BY <1>1, <1>3, <2>1 DEF Linked
<1>5. PICK R, M : R = RemoveAt(q, i) /\ M = Without(m, o)
  OBVIOUS
<1>6. value' = With(value, e, w) /\ q' = MoveToFront(e) /\ m' = With(M, k, e)
  BY <1>2, <1>3, <1>5 DEF PutEvict, Reuse
<1>7. q' = <<e>> \o R
  <2>1. \A a, b \in 1..Len(q) : q[a] = q[b] => a = b
    BY <1>0, <1>1, SMTT(30) DEF Linked
  <2> QED
    BY <1>1, <1>2, <1>3, <1>5, <1>6, <2>1, FrontFacts, SMTT(30)
<1>8. /\ CacheOK(M, R, value) /\ EntriesOf(R, value) = RemoveAt(EntriesOf(q, value), i)
      /\ Len(R) = Len(q) - 1 /\ NotIn(e, R)
  <2>1. /\ CacheOK(Without(m, value[q[i]].sessionKey), RemoveAt(q, i), value)
        /\ EntriesOf(RemoveAt(q, i), value) = RemoveAt(EntriesOf(q, value), i)
        /\ Len(RemoveAt(q, i)) = Len(q) - 1
        /\ NotIn(q[i], RemoveAt(q, i))
    BY <1>2, Dropped DEF CacheInv
  <2> QED
    BY <1>3, <1>5, <2>1
<1>9. Len(R) < Capacity /\ k \notin DOMAIN M
  <2>1. Len(R) = i - 1 /\ i \in Nat /\ i = Capacity
    BY <1>0, <1>1, <1>8, Zenon
  <2>2. Len(R) < Capacity
    BY <2>1
  <2> QED
    BY <1>5, <2>2 DEF Without
<1>10. /\ CacheOK(m', q', value')
       /\ EntriesOf(q', value') = <<[key |-> k, session |-> s]>> \o EntriesOf(R, value)
  <2>1. PushedOK(M, R, value, k, s, e)
    BY <1>4, <1>8, <1>9, Pushed
  <2> QED
    BY <1>3, <1>6, <1>7, <2>1, Zenon DEF PushedOK
<1>11. Store!Insert(k, s)
  <2>1. Entries' = EntriesOf(q', value')
    BY DEF Entries, EntriesOf
  <2>2. ~Store!Holds(k) /\ Entries = EntriesOf(q, value) /\ Len(Entries) = Capacity
    BY <1>0, <1>1, NotFound
  <2>3. RemoveAt(Entries, i) = Front(Entries)
    <3>1. Entries \in Seq(Item) /\ Len(Entries) = i
      BY <1>1, <2>2, CacheFacts DEF CacheInv
    <3>2. Entries # << >>
      BY <1>1, <3>1, EmptySeq
    <3> QED
      BY <3>1, <3>2, LastFacts, SMTT(30)
  <2>4. Entries' = <<[key |-> k, session |-> s]>> \o Front(Entries)
    BY <1>8, <1>10, <2>1, <2>2, <2>3, SMTT(30)
  <2> QED
    BY <2>2, <2>4, StoreLists DEF Store!Insert
<1>12. Cached(k)' = s
  BY <1>3, <1>6 DEF Cached, With
<1>13. ASSUME NEW j \in Keys \ {k} PROVE Cached(j)' \in {Cached(j), nil}
  <2>1. CASE j \in DOMAIN m /\ j # o
    <3>1. m[j] # e /\ m[j] \in DOMAIN value
      BY <1>4, <2>1, Found, Apart
    <3>2. j \in DOMAIN M /\ M[j] = m[j]
      BY <1>5, <2>1 DEF Without
    <3>3. j \in DOMAIN m' /\ m'[j] = m[j]
      BY <1>6, <3>2 DEF With
    <3>4. value'[m[j]] = value[m[j]]
      BY <1>6, <3>1 DEF With
    <3> QED
      BY <2>1, <3>3, <3>4 DEF Cached
  <2>2. CASE j \notin DOMAIN m \/ j = o
    BY <1>5, <1>6, <2>2 DEF Cached, With, Without
  <2> QED
    BY <2>1, <2>2
<1> QED
  BY <1>10, <1>11, <1>12, <1>13 DEF CacheInv

\* Any Put: k has its session, another key has the one it had or was evicted.
LEMMA PutFacts ==
    ASSUME CacheInv, NEW k \in Keys, NEW s \in Sessions \cup {nil}, Put(k, s)
    PROVE  /\ CacheInv' /\ Store!Next
           /\ Cached(k)' = s /\ \A j \in Keys \ {k} : Cached(j)' \in {Cached(j), nil}
<1>1. CASE k \in DOMAIN m /\ s = nil
  <2>1. PutRemove(k)
    BY <1>1 DEF Put
  <2>2. /\ CacheInv' /\ Store!Delete(k)
        /\ Cached(k)' = nil /\ \A j \in Keys \ {k} : Cached(j)' = Cached(j)
    BY <1>1, <2>1, PutRemoveFacts
  <2> QED
    BY <1>1, <2>2 DEF Store!Next
<1>2. CASE k \in DOMAIN m /\ s # nil
  <2>1. PutUpdate(k, s)
    BY <1>2 DEF Put
  <2>2. m[k] \in DOMAIN value /\ value[m[k]] \in Entry /\ value[m[k]].sessionKey = k
    BY <1>2, Found
  <2>3. q' = MoveToFront(m[k]) /\ m' = m /\ DOMAIN value' = DOMAIN value
    BY <2>1 DEF PutUpdate
  <2>4. ASSUME NEW e \in DOMAIN value
        PROVE  value'[e] = IF e = m[k] THEN [sessionKey |-> k, state |-> s] ELSE value[e]
    <3>1. CASE e = m[k]
      <4>1. value'[e] = [value[m[k]] EXCEPT !.state = s]
        BY <2>1, <3>1 DEF PutUpdate
      <4> QED
        BY <2>2, <3>1, <4>1 DEF Entry
    <3>2. CASE e # m[k]
      BY <2>1, <3>2 DEF PutUpdate
    <3> QED
      BY <3>1, <3>2
  <2>5. /\ CacheInv' /\ Store!Renew(k, s)
        /\ Cached(k)' = s /\ \A j \in Keys \ {k} : Cached(j)' = Cached(j)
    BY <1>2, <2>3, <2>4, RenewFacts
  <2> QED
    BY <1>2, <2>5 DEF Store!Next
<1>3. CASE k \notin DOMAIN m /\ Len(q) < Capacity
  <2>1. PutInsert(k, s)
    BY <1>3 DEF Put
  <2>2. /\ CacheInv' /\ Store!Insert(k, s)
        /\ Cached(k)' = s /\ \A j \in Keys \ {k} : Cached(j)' = Cached(j)
    BY <1>3, <2>1, PutInsertFacts
  <2> QED
    BY <2>2 DEF Store!Next
<1>4. CASE k \notin DOMAIN m /\ ~(Len(q) < Capacity)
  <2>1. PutEvict(k, s)
    BY <1>4 DEF Put
  <2>2. /\ CacheInv' /\ Store!Insert(k, s)
        /\ Cached(k)' = s /\ \A j \in Keys \ {k} : Cached(j)' \in {Cached(j), nil}
    BY <1>4, <2>1, PutEvictFacts
  <2> QED
    BY <2>2 DEF Store!Next
<1> QED
  BY <1>1, <1>2, <1>3, <1>4

\* A Get changes no session.
LEMMA GetFacts ==
    ASSUME CacheInv, NEW k \in Keys, Get(k)
    PROVE  /\ CacheInv' /\ (Store!Next \/ Entries' = Entries)
           /\ \A j \in Keys : Cached(j)' = Cached(j)
<1>1. CASE k \in DOMAIN m
  <2>1. /\ m[k] \in DOMAIN value /\ value[m[k]] \in Entry /\ value[m[k]].sessionKey = k
        /\ \E i \in 1..Len(q) : q[i] = m[k] /\ Store!Place(k) = i
    BY <1>1, Found
  <2>2. PICK s : s = value[m[k]].state
    OBVIOUS
  <2>3. s \in Sessions \cup {nil}
    BY <2>1, <2>2 DEF Entry
  <2>4. q' = MoveToFront(m[k]) /\ m' = m /\ DOMAIN value' = DOMAIN value
    BY <1>1 DEF Get
  <2>5. \A e \in DOMAIN value :
            value'[e] = IF e = m[k] THEN [sessionKey |-> k, state |-> s] ELSE value[e]
    BY <1>1, <2>1, <2>2 DEF Get, Entry
  <2>6. /\ CacheInv' /\ Store!Renew(k, s)
        /\ Cached(k)' = s /\ \A j \in Keys \ {k} : Cached(j)' = Cached(j)
    BY <1>1, <2>3, <2>4, <2>5, RenewFacts, SMTT(30)
  <2>7. Entries[Store!Place(k)].session = s
    BY <2>1, <2>2 DEF Entries
  <2>8. Store!Touch(k)
    BY <2>6, <2>7 DEF Store!Touch
  <2>9. Cached(k) = s
    BY <1>1, <2>2 DEF Cached
  <2> QED
    BY <2>6, <2>8, <2>9 DEF Store!Next
<1>2. CASE k \notin DOMAIN m
  <2>1. m' = m /\ q' = q /\ value' = value
    BY <1>2 DEF Get, cacheVars
  <2> QED
    BY <2>1 DEF CacheInv, Cached, Entries
<1> QED
  BY <1>1, <1>2

-----------------------------------------------------------------------------
(* The handshakes that share the cache.                                    *)

Handshakes ==
    /\ pc \in [Clients -> {"idle", "expired", "hs", "failed", "open"}]
    /\ server \in [Clients -> Keys]
    /\ offered \in [Clients -> Sessions \cup {nil}]
    /\ left \in [Clients -> 0..MaxHandshakes]
    /\ issuedBy \in Seq(Keys) /\ Len(issuedBy) <= MaxSessions
    /\ dropped \subseteq 1..Len(issuedBy)

\* s is a session the server of k issued.
IssuedTo(s, k) == s \in 1..Len(issuedBy) /\ issuedBy[s] = k

\* What is cached under a name, and what is offered, was issued by that server; a
\* handshake that throws a session away has offered one.
Attributed ==
    /\ \A k \in Keys : Cached(k) # nil => IssuedTo(Cached(k), k)
    /\ \A t \in Clients : offered[t] # nil => IssuedTo(offered[t], server[t])
    /\ \A t \in Clients : pc[t] = "failed" => offered[t] # nil

SessionsInv == CacheInv /\ Handshakes /\ Attributed /\ DroppedStaysOut

\* The empty cache is an empty store.
LEMMA SessionsStart == Init => SessionsInv /\ Store!Init
<1> SUFFICES ASSUME Init PROVE SessionsInv /\ Store!Init
  OBVIOUS
<1>1. CacheInv
  BY CapacityAssumption DEF Init, CacheInv, CacheOK, Linked
<1>2. Handshakes
  BY BoundsAssumption DEF Init, Handshakes
<1>3. Attributed /\ DroppedStaysOut
  BY DEF Init, Attributed, DroppedStaysOut, Cached, nil
<1>4. Store!Init
  BY DEF Init, Entries, Store!Init
<1> QED
  BY <1>1, <1>2, <1>3, <1>4 DEF SessionsInv

\* A step in which t touches its own handshake and no session is issued or put in the cache.
LEMMA QuietStep ==
    ASSUME SessionsInv, CacheInv', Handshakes',
           \A j \in Keys : Cached(j)' \in {Cached(j), nil},
           issuedBy' = issuedBy, dropped' = dropped,
           NEW t \in Clients,
           \A u \in Clients \ {t} :
               pc'[u] = pc[u] /\ server'[u] = server[u] /\ offered'[u] = offered[u],
           \/ offered'[t] = nil
           \/ offered'[t] = offered[t] /\ server'[t] = server[t]
           \/ offered'[t] = Cached(server'[t]),
           pc'[t] = "failed" => offered'[t] # nil
    PROVE  SessionsInv'
<1>1. ASSUME NEW k \in Keys, Cached(k)' # nil PROVE IssuedTo(Cached(k), k)'
  BY <1>1 DEF SessionsInv, Attributed, IssuedTo
<1>2. ASSUME NEW u \in Clients, offered'[u] # nil PROVE IssuedTo(offered[u], server[u])'
  <2>1. server'[u] \in Keys
    BY DEF Handshakes
  <2> QED
    BY <1>2, <2>1 DEF SessionsInv, Attributed, IssuedTo
<1>3. ASSUME NEW u \in Clients, pc'[u] = "failed" PROVE offered'[u] # nil
  BY <1>3 DEF SessionsInv, Attributed
<1>4. \A k \in Keys : Cached(k)' \notin dropped'
  <2>1. nil \notin dropped
    BY DEF SessionsInv, Handshakes, nil
  <2> QED
    BY <2>1 DEF SessionsInv, DroppedStaysOut
<1> QED
  BY <1>1, <1>2, <1>3, <1>4 DEF SessionsInv, Attributed, DroppedStaysOut

\* t throws the session away that it offered.
LEMMA DropStep ==
    ASSUME SessionsInv, NEW t \in Clients, DropFailed(t)
    PROVE  SessionsInv' /\ Store!Next
<1>1. PICK k, o : k = server[t] /\ o = offered[t]
  OBVIOUS
<1>2. k \in Keys /\ o # nil /\ IssuedTo(o, k) /\ nil \notin dropped
  BY <1>1 DEF SessionsInv, Handshakes, Attributed, DropFailed, nil
<1>3. /\ CacheInv' /\ Store!Next
      /\ Cached(k)' = nil /\ \A j \in Keys \ {k} : Cached(j)' \in {Cached(j), nil}
  <2>1. CacheInv /\ Put(k, nil)
    BY <1>1 DEF SessionsInv, DropFailed
  <2> QED
    BY <1>2, <2>1, PutFacts
<1>4. /\ issuedBy' = issuedBy /\ server' = server /\ left' = left /\ dropped' = dropped \cup {o}
      /\ offered' = [offered EXCEPT ![t] = nil] /\ pc' = [pc EXCEPT ![t] = "idle"]
  BY <1>1 DEF DropFailed, Goto
<1>5. Handshakes'
  BY <1>2, <1>4 DEF SessionsInv, Handshakes, IssuedTo
<1>6. \A j \in Keys : Cached(j)' # nil => IssuedTo(Cached(j), j)'
  BY <1>3, <1>4 DEF SessionsInv, Attributed, IssuedTo
<1>7. /\ \A u \in Clients : offered'[u] # nil => IssuedTo(offered[u], server[u])'
      /\ \A u \in Clients : pc'[u] = "failed" => offered'[u] # nil
  BY <1>4 DEF SessionsInv, Handshakes, Attributed, IssuedTo
<1>8. ASSUME NEW j \in Keys PROVE Cached(j)' \notin dropped'
  <2>1. CASE Cached(j)' = nil
    BY <1>2, <1>4, <2>1
  <2>2. CASE Cached(j)' # nil
    <3>1. j # k /\ Cached(j)' = Cached(j)
      BY <1>3, <2>2
    <3>2. Cached(j) # o /\ Cached(j) \notin dropped
      BY <1>2, <2>2, <3>1, SMTT(30) DEF SessionsInv, Attributed, IssuedTo, DroppedStaysOut
    <3> QED
      BY <1>4, <3>1, <3>2
  <2> QED
    BY <2>1, <2>2
<1> QED
  BY <1>3, <1>5, <1>6, <1>7, <1>8 DEF SessionsInv, Attributed, DroppedStaysOut

\* The server of t issues a session and t puts it in the cache.
LEMMA SaveStep ==
    ASSUME SessionsInv, NEW t \in Clients, SaveAs(t, server[t]), NEW l,
           l \in {"idle", "open"}, pc' = [pc EXCEPT ![t] = l],
           offered' = offered \/ offered' = [offered EXCEPT ![t] = nil],
           server' = server, left' = left, dropped' = dropped
    PROVE  SessionsInv' /\ Store!Next
<1>1. PICK k, n : k = server[t] /\ n = Len(issuedBy)
  BY Zenon
<1>2. /\ k \in Keys /\ issuedBy \in Seq(Keys) /\ n \in Nat /\ n < MaxSessions
      /\ n + 1 \in Sessions /\ dropped \subseteq 1..n
  BY <1>1, LenProperties, BoundsAssumption DEF SessionsInv, Handshakes, SaveAs, Sessions
<1>3. /\ CacheInv' /\ Store!Next
      /\ Cached(k)' = n + 1 /\ \A j \in Keys \ {k} : Cached(j)' \in {Cached(j), nil}
  <2>1. CacheInv /\ Put(k, n + 1)
    BY <1>1 DEF SessionsInv, SaveAs
  <2> QED
    BY <1>2, <2>1, PutFacts
<1>4. /\ issuedBy' \in Seq(Keys) /\ Len(issuedBy') = n + 1
      /\ issuedBy'[n + 1] = k /\ \A s \in 1..n : issuedBy'[s] = issuedBy[s]
  <2>1. issuedBy' = Append(issuedBy, k)
    BY <1>1 DEF SaveAs
  <2> QED
    BY <1>1, <1>2, <2>1, AppendProperties
<1>6. Handshakes'
  <2>1. /\ pc' \in [Clients -> {"idle", "expired", "hs", "failed", "open"}]
        /\ offered' \in [Clients -> Sessions \cup {nil}]
    BY Zenon DEF SessionsInv, Handshakes
  <2>2. server' \in [Clients -> Keys] /\ left' \in [Clients -> 0..MaxHandshakes]
    BY DEF SessionsInv, Handshakes
  <2>3. Len(issuedBy') <= MaxSessions /\ dropped' \subseteq 1..Len(issuedBy')
    BY <1>2, <1>4, BoundsAssumption
  <2> QED
    BY <1>4, <2>1, <2>2, <2>3 DEF Handshakes
<1>7. ASSUME NEW j \in Keys, Cached(j)' # nil PROVE IssuedTo(Cached(j), j)' /\ Cached(j)' \notin dropped'
  <2>1. CASE j = k
    BY <1>2, <1>3, <1>4, <2>1 DEF IssuedTo
  <2>2. CASE j # k
    <3>1. Cached(j)' = Cached(j)
      BY <1>3, <1>7, <2>2
    <3>2. IssuedTo(Cached(j), j) /\ Cached(j) \notin dropped
      BY <1>7, <3>1 DEF SessionsInv, Attributed, DroppedStaysOut
    <3>3. IssuedTo(Cached(j), j)'
      BY <1>1, <1>2, <1>4, <3>1, <3>2 DEF IssuedTo
    <3> QED
      BY <3>1, <3>2, <3>3
  <2> QED
    BY <2>1, <2>2
<1>8. \A j \in Keys : Cached(j)' \notin dropped'
  BY <1>2, <1>7 DEF nil
<1>9. ASSUME NEW u \in Clients, offered'[u] # nil PROVE IssuedTo(offered[u], server[u])'
  <2>1. offered'[u] = offered[u]
    BY <1>9 DEF SessionsInv, Handshakes
  <2>2. IssuedTo(offered[u], server[u])
    BY <1>9, <2>1 DEF SessionsInv, Attributed
  <2> QED
    BY <1>1, <1>2, <1>4, <2>1, <2>2 DEF IssuedTo
<1>10. \A u \in Clients : pc'[u] = "failed" => offered'[u] # nil
  BY DEF SessionsInv, Handshakes, Attributed
<1> QED
  BY <1>3, <1>6, <1>7, <1>8, <1>9, <1>10 DEF SessionsInv, Attributed, DroppedStaysOut

\* Every step keeps the invariant, and is a step of the store or changes no entry.
LEMMA SessionsStep ==
    ASSUME SessionsInv, Next
    PROVE  SessionsInv' /\ (Store!Next \/ Entries' = Entries)
<1>1. PICK t \in Clients :
          \/ \E k \in Keys : LoadSession(t, k) \/ LoadNone(t, k) \/ LoadExpired(t, k)
          \/ DropExpired(t) \/ Fail(t) \/ DropFailed(t)
          \/ SaveSessionTicket(t) \/ Established(t) \/ HandleNewSessionTicket(t) \/ Close(t)
  BY DEF Next
<1>2. CacheInv /\ Handshakes
  BY DEF SessionsInv
<1>3. ASSUME NEW k \in Keys, LoadSession(t, k) \/ LoadNone(t, k) \/ LoadExpired(t, k)
      PROVE  SessionsInv' /\ (Store!Next \/ Entries' = Entries)
  <2>1. PICK s, l : /\ s = Cached(k) \/ s = nil
                    /\ l = "hs" \/ l = "expired"
                    /\ Load(t, k, s, l)
    BY <1>3 DEF LoadSession, LoadNone, LoadExpired
  <2>2. /\ left[t] > 0 /\ left' = [left EXCEPT ![t] = @ - 1] /\ server' = [server EXCEPT ![t] = k]
        /\ offered' = [offered EXCEPT ![t] = s] /\ pc' = [pc EXCEPT ![t] = l]
        /\ issuedBy' = issuedBy /\ dropped' = dropped /\ Get(k)
    BY <2>1 DEF Load, Goto
  <2>3. CacheInv' /\ (Store!Next \/ Entries' = Entries) /\ \A j \in Keys : Cached(j)' = Cached(j)
    BY <1>2, <2>2, GetFacts, SMTT(30)
  <2>4. s \in Sessions \cup {nil}
    BY <1>2, <2>1, Found DEF Cached, Entry
  <2>5. Handshakes'
    BY <1>2, <2>1, <2>2, <2>4, BoundsAssumption, SMTT(30) DEF Handshakes
  <2>6. /\ \A u \in Clients \ {t} :
              pc'[u] = pc[u] /\ server'[u] = server[u] /\ offered'[u] = offered[u]
        /\ offered'[t] = nil \/ offered'[t] = Cached(server'[t])
        /\ pc'[t] # "failed"
    BY <1>2, <2>1, <2>2, SMTT(30) DEF Handshakes
  <2> QED
    BY <2>2, <2>3, <2>5, <2>6, QuietStep
<1>4. ASSUME DropExpired(t) PROVE SessionsInv' /\ Store!Next
  <2>1. PICK k \in Keys : k = server[t]
    BY <1>2 DEF Handshakes
  <2>2. Put(k, nil)
    BY <1>4, <2>1 DEF DropExpired
  <2>3. /\ CacheInv' /\ Store!Next /\ Cached(k)' = nil
        /\ \A j \in Keys \ {k} : Cached(j)' \in {Cached(j), nil}
    BY <1>2, <2>2, PutFacts
  <2>4. /\ pc' = [pc EXCEPT ![t] = "hs"] /\ server' = server /\ offered' = offered /\ left' = left
        /\ issuedBy' = issuedBy /\ dropped' = dropped
    BY <1>4 DEF DropExpired, Goto
  <2>5. Handshakes'
    BY <1>2, <2>4 DEF Handshakes
  <2>6. /\ \A j \in Keys : Cached(j)' \in {Cached(j), nil}
        /\ \A u \in Clients \ {t} : pc'[u] = pc[u]
        /\ pc'[t] # "failed"
    BY <1>2, <2>3, <2>4 DEF Handshakes
  <2> QED
    BY <2>3, <2>4, <2>5, <2>6, QuietStep
<1>5. ASSUME Fail(t) \/ Established(t) \/ Close(t) PROVE SessionsInv' /\ Entries' = Entries
  <2>1. PICK l : /\ pc' = [pc EXCEPT ![t] = l] /\ l \in {"idle", "failed", "open"}
                 /\ l = "failed" => offered[t] # nil /\ offered' = offered
                 /\ offered' = offered \/ offered' = [offered EXCEPT ![t] = nil]
    BY <1>5 DEF Fail, Established, Close, Goto
  <2>2. /\ m' = m /\ q' = q /\ value' = value /\ server' = server /\ left' = left
        /\ issuedBy' = issuedBy /\ dropped' = dropped
    BY <1>5, SMTT(30) DEF Fail, Established, Close, cacheVars
  <2>3. CacheInv' /\ Entries' = Entries /\ \A j \in Keys : Cached(j)' = Cached(j)
    BY <1>2, <2>2 DEF CacheInv, Entries, Cached
  <2>4. Handshakes'
    BY <1>2, <2>1, <2>2, SMTT(30) DEF Handshakes
  <2>5. /\ \A u \in Clients \ {t} : pc'[u] = pc[u] /\ offered'[u] = offered[u]
        /\ offered'[t] = nil \/ offered'[t] = offered[t]
        /\ pc'[t] = "failed" => offered'[t] # nil
    BY <1>2, <2>1 DEF Handshakes
  <2> QED
    BY <2>2, <2>3, <2>4, <2>5, QuietStep, Zenon
<1>6. ASSUME SaveSessionTicket(t) PROVE SessionsInv' /\ Store!Next
  BY <1>6, SaveStep, Zenon DEF SaveSessionTicket, Goto
<1>7. ASSUME HandleNewSessionTicket(t) PROVE SessionsInv' /\ Store!Next
  <2>1. pc' = [pc EXCEPT ![t] = "open"]
    BY <1>2, <1>7 DEF HandleNewSessionTicket, Handshakes
  <2> QED
    BY <1>7, <2>1, SaveStep, Zenon DEF HandleNewSessionTicket
<1>8. ASSUME DropFailed(t) PROVE SessionsInv' /\ Store!Next
  BY <1>8, DropStep, SMTT(30)
<1> QED
  BY <1>1, <1>3, <1>4, <1>5, <1>6, <1>7, <1>8

\* A step that changes nothing keeps all of it.
LEMMA SessionsStutter ==
    ASSUME SessionsInv, UNCHANGED vars
    PROVE  SessionsInv' /\ Entries' = Entries
BY Zenon DEF vars, cacheVars, SessionsInv, CacheInv, Handshakes, Attributed, IssuedTo, DroppedStaysOut,
       Cached, Entries

\* The inductive invariant holds in every state: map, list and elements of
\* lruSessionCache agree, and what is cached or offered was issued by its server.
THEOREM SessionsInvariant == Spec => []SessionsInv
<1>1. Init => SessionsInv
  BY SessionsStart
<1>2. SessionsInv /\ [Next]_vars => SessionsInv'
  BY SessionsStep, SessionsStutter
<1> QED
  BY <1>1, <1>2, PTL DEF Spec

\* The keys of the map are as many as the elements of the list.
LEMMA KeysCounted == CacheInv => Cardinality(DOMAIN m) = Len(q)
<1> SUFFICES ASSUME CacheInv PROVE Cardinality(DOMAIN m) = Len(q)
  OBVIOUS
<1>1. PICK n : n = Len(q)
  BY Zenon
<1>2. n \in Nat /\ Linked(m, q, n, value)
  BY <1>1, CacheFacts DEF CacheInv
<1> DEFINE f == [i \in 1..n |-> value[q[i]].sessionKey]
<1>3. f \in Bijection(1..n, DOMAIN m)
  <2>1. f \in [1..n -> DOMAIN m]
    BY <1>2 DEF Linked
  <2>2. \A a, b \in 1..n : f[a] = f[b] => a = b
    BY <1>2 DEF Linked
  <2>3. \A k \in DOMAIN m : \E i \in 1..n : f[i] = k
    BY <1>2 DEF Linked
  <2> QED
    BY <2>1, <2>2, <2>3 DEF Bijection, Injection, Surjection, IsInjective
<1>4. ExistsBijection(1..n, DOMAIN m)
  BY <1>3 DEF ExistsBijection
<1> QED
  BY <1>1, <1>2, <1>4, FS_CountingElements

\* Whatever handshakes Get and Put at the same time, the map and the list of
\* lruSessionCache hold the same entries, no more than its capacity.
THEOREM MapAndListTogether == Spec => []MapAndListAgree
<1>1. SessionsInv => MapAndListAgree
  <2> SUFFICES ASSUME SessionsInv PROVE MapAndListAgree
    OBVIOUS
  <2>1. CacheInv /\ Handshakes
    BY DEF SessionsInv
  <2>2. Cardinality(DOMAIN m) = Len(q)
    BY <2>1, KeysCounted
  <2>3. \A i \in 1..Len(q) : value[q[i]].sessionKey \in DOMAIN m /\ m[value[q[i]].sessionKey] = q[i]
    BY <2>1 DEF CacheInv, CacheOK, Linked
  <2>4. dropped \subseteq Sessions
    BY <2>1, LenProperties, BoundsAssumption, SMTT(30) DEF Handshakes, Sessions
  <2>5. TypeOK
    BY <2>1, <2>4, SMTT(30) DEF TypeOK, CacheInv, CacheOK, Handshakes
  <2> QED
    BY <2>2, <2>3, <2>5 DEF MapAndListAgree
<1> QED
  BY <1>1, SessionsInvariant, PTL

\* loadSession offers a server only a session that server issued, however often Put
\* has reused the elements of the list in between.
THEOREM OfferToIssuer == Spec => []OfferedToIssuer
<1>1. SessionsInv => OfferedToIssuer
  BY DEF SessionsInv, Attributed, IssuedTo, OfferedToIssuer
<1> QED
  BY <1>1, SessionsInvariant, PTL

\* No Get finds a session again that the deferred function of clientHandshake threw
\* away: no handshake still puts it back, and no other key holds it.
THEOREM DroppedForGood == Spec => []DroppedStaysOut
<1>1. SessionsInv => DroppedStaysOut
  BY DEF SessionsInv
<1> QED
  BY <1>1, SessionsInvariant, PTL

\* lruSessionCache implements the store: each Get and Put is one step of it on the
\* entries in the order of the list.
THEOREM CacheImplementsStore == Spec => ImplementsStore
<1>1. Init => Store!Init
  BY SessionsStart
<1>2. SessionsInv /\ [Next]_vars => [Store!Next]_Entries
  BY SessionsStep, SessionsStutter
<1> QED
  BY <1>1, <1>2, SessionsInvariant, PTL DEF Spec, ImplementsStore, Store!Spec
=============================================================================
