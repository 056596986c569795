------------------------ MODULE CertExchange_proofs ------------------------
(***************************************************************************)
(* The reference counts and the table of CertCache, for any callers,       *)
(* certificates and entries; then the exchange of certificates: it uses    *)
(* the cache as the cache expects, accounts for every handle, opens only   *)
(* what was proven and rejects only for the time.                          *)
(***************************************************************************)
EXTENDS CertExchange, FiniteSetTheorems, WellFoundedInduction, TLAPS

-----------------------------------------------------------------------------
(* The cache.                                                              *)

\* What Proceed does to the calls.
LEMMA ProceedEffect ==
  ASSUME call \in [Callers -> Call], NEW t \in Callers,
         NEW l \in {"idle", "parse", "store", "active", "ok", "failed"},
         NEW e \in Entries \cup {none}, Proceed(t, l, e)
  PROVE  /\ call' \in [Callers -> Call]
         /\ call'[t].pc = l /\ call'[t].entry = e /\ call'[t].der = call[t].der
         /\ \A u \in Callers \ {t} : call'[u] = call[u]
<1> DEFINE new == [call[t] EXCEPT !.pc = l, !.entry = e]
<1>1. call' = [call EXCEPT ![t] = new]
  BY Zenon DEF Proceed
<1>2. new \in Call /\ new.pc = l /\ new.entry = e /\ new.der = call[t].der
  BY Zenon DEF Call
<1> QED
  BY <1>1, <1>2

\* The invariant holds at first.
LEMMA CacheInitInv == CacheInit => CacheInv
<1> SUFFICES ASSUME CacheInit PROVE CacheInv
  OBVIOUS
<1> USE NoneAssumption DEF CacheInit
<1>1. CacheTypeOK
  BY DEF CacheTypeOK, Call
<1>2. RefsExact /\ NoneLeftBehind /\ CallsAgree
  BY DEF RefsExact, NoneLeftBehind, CallsAgree
<1> QED
  BY <1>1, <1>2 DEF CacheInv

\* Every step of newCert, of the finalizers and of those who hold handles preserves
\* the invariant.
LEMMA CacheStep == CacheInv /\ [CacheNext]_cacheVars => CacheInv'
<1> SUFFICES ASSUME CacheInv, [CacheNext]_cacheVars PROVE CacheInv'
  OBVIOUS
<1> USE NoneAssumption DEF CacheInv
<1>1. ASSUME NEW t \in Callers, NEW d \in Ders, LoadCert(t, d) PROVE CacheInv'
  <2> USE <1>1 DEF LoadCert
  <2>1. CacheTypeOK'
    BY DEF CacheTypeOK, Call
  <2>2. RefsExact'
    BY DEF RefsExact
  <2>3. NoneLeftBehind'
    BY DEF NoneLeftBehind, CacheTypeOK, Call
  <2>4. CallsAgree'
    BY DEF CallsAgree, NoneLeftBehind, CacheTypeOK, Call
  <2> QED
    BY <2>1, <2>2, <2>3, <2>4
<1>2. ASSUME NEW t \in Callers, ParseFails(t) \/ ReturnCert(t) PROVE CacheInv'
  <2> USE <1>2 DEF ParseFails, ReturnCert
  <2>0. /\ call' \in [Callers -> Call] /\ call'[t].pc \in {"idle", "failed"}
        /\ call'[t].entry = none /\ call[t].pc \in {"parse", "ok", "failed"}
        /\ \A u \in Callers \ {t} : call'[u] = call[u]
    BY ProceedEffect DEF CacheTypeOK
  <2>1. CacheTypeOK'
    BY <2>0 DEF CacheTypeOK, Call
  <2>2. RefsExact'
    BY <2>0 DEF RefsExact
  <2>3. NoneLeftBehind'
    BY <2>0 DEF NoneLeftBehind, CacheTypeOK, Call
  <2>4. CallsAgree'
    <3> SUFFICES ASSUME NEW s \in Callers, call'[s].pc \in {"store", "active", "ok"}
                 PROVE  /\ call'[s].entry # none /\ raw'[call'[s].entry] = call'[s].der
                        /\ call'[s].pc = "store" =>
                             /\ refs'[call'[s].entry] = 0
                             /\ \A d \in Ders : table'[d] # call'[s].entry
                             /\ evicting' # call'[s].entry
                             /\ \A u \in Callers \ {s} : call'[u].entry # call'[s].entry
      BY DEF CallsAgree
    <3>1. s # t /\ call'[s] = call[s]
      BY <2>0
    <3> QED
      BY <2>0, <3>1 DEF CallsAgree
  <2> QED
    BY <2>1, <2>2, <2>3, <2>4
<1>3. ASSUME NEW t \in Callers, NEW e \in Entries, Parse(t, e) PROVE CacheInv'
  <2> USE <1>3 DEF Parse
  <2>0. /\ call' \in [Callers -> Call] /\ call'[t].pc = "store"
        /\ call'[t].entry = e /\ call'[t].der = call[t].der
        /\ \A u \in Callers \ {t} : call'[u] = call[u]
    BY ProceedEffect DEF CacheTypeOK
  <2>1. CacheTypeOK'
    BY <2>0 DEF CacheTypeOK, Call
  <2>2. RefsExact'
    BY <2>0 DEF RefsExact
  <2>3. NoneLeftBehind'
    BY <2>0 DEF NoneLeftBehind, CacheTypeOK, Call, Garbage
  <2>4. CallsAgree'
    BY <2>0 DEF CallsAgree, CacheTypeOK, Call, Garbage
  <2> QED
    BY <2>1, <2>2, <2>3, <2>4
<1>4. ASSUME NEW t \in Callers, LoadOrStore(t) PROVE CacheInv'
  <2> DEFINE d == call[t].der
             f == IF table[d] = none THEN call[t].entry ELSE table[d]
  <2>a. call[t] \in Call /\ d \in Ders /\ f \in Entries /\ call[t].pc = "store"
    BY <1>4 DEF CacheTypeOK, Call, CallsAgree, LoadOrStore
  <2>b. Proceed(t, "active", f)
    BY <1>4 DEF LoadOrStore
  <2>0. /\ call' \in [Callers -> Call] /\ call'[t].pc = "active"
        /\ call'[t].entry = f /\ call'[t].der = d
        /\ \A u \in Callers \ {t} : call'[u] = call[u]
    BY <2>a, <2>b, ProceedEffect DEF CacheTypeOK
  <2>c. table' = [table EXCEPT ![d] = f] /\ UNCHANGED <<raw, refs, live, dead, evicting>>
    BY <1>4, <2>a DEF LoadOrStore, CacheTypeOK
  <2>d. raw[f] = d
    BY <2>a DEF CallsAgree, NoneLeftBehind
  <2> HIDE DEF d, f
  <2> USE <2>a, <2>c, <2>d
  <2>1. CacheTypeOK'
    BY <2>0 DEF CacheTypeOK, Call, CallsAgree
  <2>2. RefsExact'
    BY <2>0 DEF RefsExact
  <2>3. NoneLeftBehind'
    BY <2>0 DEF NoneLeftBehind, CacheTypeOK, Call, CallsAgree
  <2>4. CallsAgree'
    <3> SUFFICES ASSUME NEW s \in Callers, call'[s].pc \in {"store", "active", "ok"}
                 PROVE  /\ call'[s].entry # none /\ raw'[call'[s].entry] = call'[s].der
                        /\ call'[s].pc = "store" =>
                             /\ refs'[call'[s].entry] = 0
                             /\ \A x \in Ders : table'[x] # call'[s].entry
                             /\ evicting' # call'[s].entry
                             /\ \A u \in Callers \ {s} : call'[u].entry # call'[s].entry
      BY DEF CallsAgree
    <3>1. CASE s = t
      BY <2>0, <3>1
    <3>2. CASE s # t
      <4>1. call'[s] = call[s]
        BY <2>0, <3>2
      <4>2. call[s].pc = "store" => f # call[s].entry
        BY <3>2 DEF CallsAgree, f
      <4> QED
        BY <2>0, <3>2, <4>1, <4>2 DEF CallsAgree, CacheTypeOK
    <3> QED
      BY <3>1, <3>2
  <2> QED
    BY <2>1, <2>2, <2>3, <2>4
<1>5. ASSUME NEW t \in Callers, Activate(t) PROVE CacheInv'
  <2> USE <1>5 DEF Activate
  <2>a. call[t].entry \in Entries
    BY DEF CallsAgree, CacheTypeOK, Call
  <2>0. /\ call[t].entry \in Entries
        /\ call' \in [Callers -> Call] /\ call'[t].pc = "ok"
        /\ call'[t].entry = call[t].entry /\ call'[t].der = call[t].der
        /\ \A u \in Callers \ {t} : call'[u] = call[u]
    BY <2>a, ProceedEffect DEF CacheTypeOK
  <2>1. CacheTypeOK'
    BY <2>0 DEF CacheTypeOK, Call
  <2>2. RefsExact'
    BY <2>0 DEF RefsExact, CacheTypeOK
  <2>3. NoneLeftBehind'
    BY <2>0 DEF NoneLeftBehind, CacheTypeOK, Call
  <2>4. CallsAgree'
    BY <2>0 DEF CallsAgree, CacheTypeOK, Call
  <2> QED
    BY <2>1, <2>2, <2>3, <2>4
<1>6. ASSUME DropHandles PROVE CacheInv'
  <2> USE <1>6 DEF DropHandles
  <2>0. /\ call' \in [Callers -> Call]
        /\ \A u \in Callers : \/ call'[u] = call[u]
                              \/ call[u].pc = "failed" /\ call'[u].pc = "idle" /\ call'[u].entry = none
    BY ProceedEffect DEF CacheTypeOK
  <2>1. CacheTypeOK'
    BY <2>0 DEF CacheTypeOK, Call
  <2>2. RefsExact'
    BY <2>0 DEF RefsExact, CacheTypeOK
  <2>3. NoneLeftBehind'
    BY <2>0 DEF NoneLeftBehind, CacheTypeOK, Call
  <2>4. CallsAgree'
    BY <2>0 DEF CallsAgree, CacheTypeOK, Call
  <2> QED
    BY <2>1, <2>2, <2>3, <2>4
<1>7. ASSUME NEW e \in Entries, Finalize(e) PROVE CacheInv'
  <2> USE <1>7 DEF Finalize
  <2>0. refs[e] \in Nat /\ refs[e] > 0 /\ dead[e] \in Nat
    BY DEF RefsExact, CacheTypeOK
  <2>1. CacheTypeOK'
    BY <2>0 DEF CacheTypeOK
  <2>2. RefsExact'
    BY <2>0 DEF RefsExact, CacheTypeOK
  <2>3. NoneLeftBehind'
    BY <2>0 DEF NoneLeftBehind, CacheTypeOK
  <2>4. CallsAgree'
    BY <2>0 DEF CallsAgree, CacheTypeOK
  <2> QED
    BY <2>1, <2>2, <2>3, <2>4
<1>8. ASSUME Evict PROVE CacheInv'
  <2> USE <1>8 DEF Evict
  <2>1. CacheTypeOK'
    BY DEF CacheTypeOK
  <2>2. RefsExact'
    BY DEF RefsExact
  <2>3. NoneLeftBehind'
    BY DEF NoneLeftBehind, CacheTypeOK
  <2>4. CallsAgree'
    BY DEF CallsAgree, CacheTypeOK
  <2> QED
    BY <2>1, <2>2, <2>3, <2>4
<1>9. ASSUME UNCHANGED cacheVars PROVE CacheInv'
  BY <1>9 DEF cacheVars, CacheTypeOK, RefsExact, NoneLeftBehind, CallsAgree, Call
<1> QED
  BY <1>1, <1>2, <1>3, <1>4, <1>5, <1>6, <1>7, <1>8, <1>9
     DEF CacheNext, CallerStep, FinalizerStep

\* certCache never loses count of the handles of a certificate and never keeps an
\* entry that no finalizer will evict, however newCert and the finalizers interleave.
THEOREM CacheAccounted == CacheSpec => []CacheInv
<1>1. CacheInit => CacheInv
  BY CacheInitInv
<1>2. CacheInv /\ [CacheNext]_cacheVars => CacheInv'
  BY CacheStep
<1> QED
  BY <1>1, <1>2, PTL DEF CacheSpec

-----------------------------------------------------------------------------
(* Types.                                                                  *)

\* A set of numbers that is not empty has a smallest one.
LEMMA Smallest == ASSUME NEW S \in SUBSET Nat, S # {} PROVE \E m \in S : \A j \in S : m <= j
<1> DEFINE R == OpToRel(<, Nat)
<1>1. PICK m \in S : \A j \in S : <<j, m>> \notin R
  <2>1. IsWellFoundedOn(R, Nat)
    BY NatLessThanWellFounded, Zenon
  <2> HIDE DEF R
  <2> QED
    BY <2>1, WFMin, Zenon
<1>2. \A j \in S : ~(j < m)
  BY <1>1, Zenon DEF OpToRel
<1> QED
  BY <1>2

\* What getDelegatedCredential returns.
LEMMA ChosenFacts ==
    ASSUME CertTypeOK, NEW c \in Conns
    PROVE  /\ GetDelegatedCredential(c) \in PrivateKeys
           /\ GetDelegatedCredential(c) # nilDC =>
                Pairs[GetDelegatedCredential(c)].alg \in offer[c]
<1> DEFINE k == CHOOSE i \in Usable(c) : \A j \in Usable(c) : i <= j
<1>1. CASE Usable(c) = {}
  BY <1>1, PairsAssumption DEF GetDelegatedCredential, nilDC, PrivateKeys
<1>2. CASE Usable(c) # {}
  <2>1. Usable(c) \in SUBSET Nat
    BY PairsAssumption DEF Usable
  <2>2. k \in Usable(c)
    BY <1>2, <2>1, Smallest, Zenon
  <2>3. GetDelegatedCredential(c) = k
    BY <1>2 DEF GetDelegatedCredential
  <2> QED
    BY <2>2, <2>3, PairsAssumption DEF Usable, PrivateKeys
<1> QED
  BY <1>1, <1>2

\* It depends on the offer alone.
LEMMA ChoiceKept ==
    ASSUME UNCHANGED offer, NEW c
    PROVE  GetDelegatedCredential(c)' = GetDelegatedCredential(c)
<1>1. Usable(c)' = Usable(c)
  BY Zenon DEF Usable
<1> QED
  BY <1>1 DEF GetDelegatedCredential

\* An assignment to a field of the Certificate.
LEMMA SetFieldFacts ==
    ASSUME CertTypeOK, NEW c \in Conns, NEW f \in {"key", "dc"}, NEW k \in PrivateKeys,
           SetField(c, f, k), UNCHANGED source
    PROVE  /\ shared' \in Cert /\ copies' \in [Conns -> Cert]
           /\ \A u \in Conns : HsCert(u)' = IF source = "shared" \/ u = c
                                            THEN [HsCert(u) EXCEPT ![f] = k] ELSE HsCert(u)
<1>1. CASE source = "shared"
  BY <1>1 DEF SetField, HsCert, CertTypeOK, Cert
<1>2. CASE source # "shared"
  <2>1. copies' = [copies EXCEPT ![c] = [copies[c] EXCEPT ![f] = k]] /\ shared' = shared
    BY <1>2 DEF SetField, CertTypeOK
  <2>2. [copies[c] EXCEPT ![f] = k] \in Cert
    BY DEF CertTypeOK, Cert
  <2> QED
    BY <1>2, <2>1, <2>2, Zenon DEF HsCert, CertTypeOK
<1> QED
  BY <1>1, <1>2

\* A key is set only to the one of a credential.
ChosenInv == \A c \in Conns : pc[c] = "setkey" => pair[c] # nilDC

Labels == {"start", "setkey", "setdc", "copy", "flag", "scheme", "useDC", "sign", "signed", "open"}
            \cup Done

\* The types of the proving side, with what its steps need.
ProverTypes == CertTypeOK /\ pc \in [Conns -> Labels] /\ ChosenInv

\* Every step of the proving side keeps its types.
LEMMA ProverTypesStep ==
    ASSUME ProverTypes, NEW c \in Conns, ProverStep(c)
    PROVE  ProverTypes'
<1>a. /\ CertTypeOK /\ pc \in [Conns -> Labels] /\ ChosenInv
      /\ GetDelegatedCredential(c) \in PrivateKeys /\ HsCert(c) \in Cert
  BY ChosenFacts DEF ProverTypes, HsCert, CertTypeOK
<1>b. \A k \in PrivateKeys : KeyAlg(k) \in Algs /\ (k # nilDC => Pairs[k].alg \in Algs)
  <2> SUFFICES ASSUME NEW k \in PrivateKeys
               PROVE  KeyAlg(k) \in Algs /\ (k # nilDC => Pairs[k].alg \in Algs)
    OBVIOUS
  <2>1. k # 0 => k \in DOMAIN Pairs
    BY PairsAssumption DEF PrivateKeys
  <2>2. ASSUME NEW S, NEW q \in Seq(S), NEW i \in DOMAIN q PROVE q[i] \in S
    BY <2>2
  <2>3. k # 0 => Pairs[k] \in [alg : Algs, valid : Nat]
    BY <2>1, <2>2, PairsAssumption, Zenon
  <2> QED
    BY <2>3, AlgsAssumption DEF KeyAlg, leaf, nilDC
<1>c. nilDC \in PrivateKeys
  BY PairsAssumption DEF nilDC, PrivateKeys
<1>1. CASE PickCertificate(c)
  BY <1>1, <1>a, <1>b DEF PickCertificate, SelectSignatureScheme, Goto, ProverTypes, CertTypeOK, ChosenInv, Cert, Labels
<1>2. CASE SetPrivateKey(c)
  <2>1. pair[c] \in PrivateKeys /\ pair[c] # nilDC
    BY <1>2, <1>a DEF SetPrivateKey, ChosenInv, CertTypeOK
  <2>2. shared' \in Cert /\ copies' \in [Conns -> Cert]
    BY <1>2, <1>a, <2>1, SetFieldFacts DEF SetPrivateKey
  <2> QED
    BY <1>2, <1>a, <1>b, <2>1, <2>2 DEF SetPrivateKey, Goto, ProverTypes, CertTypeOK, ChosenInv, Labels
<1>3. CASE SetDelegatedCredential(c)
  <2>1. pair[c] \in PrivateKeys
    BY <1>a DEF CertTypeOK
  <2>2. shared' \in Cert /\ copies' \in [Conns -> Cert]
    BY <1>3, <1>a, <2>1, SetFieldFacts DEF SetDelegatedCredential
  <2> QED
    BY <1>3, <1>a, <2>2 DEF SetDelegatedCredential, Goto, ProverTypes, CertTypeOK, ChosenInv, Labels
<1>4. CASE ChooseClientCredential(c)
  <2>2. shared' \in Cert /\ copies' \in [Conns -> Cert]
    BY <1>4, <1>a, SetFieldFacts, Zenon DEF ChooseClientCredential, CertTypeOK
  <2> QED
    BY <1>4, <1>a, <2>2 DEF ChooseClientCredential, Goto, ProverTypes, CertTypeOK, ChosenInv, Labels
<1>5. CASE CopyCertificate(c)
  <2>1. certMsg' \in [Conns -> [dc : PrivateKeys, flag : BOOLEAN]]
    BY <1>5, <1>a DEF CopyCertificate, CertTypeOK, Cert
  <2> QED
    BY <1>5, <1>a, <2>1 DEF CopyCertificate, Goto, ProverTypes, CertTypeOK, ChosenInv, Labels
<1>6. CASE WriteCertificate(c)
  <2>1. certMsg' \in [Conns -> [dc : PrivateKeys, flag : BOOLEAN]]
    BY <1>6, <1>a, Zenon DEF WriteCertificate, CertTypeOK
  <2> QED
    BY <1>6, <1>a, <2>1 DEF WriteCertificate, Goto, ProverTypes, CertTypeOK, ChosenInv, Labels
<1>7. CASE ClientScheme(c)
  BY <1>7, <1>a, <1>b DEF ClientScheme, SelectSignatureScheme, Goto, ProverTypes, CertTypeOK, ChosenInv, Cert, Labels
<1>8. CASE ClientUseCredential(c)
  <2>1. pair[c] \in PrivateKeys
    BY <1>a DEF CertTypeOK
  <2>2. shared' \in Cert /\ copies' \in [Conns -> Cert]
    BY <1>8, <1>a, <1>c, <2>1, SetFieldFacts DEF ClientUseCredential
  <2>3. sigAlg' \in [Conns -> Algs]
    BY <1>8, <1>a, <1>b, <2>1 DEF ClientUseCredential, CertTypeOK
  <2> QED
    BY <1>8, <1>a, <2>2, <2>3 DEF ClientUseCredential, Goto, ProverTypes, CertTypeOK, ChosenInv, Labels
<1>9. CASE Sign(c)
  BY <1>9, <1>a DEF Sign, Goto, ProverTypes, CertTypeOK, ChosenInv, Cert, Labels
<1> QED
  BY <1>1, <1>2, <1>3, <1>4, <1>5, <1>6, <1>7, <1>8, <1>9 DEF ProverStep

-----------------------------------------------------------------------------
(* The handles of the connections.                                         *)

HandlesInv == HandlesAccounted /\ \A e \in Entries : IsFiniteSet(Held(e))

\* The inductive invariant of the exchange.
ExchangeInv == TypeOK /\ ChosenInv /\ CacheInv /\ HandlesInv

\* A step of connection c changes no handles but its own.
LEMMA HeldChange ==
    ASSUME NEW e \in Entries, NEW c \in Conns,
           \A u \in Conns \ {c} : holds'[u] = holds[u]
    PROVE  Held(e)' = (Held(e) \ Handles(c, e)) \cup Handles(c, e)'
<1>1. \A u \in Conns \ {c} : Handles(u, e)' = Handles(u, e)
  BY DEF Handles
<1>2. \A u \in Conns \ {c} : \A x \in Handles(u, e) : x \notin Handles(c, e)
  BY DEF Handles
<1> QED
  BY <1>1, <1>2, Zenon DEF Held

\* The handles of a connection are among those held.
LEMMA HandlesHeld ==
    ASSUME HandlesInv, NEW e \in Entries, NEW c \in Conns
    PROVE  /\ IsFiniteSet(Handles(c, e)) /\ Handles(c, e) \subseteq Held(e)
           /\ Cardinality(Handles(c, e)) \in Nat /\ Cardinality(Held(e)) \in Nat
           /\ Cardinality(Handles(c, e)) <= Cardinality(Held(e))
<1>1. Handles(c, e) \subseteq Held(e)
  BY Zenon DEF Held
<1>2. IsFiniteSet(Held(e))
  BY DEF HandlesInv
<1> QED
  BY <1>1, <1>2, FS_Subset, FS_CardinalityType

\* The callers of an entry are finitely many.
LEMMA TakingFinite ==
    ASSUME NEW e \in Entries
    PROVE  IsFiniteSet(Taking(e)) /\ Cardinality(Taking(e)) \in Nat
<1>1. Taking(e) \subseteq Conns
  BY DEF Taking
<1> QED
  BY <1>1, CallersAssumption, FS_Subset, FS_CardinalityType

\* No handle changes hands.
LEMMA QuietHandles ==
    ASSUME HandlesInv, UNCHANGED <<live, holds>>, \A e \in Entries : Taking(e)' = Taking(e)
    PROVE  HandlesInv'
<1>1. \A e \in Entries : Held(e)' = Held(e)
  BY DEF Held, Handles
<1> QED
  BY <1>1 DEF HandlesInv, HandlesAccounted

\* A connection is abandoned with all its handles.
LEMMA AbandonHandles ==
    ASSUME HandlesInv, holds \in [Conns -> Seq(Entries)], live \in [Entries -> Nat], NEW c \in Conns,
           live' = [e \in Entries |-> live[e] - Cardinality(Handles(c, e))],
           holds' = [holds EXCEPT ![c] = << >>],
           \A e \in Entries : Taking(e)' = Taking(e)
    PROVE  HandlesInv' /\ \A e \in Entries : live'[e] \in Nat /\ live'[e] <= live[e]
<1> SUFFICES ASSUME NEW e \in Entries
             PROVE  /\ live'[e] = Cardinality(Held(e)') + Cardinality(Taking(e)')
                    /\ IsFiniteSet(Held(e)')
                    /\ live'[e] \in Nat /\ live'[e] <= live[e]
  BY DEF HandlesInv, HandlesAccounted
<1>1. Handles(c, e)' = {}
  BY DEF Handles
<1>2. Held(e)' = Held(e) \ Handles(c, e)
  <2>1. \A u \in Conns \ {c} : holds'[u] = holds[u]
    OBVIOUS
  <2> QED
    BY <1>1, <2>1, HeldChange
<1>3. IsFiniteSet(Held(e)) /\ live[e] = Cardinality(Held(e)) + Cardinality(Taking(e))
  BY DEF HandlesInv, HandlesAccounted
<1>4. Held(e) \cap Handles(c, e) = Handles(c, e)
  BY HandlesHeld
<1>5. IsFiniteSet(Held(e)') /\ Cardinality(Held(e)') = Cardinality(Held(e)) - Cardinality(Handles(c, e))
  <2>1. /\ IsFiniteSet(Held(e) \ Handles(c, e))
        /\ Cardinality(Held(e) \ Handles(c, e)) = Cardinality(Held(e)) - Cardinality(Held(e) \cap Handles(c, e))
    BY <1>3, FS_Difference, Zenon
  <2> QED
    BY <1>2, <1>4, <2>1, Zenon
<1>6. live'[e] = live[e] - Cardinality(Handles(c, e))
  OBVIOUS
<1>7. Taking(e)' = Taking(e)
  OBVIOUS
<1> HIDE DEF Taking, Held, Handles
<1> QED
  BY <1>3, <1>5, <1>6, <1>7, HandlesHeld, TakingFinite

\* A connection takes the handle that newCert has made for it.
LEMMA TakeHandleHandles ==
    ASSUME ExchangeInv, NEW c \in Conns, TakeHandle(c)
    PROVE  HandlesInv'
<1> DEFINE f == call[c].entry
           new == <<c, Len(holds[c]) + 1>>
<1>1. f \in Entries
  BY CallersAssumption DEF ExchangeInv, CacheInv, CallsAgree, TakeHandle, CacheTypeOK, Call
<1>2. /\ call'[c].pc = "idle" /\ call[c].pc = "ok"
      /\ \A u \in Conns \ {c} : call'[u] = call[u]
  BY ProceedEffect, CallersAssumption DEF ExchangeInv, TakeHandle, CacheInv, CacheTypeOK
<1>3. /\ holds' = [holds EXCEPT ![c] = Append(@, f)] /\ UNCHANGED live
      /\ holds[c] \in Seq(Entries) /\ holds \in [Conns -> Seq(Entries)]
  BY DEF TakeHandle, ExchangeInv, TypeOK
<1>4. HandlesInv
  BY DEF ExchangeInv
<1> SUFFICES ASSUME NEW e \in Entries
             PROVE  /\ live[e] = Cardinality(Held(e)') + Cardinality(Taking(e)')
                    /\ IsFiniteSet(Held(e)')
  BY <1>3 DEF HandlesInv, HandlesAccounted
<1>5. IsFiniteSet(Held(e)) /\ live[e] = Cardinality(Held(e)) + Cardinality(Taking(e))
  BY <1>4 DEF HandlesInv, HandlesAccounted
<1>6. Handles(c, e)' = IF e = f THEN Handles(c, e) \cup {new} ELSE Handles(c, e)
  <2>1. holds'[c] = Append(holds[c], f)
    BY <1>3
  <2>2. {i \in DOMAIN holds'[c] : holds'[c][i] = e}
          = {i \in DOMAIN holds[c] : holds[c][i] = e} \cup (IF e = f THEN {Len(holds[c]) + 1} ELSE {})
    <3> HIDE DEF f
    <3> QED
      BY <1>1, <1>3, <2>1
  <2> QED
    BY <2>2 DEF Handles
<1>7. new \notin Held(e)
  BY <1>3 DEF Held, Handles
<1>8. Held(e)' = IF e = f THEN Held(e) \cup {new} ELSE Held(e)
  <2>1. \A u \in Conns \ {c} : holds'[u] = holds[u]
    BY <1>3
  <2>2. Held(e)' = (Held(e) \ Handles(c, e)) \cup Handles(c, e)'
    BY <2>1, HeldChange, Zenon
  <2>3. Handles(c, e) \subseteq Held(e)
    BY <1>4, HandlesHeld, Zenon
  <2> QED
    BY <1>6, <2>2, <2>3
<1>9. Taking(e)' = IF e = f THEN Taking(e) \ {c} ELSE Taking(e)
  BY <1>2 DEF Taking
<1>10. e = f => c \in Taking(e)
  BY <1>2 DEF Taking
<1> HIDE DEF f, new
<1>11. CASE e = f
  <2>1. IsFiniteSet(Held(e)') /\ Cardinality(Held(e)') = Cardinality(Held(e)) + 1
    <3>1. IsFiniteSet(Held(e) \cup {new}) /\ Cardinality(Held(e) \cup {new}) = Cardinality(Held(e)) + 1
      BY <1>5, <1>7, FS_AddElement, Zenon
    <3>2. Held(e)' = Held(e) \cup {new}
      BY <1>8, <1>11, Zenon
    <3> QED
      BY <3>1, <3>2, Zenon
  <2>2. Cardinality(Taking(e)') = Cardinality(Taking(e)) - 1
    <3>1. Cardinality(Taking(e) \ {c}) = Cardinality(Taking(e)) - 1
      BY <1>10, <1>11, TakingFinite, FS_RemoveElement, Zenon
    <3> QED
      BY <1>9, <1>11, <3>1, Zenon
  <2> QED
    BY <1>4, <1>5, <2>1, <2>2, HandlesHeld, TakingFinite
<1>12. CASE e # f
  BY <1>5, <1>8, <1>9, <1>12
<1> QED
  BY <1>11, <1>12

\* newCert makes a handle for its caller.
LEMMA ActivateHandles ==
    ASSUME ExchangeInv, NEW c \in Conns, Activate(c), UNCHANGED holds
    PROVE  HandlesInv'
<1> DEFINE f == call[c].entry
<1>1. f \in Entries
  BY CallersAssumption DEF ExchangeInv, CacheInv, CallsAgree, Activate, CacheTypeOK, Call
<1>2. /\ call'[c].pc = "ok" /\ call'[c].entry = f /\ call[c].pc = "active"
      /\ \A u \in Conns \ {c} : call'[u] = call[u]
  BY <1>1, ProceedEffect, CallersAssumption DEF ExchangeInv, Activate, CacheInv, CacheTypeOK
<1>3. live' = [live EXCEPT ![f] = @ + 1] /\ live \in [Entries -> Nat]
  BY DEF Activate, ExchangeInv, CacheInv, CacheTypeOK
<1> SUFFICES ASSUME NEW e \in Entries
             PROVE  /\ live'[e] = Cardinality(Held(e)') + Cardinality(Taking(e)')
                    /\ IsFiniteSet(Held(e)')
  BY DEF HandlesInv, HandlesAccounted
<1>4. HandlesInv
  BY DEF ExchangeInv
<1>5. IsFiniteSet(Held(e)) /\ live[e] = Cardinality(Held(e)) + Cardinality(Taking(e))
  BY <1>4 DEF HandlesInv, HandlesAccounted
<1>6. Held(e)' = Held(e)
  BY DEF Held, Handles
<1>7. Taking(e)' = IF e = f THEN Taking(e) \cup {c} ELSE Taking(e)
  BY <1>2 DEF Taking
<1>8. c \notin Taking(e)
  BY <1>2 DEF Taking
<1>9. live'[e] = IF e = f THEN live[e] + 1 ELSE live[e]
  BY <1>1, <1>3
<1> HIDE DEF f
<1>10. Cardinality(Taking(e) \cup {c}) = Cardinality(Taking(e)) + 1
  BY <1>8, TakingFinite, FS_AddElement, Zenon
<1> QED
  BY <1>4, <1>5, <1>6, <1>7, <1>9, <1>10, HandlesHeld, TakingFinite

\* A call that neither had nor has a handle to give.
LEMMA TakingSame ==
    ASSUME NEW c \in Conns, call[c].pc # "ok", call'[c].pc # "ok",
           \A u \in Conns \ {c} : call'[u] = call[u]
    PROVE  \A e \in Entries : Taking(e)' = Taking(e)
BY DEF Taking

\* A connection that is abandoned gives back its handles, as the cache expects.
LEMMA AbandonDrops ==
    ASSUME ExchangeInv, NEW c \in Conns, NEW l, Abandon(c, l),
           UNCHANGED call \/ (call[c].pc = "failed" /\ Proceed(c, "idle", none))
    PROVE  HandlesInv' /\ DropHandles
<1>1. /\ live \in [Entries -> Nat] /\ dead \in [Entries -> Nat] /\ call \in [Conns -> Call]
      /\ holds \in [Conns -> Seq(Entries)] /\ HandlesInv
  BY CallersAssumption DEF ExchangeInv, TypeOK, CacheTypeOK
<1>2. \A e \in Entries : Taking(e)' = Taking(e)
  <2>1. CASE UNCHANGED call
    BY <2>1 DEF Taking
  <2>2. CASE call[c].pc = "failed" /\ Proceed(c, "idle", none)
    <3>1. call'[c].pc = "idle" /\ \A u \in Conns \ {c} : call'[u] = call[u]
      BY <1>1, <2>2, ProceedEffect, CallersAssumption
    <3> QED
      BY <2>2, <3>1, TakingSame
  <2> QED
    BY <2>1, <2>2, Zenon
<1>3. HandlesInv' /\ \A e \in Entries : live'[e] \in Nat /\ live'[e] <= live[e]
  <2>1. /\ live' = [e \in Entries |-> live[e] - Cardinality(Handles(c, e))]
        /\ holds' = [holds EXCEPT ![c] = << >>]
    BY DEF Abandon
  <2> QED
    BY <1>1, <1>2, <2>1, AbandonHandles, Zenon
<1>4. \A e \in Entries : Cardinality(Handles(c, e)) \in Nat
  BY <1>1, HandlesHeld
<1>5. /\ live' \in [Entries -> Nat] /\ dead' \in [Entries -> Nat]
      /\ \A e \in Entries : live'[e] + dead'[e] = live[e] + dead[e]
  BY <1>1, <1>3, <1>4 DEF Abandon
<1> QED
  BY <1>3, <1>5, CallersAssumption DEF DropHandles, Abandon

\* The connections use the cache as its specification says, and lose no handle.
LEMMA CacheUse ==
    ASSUME ExchangeInv, [Next]_vars
    PROVE  [CacheNext]_cacheVars /\ HandlesInv'
<1> USE CallersAssumption
<1>0. HandlesInv /\ call \in [Conns -> Call]
  BY DEF ExchangeInv, TypeOK, CacheTypeOK
<1>1. ASSUME UNCHANGED <<cacheVars, holds>> PROVE [CacheNext]_cacheVars /\ HandlesInv'
  BY <1>0, <1>1, QuietHandles DEF cacheVars, Taking
<1>2. ASSUME NEW c \in Conns, NewCert(c) PROVE [CacheNext]_cacheVars /\ HandlesInv'
  <2>1. Chain[Len(holds[c]) + 1] \in Ders
    BY <1>2, ChainAssumption DEF NewCert, ExchangeInv, TypeOK
  <2>2. LoadCert(c, Chain[Len(holds[c]) + 1]) /\ UNCHANGED holds
    BY <1>2 DEF NewCert
  <2>3. call[c].pc = "idle" /\ call'[c].pc # "ok" /\ \A u \in Conns \ {c} : call'[u] = call[u]
    BY <1>0, <2>2 DEF LoadCert
  <2>4. HandlesInv'
    BY <1>0, <2>2, <2>3, TakingSame, QuietHandles DEF LoadCert
  <2> QED
    BY <2>1, <2>2, <2>4 DEF CacheNext
<1>3. ASSUME NEW c \in Conns, NewCertStep(c) PROVE [CacheNext]_cacheVars /\ HandlesInv'
  <2>1. CacheNext /\ UNCHANGED holds
    BY <1>3 DEF NewCertStep, CacheNext
  <2>2. CASE ParseFails(c)
    <3>1. call[c].pc = "parse" /\ call'[c].pc = "failed" /\ \A u \in Conns \ {c} : call'[u] = call[u]
      BY <1>0, <2>2, ProceedEffect DEF ParseFails
    <3> QED
      BY <1>0, <2>1, <2>2, <3>1, TakingSame, QuietHandles DEF ParseFails
  <2>3. ASSUME NEW e \in Entries, Parse(c, e) PROVE HandlesInv'
    <3>1. call[c].pc = "parse" /\ call'[c].pc = "store" /\ \A u \in Conns \ {c} : call'[u] = call[u]
      BY <1>0, <2>3, ProceedEffect DEF Parse
    <3> QED
      BY <1>0, <2>1, <2>3, <3>1, TakingSame, QuietHandles DEF Parse
  <2>4. CASE LoadOrStore(c)
    <3>1. call[c].pc = "store" /\ call'[c].pc = "active" /\ \A u \in Conns \ {c} : call'[u] = call[u]
      <4>1. PICK f \in Entries \cup {none} : Proceed(c, "active", f)
        BY <2>4 DEF LoadOrStore, ExchangeInv, TypeOK, CacheTypeOK, Call
      <4> QED
        BY <1>0, <2>4, <4>1, ProceedEffect DEF LoadOrStore
    <3> QED
      BY <1>0, <2>1, <2>4, <3>1, TakingSame, QuietHandles DEF LoadOrStore
  <2>5. CASE Activate(c)
    BY <2>1, <2>5, ActivateHandles
  <2> QED
    BY <1>3, <2>1, <2>2, <2>3, <2>4, <2>5 DEF NewCertStep, CallerStep
<1>4. ASSUME NEW c \in Conns, TakeHandle(c) PROVE [CacheNext]_cacheVars /\ HandlesInv'
  <2>1. ReturnCert(c)
    BY <1>4 DEF TakeHandle, ReturnCert
  <2> QED
    BY <1>4, <2>1, TakeHandleHandles DEF CacheNext
<1>5. ASSUME NEW c \in Conns, ChainFails(c) PROVE [CacheNext]_cacheVars /\ HandlesInv'
  BY <1>5, AbandonDrops DEF ChainFails, CacheNext
<1>6. ASSUME NEW c \in Conns, Reject(c) PROVE [CacheNext]_cacheVars /\ HandlesInv'
  BY <1>6, AbandonDrops DEF Reject, CacheNext
<1>7. ASSUME NEW c \in Conns, Close(c) PROVE [CacheNext]_cacheVars /\ HandlesInv'
  BY <1>7, AbandonDrops DEF Close, CacheNext
<1>8. ASSUME Finalizer PROVE [CacheNext]_cacheVars /\ HandlesInv'
  <2>1. UNCHANGED <<live, holds, call>>
    BY <1>8 DEF Finalizer, FinalizerStep, Finalize, Evict
  <2> QED
    BY <1>0, <1>8, <2>1, QuietHandles DEF Finalizer, CacheNext, Taking
<1>9. ASSUME NEW c \in Conns, Prove(c) \/ Accept(c) PROVE UNCHANGED <<cacheVars, holds>>
  BY <1>9 DEF Prove, Accept
<1>10. ASSUME Tick \/ UNCHANGED vars PROVE UNCHANGED <<cacheVars, holds>>
  BY <1>10 DEF Tick, vars
<1> QED
  BY <1>1, <1>2, <1>3, <1>4, <1>5, <1>6, <1>7, <1>8, <1>9, <1>10 DEF Next, ConnStep

\* Every step keeps the types of what is not in the cache.
LEMMA OutsideTypes ==
    ASSUME ExchangeInv, [Next]_vars
    PROVE  ProverTypes' /\ holds' \in [Conns -> Seq(Entries)] /\ now' \in 0..MaxTime
<1>0. /\ ProverTypes /\ holds \in [Conns -> Seq(Entries)] /\ now \in 0..MaxTime
  BY DEF ExchangeInv, TypeOK, ProverTypes, Labels
<1>1. ASSUME NEW c \in Conns, NEW l \in {"open"} \cup Done, Goto(c, l), UNCHANGED certVars
      PROVE  ProverTypes'
  BY <1>0, <1>1 DEF ProverTypes, CertTypeOK, certVars, ChosenInv, Goto, Labels, Done
<1>2. ASSUME UNCHANGED <<certVars, pc>> PROVE ProverTypes'
  BY <1>0, <1>2 DEF ProverTypes, CertTypeOK, certVars, ChosenInv
<1>3. ASSUME NEW c \in Conns, NEW l, Abandon(c, l) PROVE holds' \in [Conns -> Seq(Entries)] /\ now' = now
  BY <1>0, <1>3 DEF Abandon
<1>4. ASSUME NEW c \in Conns, Prove(c)
      PROVE  ProverTypes' /\ UNCHANGED <<holds, now>>
  BY <1>0, <1>4, ProverTypesStep DEF Prove
<1>5. ASSUME NEW c \in Conns, NewCert(c) \/ NewCertStep(c)
      PROVE  ProverTypes' /\ UNCHANGED <<holds, now>>
  BY <1>2, <1>5 DEF NewCert, NewCertStep
<1>6. ASSUME NEW c \in Conns, TakeHandle(c)
      PROVE  ProverTypes' /\ holds' \in [Conns -> Seq(Entries)] /\ now' = now
  <2>1. call[c].entry \in Entries
    BY <1>6, CallersAssumption DEF ExchangeInv, CacheInv, CallsAgree, TakeHandle, CacheTypeOK, Call
  <2>2. holds' = [holds EXCEPT ![c] = Append(holds[c], call[c].entry)]
    BY <1>6, Zenon DEF TakeHandle
  <2>3. Append(holds[c], call[c].entry) \in Seq(Entries)
    BY <1>0, <2>1
  <2> QED
    BY <1>0, <1>2, <1>6, <2>2, <2>3 DEF TakeHandle
<1>7. ASSUME NEW c \in Conns, ChainFails(c) \/ Reject(c) \/ Close(c)
      PROVE  ProverTypes' /\ holds' \in [Conns -> Seq(Entries)] /\ now' = now
  <2>1. PICK l \in Done : Abandon(c, l)
    BY <1>7 DEF ChainFails, Reject, Close, Done
  <2> QED
    BY <1>1, <1>3, <2>1, Zenon DEF Abandon
<1>8. ASSUME NEW c \in Conns, Accept(c)
      PROVE  ProverTypes' /\ UNCHANGED <<holds, now>>
  BY <1>1, <1>8 DEF Accept
<1>9. ASSUME Finalizer \/ UNCHANGED vars PROVE ProverTypes' /\ UNCHANGED <<holds, now>>
  BY <1>2, <1>9 DEF Finalizer, vars
<1>10. ASSUME Tick PROVE ProverTypes' /\ UNCHANGED holds /\ now' \in 0..MaxTime
  BY <1>0, <1>2, <1>10, TimeAssumption DEF Tick
<1> QED
  BY <1>0, <1>4, <1>5, <1>6, <1>7, <1>8, <1>9, <1>10 DEF Next, ConnStep

\* The inductive invariant of the exchange.
LEMMA ExchangeInductive == Spec => []ExchangeInv
<1>1. Init => ExchangeInv
  <2> SUFFICES ASSUME Init PROVE ExchangeInv
    OBVIOUS
  <2>1. CacheInv
    BY CacheInitInv DEF Init
  <2>2. leaf \in PrivateKeys /\ nilDC \in PrivateKeys
    BY PairsAssumption DEF leaf, nilDC, PrivateKeys
  <2>3. CertTypeOK
    BY <2>2, AlgsAssumption DEF Init, CertInit, CertTypeOK, Cert
  <2>4. TypeOK /\ ChosenInv
    BY <2>1, <2>3, TimeAssumption DEF Init, TypeOK, CacheInv, ChosenInv
  <2>5. \A e \in Entries : Held(e) = {} /\ Taking(e) = {} /\ live[e] = 0
    <3>1. live = [e \in Entries |-> 0] /\ \A c \in Conns : call[c].pc = "idle" /\ holds[c] = << >>
      BY CallersAssumption DEF Init, CacheInit
    <3>2. ASSUME NEW e \in Entries, NEW c \in Conns PROVE Handles(c, e) = {}
      <4>1. {i \in DOMAIN holds[c] : holds[c][i] = e} = {}
        BY <3>1
      <4> QED
        BY <4>1 DEF Handles
    <3> QED
      BY <3>1, <3>2 DEF Held, Taking
  <2>6. HandlesInv
    BY <2>5, FS_EmptySet DEF HandlesInv, HandlesAccounted
  <2> QED
    BY <2>1, <2>4, <2>6 DEF ExchangeInv
<1>2. ExchangeInv /\ [Next]_vars => ExchangeInv'
  <2> SUFFICES ASSUME ExchangeInv, [Next]_vars PROVE ExchangeInv'
    OBVIOUS
  <2>1. CacheInv' /\ HandlesInv'
    BY CacheUse, CacheStep DEF ExchangeInv
  <2>2. ProverTypes' /\ holds' \in [Conns -> Seq(Entries)] /\ now' \in 0..MaxTime
    BY OutsideTypes
  <2> QED
    BY <2>1, <2>2 DEF ExchangeInv, TypeOK, ProverTypes, CacheInv, Labels
<1> QED
  BY <1>1, <1>2, PTL DEF Spec

\* The handles of a certificate that certCache counts are those that connections hold
\* or are about to take, for any number of connections and any chain: verifyServerCertificate
\* loses none and keeps none, also when it fails halfway.
THEOREM HandlesKept == Spec => []HandlesAccounted
<1>1. ExchangeInv => HandlesAccounted
  BY DEF ExchangeInv, HandlesInv
<1> QED
  BY <1>1, ExchangeInductive, PTL

\* The connections are callers as certCache expects them: what they do to it are steps
\* of its specification, so that its counts and its table are right in every exchange.
THEOREM ExchangeUsesCache == Spec => CacheSpec /\ []CacheInv
<1>1. Init => CacheInit
  BY DEF Init
<1>2. ExchangeInv /\ [Next]_vars => [CacheNext]_cacheVars
  BY CacheUse
<1>3. ExchangeInv => CacheInv
  BY DEF ExchangeInv
<1> QED
  BY <1>1, <1>2, <1>3, ExchangeInductive, PTL DEF Spec, CacheSpec

-----------------------------------------------------------------------------
(* Opening.                                                                *)

\* What a message can show.
LEMMA ShownFacts ==
    ASSUME CertTypeOK, NEW c \in Conns
    PROVE  /\ Shown(c) \in PrivateKeys
           /\ Shown(c) # nilDC => Pairs[Shown(c)].valid \in Nat
<1>1. Shown(c) \in PrivateKeys
  BY PairsAssumption DEF CertTypeOK, Shown, nilDC, PrivateKeys
<1>2. ASSUME NEW S, NEW q \in Seq(S), NEW i \in DOMAIN q PROVE q[i] \in S
  BY <1>2
<1>3. ASSUME NEW k \in PrivateKeys, k # nilDC PROVE Pairs[k] \in [alg : Algs, valid : Nat]
  <2>1. k \in DOMAIN Pairs
    BY <1>3, PairsAssumption DEF PrivateKeys, nilDC
  <2> QED
    BY <1>2, <2>1, PairsAssumption, Zenon
<1> QED
  BY <1>1, <1>3

\* Only Accept opens a connection.
LEMMA OnlyAcceptOpens ==
    ASSUME ExchangeInv, [Next]_vars, NEW c \in Conns, pc[c] # "open", pc'[c] = "open"
    PROVE  Accept(c)
<1>0. pc \in [Conns -> Labels]
  BY DEF ExchangeInv, TypeOK, Labels
<1>1. ASSUME NEW u \in Conns, NEW l, l # "open", Goto(u, l) PROVE FALSE
  BY <1>0, <1>1 DEF Goto
<1>2. ~ UNCHANGED pc
  OBVIOUS
<1>3. ASSUME NEW u \in Conns, Prove(u) PROVE FALSE
  <2>1. \E l \in Labels \ {"open"} : Goto(u, l)
    BY <1>3 DEF Prove, ProverStep, PickCertificate, SetPrivateKey, SetDelegatedCredential,
         ChooseClientCredential, CopyCertificate, WriteCertificate, ClientScheme,
         ClientUseCredential, Sign, Labels
  <2> QED
    BY <1>1, <2>1
<1>4. ASSUME NEW u \in Conns, NewCert(u) \/ NewCertStep(u) \/ TakeHandle(u) PROVE FALSE
  BY <1>2, <1>4 DEF NewCert, NewCertStep, TakeHandle
<1>5. ASSUME NEW u \in Conns, ChainFails(u) \/ Reject(u) \/ Close(u) PROVE FALSE
  BY <1>1, <1>5, Zenon DEF ChainFails, Reject, Close, Abandon
<1>6. ASSUME NEW u \in Conns, Accept(u) PROVE Accept(c)
  BY <1>0, <1>6, Zenon DEF Accept, Goto
<1>7. ASSUME Finalizer \/ Tick \/ UNCHANGED vars PROVE FALSE
  BY <1>2, <1>7 DEF Finalizer, Tick, vars
<1> QED
  BY <1>3, <1>4, <1>5, <1>6, <1>7 DEF Next, ConnStep

\* A connection opens only for an identity that was shown and proven, with a credential
\* that was valid then and had no more than DCMaxTTL to live: also when the handshakes of
\* the other side write to one Certificate.
THEOREM OpenedProven == Spec => OpenedIsProven
<1>1. ExchangeInv /\ [Next]_vars =>
        [\A c \in Conns : pc[c] # "open" /\ pc'[c] = "open" =>
         /\ sigKey[c] = Shown(c)
         /\ Shown(c) # nilDC => LET v == Pairs[Shown(c)].valid IN now < v /\ v - now <= DCMaxTTL]_vars
  <2> SUFFICES ASSUME ExchangeInv, [Next]_vars, NEW c \in Conns, pc[c] # "open", pc'[c] = "open"
               PROVE  /\ sigKey[c] = Shown(c)
                      /\ Shown(c) # nilDC => now < Pairs[Shown(c)].valid
                                              /\ Pairs[Shown(c)].valid - now <= DCMaxTTL
    BY Zenon
  <2>1. Accepts(c)
    BY OnlyAcceptOpens DEF Accept
  <2>2. Shown(c) # nilDC => Pairs[Shown(c)].valid \in Nat
    BY ShownFacts DEF ExchangeInv, TypeOK
  <2>3. now \in Nat
    BY TimeAssumption DEF ExchangeInv, TypeOK
  <2>4. /\ sigKey[c] = Shown(c)
        /\ Shown(c) # nilDC => ~IsExpired(Shown(c)) /\ ~InvalidTTL(Shown(c))
    BY <2>1, Zenon DEF Accepts, SignatureVerifies, Validate
  <2> QED
    BY <2>2, <2>3, <2>4, TimeAssumption DEF IsExpired, InvalidTTL
<1> QED
  BY <1>1, ExchangeInductive, PTL DEF Spec, OpenedIsProven

-----------------------------------------------------------------------------
(* Handshakes that do not disturb each other.                              *)

\* A handshake that nobody disturbs: what the Certificate, its message and its
\* signature have at each step, for the credential k that the handshake chooses.
ProverInv(c) ==
    LET k == GetDelegatedCredential(c) IN
    /\ HsCert(c).key \in {leaf, k} /\ HsCert(c).dc \in {nilDC, k}
    /\ pc[c] \notin {"start"} \cup Done => pair[c] = k
    /\ k = nilDC => pc[c] \notin {"setkey", "setdc", "useDC"}
    /\ role = "server" => pc[c] \notin {"scheme", "useDC"}
    /\ role = "client" => pc[c] \notin {"setkey", "setdc"}
    /\ \/ role = "server" /\ pc[c] \in {"setdc", "copy", "flag", "sign"}
       \/ role = "client" /\ pc[c] = "sign"
       => HsCert(c).key = k
    /\ \/ role = "server" /\ pc[c] \in {"setdc", "copy", "flag", "sign", "signed", "open"}
       \/ role = "client" /\ pc[c] \in {"sign", "signed", "open"}
       => sigAlg[c] = KeyAlg(k)
    /\ pc[c] \in {"copy", "flag"} => HsCert(c).dc = k
    /\ pc[c] \in {"flag", "scheme", "useDC", "sign", "signed", "open"} => certMsg[c].dc = k
    /\ pc[c] \in {"scheme", "useDC", "sign", "signed", "open"} => certMsg[c].flag = (k # nilDC)
    /\ pc[c] \in {"signed", "open"} => sigKey[c] = k

UniformInv == Uniform => \A c \in Conns : ProverInv(c)


\* A handshake that does nothing, while its Certificate changes only to what it wants.
LEMMA Undisturbed ==
    ASSUME ProverTypes, NEW u \in Conns, ProverInv(u), UNCHANGED <<role, source, offer>>,
           pc'[u] = pc[u] \/ pc'[u] \in Done \/ (pc'[u] = "open" /\ pc[u] = "signed"),
           pair'[u] = pair[u], sigAlg'[u] = sigAlg[u], certMsg'[u] = certMsg[u], sigKey'[u] = sigKey[u],
           \E f \in {"key", "dc"} : HsCert(u)' \in {HsCert(u), [HsCert(u) EXCEPT ![f] = GetDelegatedCredential(u)]}
    PROVE  ProverInv(u)'
<1> DEFINE k == GetDelegatedCredential(u)
<1>1. GetDelegatedCredential(u)' = k
  BY ChoiceKept, Zenon
<1>2. HsCert(u) \in Cert
  BY DEF ProverTypes, CertTypeOK, HsCert
<1>3. HsCert(u)'.key \in {HsCert(u).key, k} /\ HsCert(u)'.dc \in {HsCert(u).dc, k}
  BY <1>2 DEF Cert
<1> HIDE DEF k
<1> QED
  BY <1>1, <1>3, ZenonT(60) DEF ProverInv, Done, k

\* A step of one handshake touches nothing of the others but the Certificate, in which it
\* writes the credential it has chosen or the key of it.
LEMMA ProverEffect ==
    ASSUME ProverTypes, NEW c \in Conns, ProverInv(c), ProverStep(c)
    PROVE  /\ UNCHANGED <<role, source, offer>>
           /\ \A u \in Conns \ {c} : /\ pc'[u] = pc[u] /\ pair'[u] = pair[u] /\ sigAlg'[u] = sigAlg[u]
                                     /\ certMsg'[u] = certMsg[u] /\ sigKey'[u] = sigKey[u]
           /\ \/ UNCHANGED <<shared, copies>>
              \/ \E f \in {"key", "dc"} : SetField(c, f, GetDelegatedCredential(c))
<1>a. pc[c] \in {"setkey", "setdc", "useDC"} => pair[c] = GetDelegatedCredential(c)
                                             /\ GetDelegatedCredential(c) # nilDC
  BY Zenon DEF ProverInv, Done
<1>b. /\ pc \in [Conns -> Labels] /\ pair \in [Conns -> PrivateKeys] /\ sigAlg \in [Conns -> Algs]
      /\ certMsg \in [Conns -> [dc : PrivateKeys, flag : BOOLEAN]] /\ sigKey \in [Conns -> PrivateKeys]
  BY DEF ProverTypes, CertTypeOK
<1>1. CASE PickCertificate(c)
  BY <1>1, <1>b DEF PickCertificate, SelectSignatureScheme, Goto
<1>2. CASE SetPrivateKey(c)
  BY <1>2, <1>a, <1>b DEF SetPrivateKey, Goto
<1>3. CASE SetDelegatedCredential(c)
  BY <1>3, <1>a, <1>b DEF SetDelegatedCredential, Goto
<1>4. CASE ChooseClientCredential(c)
  BY <1>4, <1>b DEF ChooseClientCredential, Goto
<1>5. CASE CopyCertificate(c)
  BY <1>5, <1>b DEF CopyCertificate, Goto
<1>6. CASE WriteCertificate(c)
  BY <1>6, <1>b DEF WriteCertificate, Goto
<1>7. CASE ClientScheme(c)
  BY <1>7, <1>b DEF ClientScheme, SelectSignatureScheme, Goto
<1>8. CASE ClientUseCredential(c)
  BY <1>8, <1>a, <1>b DEF ClientUseCredential, Goto
<1>9. CASE Sign(c)
  BY <1>9, <1>b DEF Sign, Goto
<1> QED
  BY <1>1, <1>2, <1>3, <1>4, <1>5, <1>6, <1>7, <1>8, <1>9, Zenon DEF ProverStep

\* So the others keep their invariant.
LEMMA OthersUndisturbed ==
    ASSUME ProverTypes, Uniform, NEW c \in Conns, \A u \in Conns : ProverInv(u), ProverStep(c)
    PROVE  \A u \in Conns \ {c} : ProverInv(u)'
<1> SUFFICES ASSUME NEW u \in Conns \ {c} PROVE ProverInv(u)'
  OBVIOUS
<1>1. GetDelegatedCredential(c) \in PrivateKeys /\ CertTypeOK
  BY ChosenFacts DEF ProverTypes
<1>2. source = "shared" => GetDelegatedCredential(u) = GetDelegatedCredential(c)
  BY DEF Uniform
<1>3. \E f \in {"key", "dc"} : HsCert(u)' \in {HsCert(u), [HsCert(u) EXCEPT ![f] = GetDelegatedCredential(u)]}
  <2>1. CASE UNCHANGED <<shared, copies>>
    BY <2>1, ProverEffect, Zenon DEF HsCert
  <2>2. ASSUME NEW f \in {"key", "dc"}, SetField(c, f, GetDelegatedCredential(c))
        PROVE  HsCert(u)' \in {HsCert(u), [HsCert(u) EXCEPT ![f] = GetDelegatedCredential(u)]}
    <3>1. UNCHANGED source
      BY ProverEffect, Zenon
    <3>2. HsCert(u)' = IF source = "shared" \/ u = c
                       THEN [HsCert(u) EXCEPT ![f] = GetDelegatedCredential(c)] ELSE HsCert(u)
      BY <1>1, <2>2, <3>1, SetFieldFacts
    <3> QED
      BY <1>2, <3>2, Zenon
  <2> QED
    BY <2>1, <2>2, ProverEffect
<1>4. /\ UNCHANGED <<role, source, offer>>
      /\ pc'[u] = pc[u] /\ pair'[u] = pair[u] /\ sigAlg'[u] = sigAlg[u]
      /\ certMsg'[u] = certMsg[u] /\ sigKey'[u] = sigKey[u]
  BY ProverEffect
<1>5. u \in Conns /\ ProverInv(u)
  OBVIOUS
<1> QED
  BY <1>3, <1>4, <1>5, Undisturbed, Zenon

\* And the handshake itself goes on.
LEMMA ProverOwnStep ==
    ASSUME ProverTypes, NEW c \in Conns, ProverInv(c), ProverStep(c)
    PROVE  ProverInv(c)'
<1> DEFINE k == GetDelegatedCredential(c)
<1>a. /\ CertTypeOK /\ pc \in [Conns -> Labels] /\ HsCert(c) \in Cert /\ k \in PrivateKeys
      /\ k # nilDC => offer[c] # {}
  BY ChosenFacts DEF ProverTypes, CertTypeOK, HsCert
<1>b. /\ sigAlg \in [Conns -> Algs] /\ certMsg \in [Conns -> [dc : PrivateKeys, flag : BOOLEAN]]
      /\ pair \in [Conns -> PrivateKeys] /\ sigKey \in [Conns -> PrivateKeys]
      /\ role \in {"server", "client"}
  BY <1>a, RolesAssumption DEF CertTypeOK
<1>c. UNCHANGED <<role, source, offer>>
  BY ProverEffect
<1>d. GetDelegatedCredential(c)' = k
  BY <1>c, ChoiceKept
<1>e. UNCHANGED <<shared, copies>> => HsCert(c)' = HsCert(c)
  BY <1>c DEF HsCert
<1>f. ASSUME NEW f \in {"key", "dc"}, SetField(c, f, k) PROVE HsCert(c)' = [HsCert(c) EXCEPT ![f] = k]
  BY <1>a, <1>c, <1>f, SetFieldFacts
<1>g. k # nilDC => KeyAlg(k) = Pairs[k].alg
  BY DEF KeyAlg, leaf, nilDC
<1>h. pc[c] \notin {"start"} \cup Done => pair[c] = k
  BY Zenon DEF ProverInv
<1> HIDE DEF k
<1>1. CASE PickCertificate(c)
  BY <1>1, <1>a, <1>b, <1>c, <1>d, <1>e, Zenon
     DEF PickCertificate, SelectSignatureScheme, Goto, ProverInv, Done, k, leaf, nilDC
<1>2. CASE SetPrivateKey(c)
  BY <1>2, <1>a, <1>b, <1>c, <1>d, <1>f, <1>g, <1>h, Zenon DEF SetPrivateKey, Goto, ProverInv, Done, Cert, k
<1>3. CASE SetDelegatedCredential(c)
  BY <1>3, <1>a, <1>b, <1>c, <1>d, <1>f, <1>h, Zenon DEF SetDelegatedCredential, Goto, ProverInv, Done, Cert, k
<1>4. CASE ChooseClientCredential(c)
  BY <1>4, <1>a, <1>b, <1>c, <1>d, <1>e, <1>f, Zenon DEF ChooseClientCredential, Goto, ProverInv, Done, Cert, k
<1>5. CASE CopyCertificate(c)
  BY <1>5, <1>a, <1>b, <1>c, <1>d, <1>e, <1>h DEF CopyCertificate, Goto, ProverInv, Done, k
<1>6. CASE WriteCertificate(c)
  BY <1>6, <1>a, <1>b, <1>c, <1>d, <1>e, <1>h DEF WriteCertificate, Goto, ProverInv, Done, k
<1>7. CASE ClientScheme(c)
  BY <1>7, <1>a, <1>b, <1>c, <1>d, <1>e, <1>h, Zenon
     DEF ClientScheme, SelectSignatureScheme, Goto, ProverInv, Done, k, leaf, nilDC
<1>8. CASE ClientUseCredential(c)
  <2>1. pair[c] = k /\ k # nilDC /\ pc[c] = "useDC"
    BY <1>8, <1>h, Zenon DEF ClientUseCredential, ProverInv, Done, k
  <2>2. /\ pc'[c] = "sign" /\ sigAlg'[c] = KeyAlg(k) /\ SetField(c, "key", k)
        /\ UNCHANGED <<pair, certMsg, sigKey>>
    BY <1>8, <1>a, <1>b, <1>g, <2>1 DEF ClientUseCredential, Goto
  <2>3. HsCert(c)'.key = k /\ HsCert(c)'.dc = HsCert(c).dc
    BY <1>a, <1>f, <2>2, Zenon DEF Cert
  <2> QED
    BY <1>8, <1>c, <1>d, <2>1, <2>2, <2>3, Zenon DEF ClientUseCredential, ProverInv, Done, k
<1>9. CASE Sign(c)
  BY <1>9, <1>a, <1>b, <1>c, <1>d, <1>e, <1>h, Zenon DEF Sign, Goto, ProverInv, Done, k
<1> QED
  BY <1>1, <1>2, <1>3, <1>4, <1>5, <1>6, <1>7, <1>8, <1>9 DEF ProverStep

\* Accepting, rejecting and closing are no concern of the proving side.
LEMMA OutsideUndisturbed ==
    ASSUME ProverTypes, \A u \in Conns : ProverInv(u), UNCHANGED certVars,
           \/ UNCHANGED pc
           \/ \E c \in Conns : \E l \in Done : Goto(c, l)
           \/ \E c \in Conns : pc[c] = "signed" /\ Goto(c, "open")
    PROVE  \A u \in Conns : ProverInv(u)'
<1> SUFFICES ASSUME NEW u \in Conns PROVE ProverInv(u)'
  OBVIOUS
<1>1. pc \in [Conns -> Labels]
  BY DEF ProverTypes
<1>2. pc'[u] = pc[u] \/ pc'[u] \in Done \/ (pc'[u] = "open" /\ pc[u] = "signed")
  BY <1>1 DEF Goto
<1>3. /\ UNCHANGED <<role, source, offer>>
      /\ pair'[u] = pair[u] /\ sigAlg'[u] = sigAlg[u]
      /\ certMsg'[u] = certMsg[u] /\ sigKey'[u] = sigKey[u]
      /\ HsCert(u)' = HsCert(u)
  BY DEF certVars, HsCert
<1>4. \E f \in {"key", "dc"} : HsCert(u)' \in {HsCert(u), [HsCert(u) EXCEPT ![f] = GetDelegatedCredential(u)]}
  BY <1>3, Zenon
<1> QED
  BY <1>2, <1>3, <1>4, Undisturbed, Zenon

\* Whether the handshakes can disturb each other never changes.
LEMMA UniformKept ==
    ASSUME UNCHANGED <<source, offer>>
    PROVE  Uniform' = Uniform
BY ChoiceKept DEF Uniform

\* The inductive invariant of handshakes that do not disturb each other.
LEMMA UniformInductive == Spec => []UniformInv
<1>1. Init => UniformInv
  <2> SUFFICES ASSUME Init, NEW c \in Conns PROVE ProverInv(c)
    BY Zenon DEF UniformInv
  <2> QED
    BY DEF Init, CertInit, ProverInv, HsCert, Done
<1>2. ExchangeInv /\ UniformInv /\ [Next]_vars => UniformInv'
  <2> SUFFICES ASSUME ExchangeInv, UniformInv, [Next]_vars PROVE UniformInv'
    OBVIOUS
  <2>0. ProverTypes
    BY DEF ExchangeInv, TypeOK, ProverTypes, Labels
  <2>1. ASSUME NEW c \in Conns, Prove(c) PROVE UniformInv'
    <3>1. ProverStep(c)
      BY <2>1 DEF Prove
    <3>2. UNCHANGED <<source, offer>>
      BY <3>1 DEF ProverStep, PickCertificate, SetPrivateKey, SetDelegatedCredential,
           ChooseClientCredential, CopyCertificate, WriteCertificate, ClientScheme,
           ClientUseCredential, Sign
    <3> SUFFICES ASSUME Uniform PROVE \A u \in Conns : ProverInv(u)'
      BY <3>2, UniformKept, Zenon DEF UniformInv
    <3>3. \A u \in Conns : ProverInv(u)
      BY DEF UniformInv
    <3>4. \A u \in Conns \ {c} : ProverInv(u)'
      BY <2>0, <3>1, <3>3, OthersUndisturbed
    <3>5. ProverInv(c)'
      BY <2>0, <3>1, <3>3, ProverOwnStep
    <3> QED
      BY <3>4, <3>5
  <2>2. ASSUME UNCHANGED certVars,
               \/ UNCHANGED pc
               \/ \E c \in Conns : \E l \in Done : Goto(c, l)
               \/ \E c \in Conns : pc[c] = "signed" /\ Goto(c, "open")
        PROVE  UniformInv'
    <3>1. Uniform' = Uniform
      BY <2>2, UniformKept DEF certVars
    <3>2. (\A u \in Conns : ProverInv(u)) => \A u \in Conns : ProverInv(u)'
      BY <2>0, <2>2, OutsideUndisturbed
    <3> QED
      BY <3>1, <3>2 DEF UniformInv
  <2>3. ASSUME NEW c \in Conns, NewCert(c) \/ NewCertStep(c) \/ TakeHandle(c) PROVE UniformInv'
    BY <2>2, <2>3 DEF NewCert, NewCertStep, TakeHandle
  <2>4. ASSUME NEW c \in Conns, ChainFails(c) \/ Reject(c) \/ Close(c) PROVE UniformInv'
    <3>1. UNCHANGED certVars /\ \E l \in Done : Goto(c, l)
      BY <2>4, Zenon DEF ChainFails, Reject, Close, Abandon, Done
    <3> QED
      BY <2>2, <3>1
  <2>5. ASSUME NEW c \in Conns, Accept(c) PROVE UniformInv'
    BY <2>2, <2>5 DEF Accept, ChainRead
  <2>6. ASSUME Finalizer \/ Tick \/ UNCHANGED vars PROVE UniformInv'
    BY <2>2, <2>6 DEF Finalizer, Tick, vars
  <2> QED
    BY <2>1, <2>3, <2>4, <2>5, <2>6 DEF Next, ConnStep
<1> QED
  BY <1>1, <1>2, ExchangeInductive, PTL DEF Spec

\* What a handshake that nobody disturbs has shown and signed with.
LEMMA ShownIsChosen ==
    ASSUME CertTypeOK, NEW c \in Conns, ProverInv(c), pc[c] \in {"signed", "open"}
    PROVE  /\ Shown(c) = GetDelegatedCredential(c) /\ sigKey[c] = Shown(c)
           /\ sigAlg[c] = KeyAlg(Shown(c))
<1>1. role \in {"server", "client"}
  BY RolesAssumption DEF CertTypeOK
<1> QED
  BY <1>1, Zenon DEF ProverInv, Shown

\* When every handshake has a Certificate of its own, or all choose the same credential,
\* the key that signs is that of what the Certificate message shows.
THEOREM UniformKeySigns == Spec => [](Uniform => ShownKeySigns)
<1>1. ExchangeInv /\ UniformInv => (Uniform => ShownKeySigns)
  BY ShownIsChosen DEF ExchangeInv, TypeOK, UniformInv, ShownKeySigns
<1> QED
  BY <1>1, ExchangeInductive, UniformInductive, PTL

\* And such handshakes are rejected only because the credential has expired or would live
\* too long.
THEOREM RejectsForTime == Spec => RejectedForTime
<1>1. ExchangeInv /\ UniformInv /\ [Next]_vars =>
        [\A c \in Conns : Uniform /\ Reject(c) =>
         Shown(c) # nilDC /\ (now >= Pairs[Shown(c)].valid \/ Pairs[Shown(c)].valid - now > DCMaxTTL)]_vars
  <2> SUFFICES ASSUME ExchangeInv, UniformInv, NEW c \in Conns, Uniform, Reject(c)
               PROVE  /\ Shown(c) # nilDC
                      /\ now >= Pairs[Shown(c)].valid \/ Pairs[Shown(c)].valid - now > DCMaxTTL
    BY Zenon
  <2>1. CertTypeOK /\ ProverInv(c) /\ now \in Nat
    BY TimeAssumption DEF ExchangeInv, TypeOK, UniformInv
  <2>2. pc[c] = "signed" /\ ~Accepts(c)
    BY Zenon DEF Reject, ChainRead
  <2>3. /\ Shown(c) = GetDelegatedCredential(c) /\ sigKey[c] = Shown(c)
        /\ sigAlg[c] = KeyAlg(Shown(c))
    BY <2>1, <2>2, ShownIsChosen
  <2>4. Shown(c) # nilDC /\ ~Validate(c, Shown(c))
    BY <2>2, <2>3 DEF Accepts, SignatureVerifies
  <2>5. Pairs[Shown(c)].alg \in offer[c] /\ sigAlg[c] = Pairs[Shown(c)].alg
    BY <2>1, <2>3, <2>4, ChosenFacts DEF KeyAlg, leaf, nilDC
  <2>6. IsExpired(Shown(c)) \/ InvalidTTL(Shown(c))
    BY <2>4, <2>5 DEF Validate
  <2>7. Pairs[Shown(c)].valid \in Nat
    BY <2>1, <2>4, ShownFacts
  <2>8. \A v, n \in Nat : ~(n < v) \/ v > n + DCMaxTTL => n >= v \/ v - n > DCMaxTTL
    BY TimeAssumption
  <2> QED
    BY <2>1, <2>4, <2>6, <2>7, <2>8, Zenon DEF IsExpired, InvalidTTL
<1> QED
  BY <1>1, ExchangeInductive, UniformInductive, PTL DEF Spec, RejectedForTime

=============================================================================
