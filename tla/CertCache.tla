----------------------------- MODULE CertCache -----------------------------
(***************************************************************************)
(* certCache (cache.go): the intern table of parsed certificates.  Every   *)
(* connection that receives a certificate calls newCert and keeps a handle *)
(* (activeCert).  When a handle is garbage its finalizer gives back the    *)
(* reference, and the last one evicts the entry.  The methods of sync.Map  *)
(* and the reference counts are atomic; nothing else is.  One goroutine    *)
(* runs all finalizers, one after the other.                               *)
(***************************************************************************)
EXTENDS Naturals

CONSTANTS
    Callers,     \* the goroutines that call newCert
    Ders,        \* the encodings of certificates
    Entries,     \* cacheEntry objects; garbage is allocated again
    none

ASSUME NoneAssumption == none \notin Entries

VARIABLES
    table,       \* the sync.Map
    raw,         \* cert.Raw of an entry
    refs,        \* refs of an entry
    live,        \* how many handles of an entry are reachable
    dead,        \* how many are garbage whose finalizer has not run
    call,        \* how far newCert is: pc, its argument and its entry
    evicting     \* the entry the finalizer is about to evict, or none

cacheVars == <<table, raw, refs, live, dead, call, evicting>>

Call == [pc : {"idle", "parse", "store", "active", "ok", "failed"},
         der : Ders, entry : Entries \cup {none}]

CacheTypeOK ==
    /\ table \in [Ders -> Entries \cup {none}]
    /\ raw \in [Entries -> Ders]
    /\ refs \in [Entries -> Nat] /\ live \in [Entries -> Nat] /\ dead \in [Entries -> Nat]
    /\ call \in [Callers -> Call]
    /\ evicting \in Entries \cup {none}

CacheInit ==
    /\ table = [d \in Ders |-> none]
    /\ \E d \in Ders : /\ raw = [e \in Entries |-> d]
                       /\ call = [t \in Callers |-> [pc |-> "idle", der |-> d, entry |-> none]]
    /\ refs = [e \in Entries |-> 0]
    /\ live = [e \in Entries |-> 0]
    /\ dead = [e \in Entries |-> 0]
    /\ evicting = none

-----------------------------------------------------------------------------
(* newCert and active.  The caller takes the result at "ok" or "failed".   *)

Proceed(t, l, e) == call' = [call EXCEPT ![t].pc = l, ![t].entry = e]

\* Load.
LoadCert(t, d) ==
    /\ call[t].pc = "idle"
    /\ call' = [call EXCEPT ![t] =
         [pc |-> IF table[d] = none THEN "parse" ELSE "active", der |-> d, entry |-> table[d]]]
    /\ UNCHANGED <<table, raw, refs, live, dead, evicting>>

\* The entries nothing refers to.
Garbage(e) ==
    /\ refs[e] = 0 /\ evicting # e
    /\ \A d \in Ders : table[d] # e
    /\ \A t \in Callers : call[t].entry # e

\* ParseCertificate fails, or a new entry is made.
ParseFails(t) ==
    /\ call[t].pc = "parse"
    /\ Proceed(t, "failed", none)
    /\ UNCHANGED <<table, raw, refs, live, dead, evicting>>

Parse(t, e) ==
    /\ call[t].pc = "parse" /\ Garbage(e)
    /\ raw' = [raw EXCEPT ![e] = call[t].der]
    /\ Proceed(t, "store", e)
    /\ UNCHANGED <<table, refs, live, dead, evicting>>

LoadOrStore(t) ==
    LET d == call[t].der IN
    /\ call[t].pc = "store"
    /\ IF table[d] = none
       THEN /\ table' = [table EXCEPT ![d] = call[t].entry]
            /\ Proceed(t, "active", call[t].entry)
       ELSE Proceed(t, "active", table[d]) /\ UNCHANGED table
    /\ UNCHANGED <<raw, refs, live, dead, evicting>>

Activate(t) ==
    LET e == call[t].entry IN
    /\ call[t].pc = "active"
    /\ refs' = [refs EXCEPT ![e] = @ + 1]
    /\ live' = [live EXCEPT ![e] = @ + 1]
    /\ Proceed(t, "ok", e)
    /\ UNCHANGED <<table, raw, dead, evicting>>

-----------------------------------------------------------------------------
(* Handles and their finalizers.                                           *)

\* One finalizer: the reference is given back, and the last one starts evict.
\* A faulty variant: the entry is evicted with one reference left, and the last one
\* does not evict.
FinalizeAlways(e) ==
    /\ evicting = none /\ dead[e] > 0
    /\ dead' = [dead EXCEPT ![e] = @ - 1]
    /\ refs' = [refs EXCEPT ![e] = @ - 1]
    /\ evicting' = IF refs[e] = 2 THEN e ELSE none
    /\ UNCHANGED <<table, raw, live, call>>

Finalize(e) ==
    /\ evicting = none /\ dead[e] > 0
    /\ dead' = [dead EXCEPT ![e] = @ - 1]
    /\ refs' = [refs EXCEPT ![e] = @ - 1]
    /\ evicting' = IF refs[e] = 1 THEN e ELSE none
    /\ UNCHANGED <<table, raw, live, call>>

\* evict deletes by the encoding: it may meet another entry, or one that a caller
\* has made active since.
Evict ==
    /\ evicting # none
    /\ table' = [table EXCEPT ![raw[evicting]] = none]
    /\ evicting' = none
    /\ UNCHANGED <<raw, refs, live, dead, call>>

CallerStep(t) ==
    \/ ParseFails(t) \/ (\E e \in Entries : Parse(t, e)) \/ LoadOrStore(t) \/ Activate(t)

FinalizerStep == (\E e \in Entries : Finalize(e)) \/ Evict

-----------------------------------------------------------------------------
(* What callers do: newCert returns, and handles become garbage, also those *)
(* of a caller whose newCert has failed.                                   *)

ReturnCert(t) ==
    /\ call[t].pc \in {"ok", "failed"}
    /\ Proceed(t, "idle", none)
    /\ UNCHANGED <<table, raw, refs, live, dead, evicting>>

DropHandles ==
    /\ live' \in [Entries -> Nat] /\ dead' \in [Entries -> Nat]
    /\ \A e \in Entries : live'[e] <= live[e] /\ live'[e] + dead'[e] = live[e] + dead[e]
    /\ UNCHANGED call \/ \E t \in Callers : call[t].pc = "failed" /\ Proceed(t, "idle", none)
    /\ UNCHANGED <<table, raw, refs, evicting>>

CacheNext ==
    \/ \E t \in Callers : (\E d \in Ders : LoadCert(t, d)) \/ CallerStep(t) \/ ReturnCert(t)
    \/ DropHandles
    \/ FinalizerStep

CacheSpec == CacheInit /\ [][CacheNext]_cacheVars

-----------------------------------------------------------------------------
(* Properties.                                                             *)

\* The references of an entry are its handles, reachable or not yet finalized.
RefsExact == \A e \in Entries : refs[e] = live[e] + dead[e]

\* No entry is left behind: one that is in the table holds the certificate it is
\* filed under, and it has references, or a caller is about to take one, or an
\* eviction of that certificate is under way.  So the race that the comment on
\* active describes never leaves an entry that nobody will evict.
NoneLeftBehind ==
    \A d \in Ders : table[d] # none =>
        /\ raw[table[d]] = d
        /\ \/ refs[table[d]] > 0
           \/ \E t \in Callers : call[t].pc = "active" /\ call[t].entry = table[d]
           \/ evicting # none /\ raw[evicting] = d

\* A caller works on an entry of the certificate it was given.
CallsAgree ==
    \A t \in Callers :
        /\ call[t].pc \in {"store", "active", "ok"} =>
             call[t].entry # none /\ raw[call[t].entry] = call[t].der
        /\ call[t].pc = "store" =>
             /\ refs[call[t].entry] = 0
             /\ \A d \in Ders : table[d] # call[t].entry
             /\ evicting # call[t].entry
             /\ \A u \in Callers \ {t} : call[u].entry # call[t].entry

\* The inductive invariant.
CacheInv == CacheTypeOK /\ RefsExact /\ NoneLeftBehind /\ CallsAgree
=============================================================================
