---------------------------- MODULE SessionCache ----------------------------
(***************************************************************************)
(* The cache of sessions of a client: lruSessionCache (common.go) and the  *)
(* handshakes that share it (loadSession, the deferred removal after a     *)
(* failed resumption, saveSessionTicket, handleNewSessionTicket).  Each    *)
(* Get and Put holds the mutex of the cache and is one step; the others    *)
(* run between the Get of a handshake and its Put.                         *)
(***************************************************************************)
EXTENDS Naturals, Sequences, Functions, FiniteSets

CONSTANTS
    Clients,          \* the goroutines that connect
    Keys,             \* the names of servers: clientSessionCacheKey
    Elems,            \* list elements; those not in the list are garbage
    Capacity,
    MaxHandshakes,    \* bound: handshakes of a client
    MaxSessions       \* bound: tickets the servers issue

ASSUME ElemsAssumption == IsFiniteSet(Elems) /\ Cardinality(Elems) >= Capacity
ASSUME CapacityAssumption == Capacity \in Nat \ {0}
ASSUME BoundsAssumption == MaxHandshakes \in Nat /\ MaxSessions \in Nat

\* Sessions are numbered in the order they are issued; nil is no session.
nil == 0
Sessions == 1..MaxSessions

VARIABLES
    m,           \* the map: an element for each key it holds
    q,           \* the list, front first
    value,       \* the lruSessionCacheEntry of an element: sessionKey and state
    pc, server,  \* where a client is, and with which server it speaks
    offered,     \* the session its ClientHello offers, or nil
    left,
    issuedBy,    \* the server that issued each session, in their order
    dropped      \* the sessions with which a resumption failed

cacheVars == <<m, q, value>>
vars == <<cacheVars, pc, server, offered, left, issuedBy, dropped>>

Entry == [sessionKey : Keys, state : Sessions \cup {nil}]

RemoveAt(s, i) == SubSeq(s, 1, i - 1) \o SubSeq(s, i + 1, Len(s))
Last(s) == s[Len(s)]

\* The list without e, and with e at the front; an element of no list is left alone.
Place(e) == CHOOSE i \in 1..Len(q) : q[i] = e
Unlinked(e) == IF e \in Range(q) THEN RemoveAt(q, Place(e)) ELSE q
MoveToFront(e) == IF e \in Range(q) THEN <<e>> \o Unlinked(e) ELSE q

TypeOK ==
    /\ DOMAIN m \subseteq Keys /\ \A k \in DOMAIN m : m[k] \in Elems
    /\ q \in Seq(Elems) /\ Len(q) <= Capacity
    /\ DOMAIN value \subseteq Elems /\ \A e \in DOMAIN value : value[e] \in Entry
    /\ pc \in [Clients -> {"idle", "expired", "hs", "failed", "open"}]
    /\ server \in [Clients -> Keys]
    /\ offered \in [Clients -> Sessions \cup {nil}]
    /\ left \in [Clients -> 0..MaxHandshakes]
    /\ issuedBy \in Seq(Keys) /\ Len(issuedBy) <= MaxSessions
    /\ dropped \subseteq Sessions

Init ==
    /\ m = << >> /\ q = << >> /\ value = << >>
    /\ pc = [t \in Clients |-> "idle"]
    /\ server \in [Clients -> Keys]
    /\ offered = [t \in Clients |-> nil]
    /\ left = [t \in Clients |-> MaxHandshakes]
    /\ issuedBy = << >> /\ dropped = {}

-----------------------------------------------------------------------------
(* lruSessionCache.                                                        *)

With(f, x, y) == [z \in DOMAIN f \cup {x} |-> IF z = x THEN y ELSE f[z]]
Without(f, x) == [z \in DOMAIN f \ {x} |-> f[z]]

\* Faulty variants: the element is taken out of the list and left in the map; the
\* list is not reordered.
PutRemoveFromList(k) == q' = Unlinked(m[k]) /\ UNCHANGED <<m, value>>
PutUpdateInPlace(k, cs) == value' = [value EXCEPT ![m[k]].state = cs] /\ UNCHANGED <<m, q>>

\* Put on a key in the cache.
PutRemove(k) ==
    /\ q' = Unlinked(m[k])
    /\ m' = Without(m, k)
    /\ UNCHANGED value

PutUpdate(k, cs) ==
    /\ value' = [value EXCEPT ![m[k]].state = cs]
    /\ q' = MoveToFront(m[k])
    /\ UNCHANGED m

\* Put on another key, with room in the list and without: cs may be nil.
PutInsert(k, cs) ==
    LET e == CHOOSE x \in Elems : x \notin Range(q) IN
    /\ value' = With(value, e, [sessionKey |-> k, state |-> cs])
    /\ q' = <<e>> \o q
    /\ m' = With(m, k, e)

Reuse(e, k, cs, rest) ==
    /\ value' = With(value, e, [sessionKey |-> k, state |-> cs])
    /\ q' = MoveToFront(e)
    /\ m' = With(rest, k, e)

\* Faulty variants: the old key is left in the map; the most recent entry is
\* evicted.
PutEvictKeepsKey(k, cs) == Reuse(Last(q), k, cs, m)
PutEvictFront(k, cs) == Reuse(q[1], k, cs, Without(m, value[q[1]].sessionKey))

PutEvict(k, cs) == Reuse(Last(q), k, cs, Without(m, value[Last(q)].sessionKey))

Put(k, cs) ==
    IF k \in DOMAIN m
    THEN IF cs = nil THEN PutRemove(k) ELSE PutUpdate(k, cs)
    ELSE IF Len(q) < Capacity THEN PutInsert(k, cs) ELSE PutEvict(k, cs)

\* Get, and what it returns: nil for (nil, false) and for (nil, true).
Get(k) ==
    IF k \in DOMAIN m THEN q' = MoveToFront(m[k]) /\ UNCHANGED <<m, value>>
                      ELSE UNCHANGED cacheVars

Cached(k) == IF k \in DOMAIN m THEN value[m[k]].state ELSE nil

-----------------------------------------------------------------------------
(* The handshakes.                                                         *)

Goto(t, l) == pc' = [pc EXCEPT ![t] = l]

\* loadSession: s is the session the ClientHello offers.
Load(t, k, s, l) ==
    /\ pc[t] = "idle" /\ left[t] > 0
    /\ left' = [left EXCEPT ![t] = @ - 1]
    /\ server' = [server EXCEPT ![t] = k]
    /\ offered' = [offered EXCEPT ![t] = s]
    /\ Get(k)
    /\ Goto(t, l)
    /\ UNCHANGED <<issuedBy, dropped>>

\* The cached session can be resumed.
LoadSession(t, k) == Cached(k) # nil /\ Load(t, k, Cached(k), "hs")

\* There is none, or it is of another version, chain, name or cipher suite.
LoadNone(t, k) == Load(t, k, nil, "hs")

\* Its certificate or its ticket has expired: it is going to be removed.
LoadExpired(t, k) == Cached(k) # nil /\ Load(t, k, nil, "expired")

DropExpired(t) ==
    /\ pc[t] = "expired"
    /\ Put(server[t], nil)
    /\ Goto(t, "hs")
    /\ UNCHANGED <<server, offered, left, issuedBy, dropped>>

\* The handshake fails.
Fail(t) ==
    /\ pc[t] = "hs"
    /\ Goto(t, IF offered[t] = nil THEN "idle" ELSE "failed")
    /\ UNCHANGED <<cacheVars, server, offered, left, issuedBy, dropped>>

\* The deferred function of clientHandshake throws the session away.
DropFailed(t) ==
    /\ pc[t] = "failed"
    /\ Put(server[t], nil)
    /\ dropped' = dropped \cup {offered[t]}
    /\ offered' = [offered EXCEPT ![t] = nil]
    /\ Goto(t, "idle")
    /\ UNCHANGED <<server, left, issuedBy>>

\* The server of t issues a session, which is cached under the name k.
SaveAs(t, k) ==
    /\ Len(issuedBy) < MaxSessions
    /\ issuedBy' = Append(issuedBy, server[t])
    /\ Put(k, Len(issuedBy) + 1)

\* saveSessionTicket, the end of a TLS 1.2 handshake in which a ticket came.
SaveSessionTicket(t) ==
    /\ pc[t] = "hs"
    /\ SaveAs(t, server[t])
    /\ offered' = [offered EXCEPT ![t] = nil]
    /\ Goto(t, "idle")
    /\ UNCHANGED <<server, left, dropped>>

\* The end of any other successful handshake.  On an open TLS 1.3 connection
\* tickets may still come.
Established(t) ==
    /\ pc[t] = "hs"
    /\ offered' = [offered EXCEPT ![t] = nil]
    /\ Goto(t, "open")
    /\ UNCHANGED <<cacheVars, server, left, issuedBy, dropped>>

HandleNewSessionTicket(t) ==
    /\ pc[t] = "open"
    /\ SaveAs(t, server[t])
    /\ UNCHANGED <<pc, server, offered, left, dropped>>

Close(t) ==
    /\ pc[t] = "open"
    /\ Goto(t, "idle")
    /\ UNCHANGED <<cacheVars, server, offered, left, issuedBy, dropped>>

Next == \E t \in Clients :
    \/ \E k \in Keys : LoadSession(t, k) \/ LoadNone(t, k) \/ LoadExpired(t, k)
    \/ DropExpired(t) \/ Fail(t) \/ DropFailed(t)
    \/ SaveSessionTicket(t) \/ Established(t) \/ HandleNewSessionTicket(t) \/ Close(t)

Spec == Init /\ [][Next]_vars

-----------------------------------------------------------------------------
(* Properties.                                                             *)

\* The map and the list of lruSessionCache agree: each element of the list is
\* the one of its own key, and there is no other key in the map.  The list stays
\* within its capacity.
MapAndListAgree ==
    /\ TypeOK
    /\ Cardinality(DOMAIN m) = Len(q)
    /\ \A i \in 1..Len(q) :
         value[q[i]].sessionKey \in DOMAIN m /\ m[value[q[i]].sessionKey] = q[i]

\* A client offers a server only sessions that server issued, whichever
\* elements the cache has reused since.
OfferedToIssuer ==
    \A t \in Clients : offered[t] # nil => issuedBy[offered[t]] = server[t]

\* A session thrown away after a failed resumption is never found again.
DroppedStaysOut == \A k \in Keys : Cached(k) \notin dropped

\* The entries of the list in its order.
Entries == [i \in 1..Len(q) |-> [key |-> value[q[i]].sessionKey,
                                 session |-> value[q[i]].state]]

Store == INSTANCE SessionStore
    WITH Keys <- Keys, Sessions <- Sessions, Capacity <- Capacity, nil <- nil,
         recent <- Entries

\* The cache of the handshakes that share it implements the store: map, list and
\* reused elements never show an entry in a place or under a key the store has not.
ImplementsStore == Store!Spec

\* "If cs is nil, the entry corresponding to sessionKey is removed from the
\* cache instead": the entries of other keys stay.
NilOnlyRemoves ==
    [][\A t \in Clients : DropExpired(t) \/ DropFailed(t) =>
         \A k \in Keys \ {server[t]} : Cached(k)' = Cached(k)]_vars

\* "If we got a handshake failure when resuming a session, throw away the session
\* ticket": the failure of one session does not remove another one.
FailureDropsItsOwn ==
    [][\A t \in Clients : DropFailed(t) => Cached(server[t]) \in {offered[t], nil}]_vars
=============================================================================
