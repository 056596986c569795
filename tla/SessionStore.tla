---------------------------- MODULE SessionStore ----------------------------
(***************************************************************************)
(* What ClientSessionCache and lruSessionCache promise: a bounded list of  *)
(* entries, the most recently used one first.  A key has at most one       *)
(* entry, and a Put of nil takes the entry of its key away.  A key that    *)
(* has none gets one that holds nil, as lruSessionCache.Put does.          *)
(***************************************************************************)
EXTENDS Naturals, Sequences

CONSTANTS Keys, Sessions, Capacity, nil

VARIABLE recent

RemoveAt(s, i) == SubSeq(s, 1, i - 1) \o SubSeq(s, i + 1, Len(s))
Front(s) == SubSeq(s, 1, Len(s) - 1)

Holds(k) == \E i \in 1..Len(recent) : recent[i].key = k
Place(k) == CHOOSE i \in 1..Len(recent) : recent[i].key = k

Init == recent = << >>

\* The entry of k becomes, or is replaced by, the most recent one.
Renew(k, s) ==
    Holds(k) /\ recent' = <<[key |-> k, session |-> s]>> \o RemoveAt(recent, Place(k))

\* A new entry: the least recent one gives way.
Insert(k, s) ==
    /\ ~Holds(k)
    /\ recent' = <<[key |-> k, session |-> s]>> \o
                 (IF Len(recent) = Capacity THEN Front(recent) ELSE recent)

\* A Put of nil for a key that has an entry.
Delete(k) == Holds(k) /\ recent' = RemoveAt(recent, Place(k))

\* A Get.
Touch(k) == Renew(k, recent[Place(k)].session)

Next ==
    \E k \in Keys :
        \/ Delete(k) \/ Touch(k)
        \/ \E s \in Sessions : Renew(k, s)
        \/ \E s \in Sessions \cup {nil} : Insert(k, s)

Spec == Init /\ [][Next]_recent
=============================================================================
