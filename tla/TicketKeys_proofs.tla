-------------------------- MODULE TicketKeys_proofs --------------------------
(***************************************************************************)
(* The safety of the ticket keys, for any goroutines, Configs, times and   *)
(* bounds.  Three inductive invariants build on each other: types and read *)
(* locks, the lists of keys, and what connections and clients hold.        *)
(***************************************************************************)
EXTENDS TicketKeys, TLAPS

-----------------------------------------------------------------------------
(* The invariants.                                                         *)

\* Where t is says which Config it works on.
PlacedAt(t) ==
    /\ pc[t] \in {"rot_lock", "rot_wait", "rot_rlock"} => trying[t] = "base"
    /\ pc[t] \in {"set_lock", "set_wait", "clone_rlock", "clone_held"} => trying[t] = "client"
    /\ pc[t] \in {"rlock", "check", "init_lock", "init_wait", "init_rlock", "choose"}
         /\ trying[t] = "client" => config[t] \in ForClient

\* Whoever is going to RUnlock holds the lock.
Reading(t) == pc[t] \in {"check", "choose", "clone_held"}
HoldsAt(t) == Reading(t) => readers[Cur(t)][t] > 0

Placed == \A t \in Threads : PlacedAt(t)
ReadLocksHeld == \A t \in Threads : HoldsAt(t)

LocksInv == TypeOK /\ Placed /\ ReadLocksHeld

\* A list of keys has a first one, and rotations number their keys upwards.
HasFirst(S) == S # {} => \E k \in S : \A j \in S : j.id <= k.id

Ordered ==
    /\ \A c \in Configs : /\ HasFirst(sessionTicketKeys[c]) /\ HasFirst(autoSessionTicketKeys[c])
                          /\ \A k \in autoSessionTicketKeys[c] : k.id < nextId
    /\ \A t \in Threads : HasFirst(keys[t])

TypeInv == LocksInv /\ Ordered

\* The keys of each Config: rotations are spaced, and what they keep had not expired.
ListOK(S) ==
    \A j, k \in S :
        /\ j.id = k.id => j = k
        /\ j.id < k.id => j.created + Rotation <= k.created
        /\ k.created < j.created + Lifetime

ListInv ==
    /\ Base \in live
    /\ \A c \in Configs :
         /\ ListOK(autoSessionTicketKeys[c])
         /\ \A k \in autoSessionTicketKeys[c] : k.auto /\ k.created <= now
         /\ \A k \in sessionTicketKeys[c] : ~k.auto

\* A key that was fetched is still in the list of the Config, or has expired.
Kept(k) == k \in autoSessionTicketKeys[Base] \/ k.created + Lifetime <= now

FetchedInv ==
    \A t \in Threads :
        /\ \A k \in keys[t] : k.auto => Kept(k) /\ fetched[t] < k.created + Lifetime + Rotation
        /\ keys[t] # {} /\ First(keys[t]).auto => fetched[t] < First(keys[t]).created + Rotation

TicketInv ==
    \A ticket \in tickets :
        /\ ticket.createdAt = ticket.secretAt
        /\ ticket.key.auto => Kept(ticket.key) /\ ticket.fetchedAt < ticket.key.created + Rotation

SessionInv ==
    \A t \in Threads : session[t].some =>
        /\ session[t].createdAt = session[t].secretAt
        /\ session[t].resumedAt - session[t].secretAt <= MaxTicketAge

\* The inductive invariant.
KeysInv == TypeInv /\ ListInv /\ FetchedInv /\ TicketInv /\ SessionInv

-----------------------------------------------------------------------------
(* Locks and types.                                                        *)

\* What RLock and RUnlock do to the read locks.
LEMMA ReaderFacts ==
    ASSUME readers \in [Configs -> [Threads -> Nat]], NEW t \in Threads, NEW c \in Configs
    PROVE  /\ RLock(t, c) => /\ readers' \in [Configs -> [Threads -> Nat]]
                             /\ readers'[c][t] = readers[c][t] + 1
           /\ RUnlock(t, c) /\ readers[c][t] > 0 =>
                             /\ readers' \in [Configs -> [Threads -> Nat]]
                             /\ readers'[c][t] = readers[c][t] - 1
           /\ RLock(t, c) \/ RUnlock(t, c) =>
                \A d \in Configs, u \in Threads :
                  d # c \/ u # t => readers'[d][u] = readers[d][u]
BY DEF RLock, RUnlock

\* The Config in use exists.
LEMMA CurConfig == ASSUME TypeOK, NEW t \in Threads PROVE Cur(t) \in Configs /\ Base \in Configs
BY ConfigsAssumption DEF TypeOK, Cur

\* Control moves for one goroutine only.
LEMMA GotoFacts ==
    ASSUME TypeOK, NEW t \in Threads, NEW l \in Labels, Goto(t, l)
    PROVE  /\ pc' \in [Threads -> Labels] /\ pc'[t] = l
           /\ \A u \in Threads \ {t} : pc'[u] = pc[u]
BY DEF Goto, TypeOK

\* What a step of t leaves to the others.
Elsewhere(t) ==
    \A u \in Threads \ {t} :
        /\ pc'[u] = pc[u] /\ trying'[u] = trying[u] /\ config'[u] = config[u]
        /\ \A c \in Configs : readers'[c][u] = readers[c][u]

\* It is enough to look at t.
LEMMA Locality ==
    ASSUME TypeInv, NEW t \in Threads, Elsewhere(t), PlacedAt(t)', HoldsAt(t)'
    PROVE  Placed' /\ ReadLocksHeld'
<1>1. Placed'
  BY DEF TypeInv, LocksInv, Placed, PlacedAt, Elsewhere
<1>2. ASSUME NEW u \in Threads \ {t} PROVE HoldsAt(u)'
  <2>1. Reading(u)' = Reading(u) /\ Cur(u)' = Cur(u)
    BY DEF Elsewhere, Reading, Cur
  <2>2. Cur(u) \in Configs
    BY CurConfig DEF TypeInv, LocksInv
  <2> QED
    BY <2>1, <2>2, Zenon DEF TypeInv, LocksInv, ReadLocksHeld, HoldsAt, Elsewhere
<1> QED
  BY <1>1, <1>2 DEF ReadLocksHeld

\* The first key of a list is one of its keys, and the latest.
LEMMA KeyFacts ==
    ASSUME NEW S \in SUBSET Key, HasFirst(S), S # {}
    PROVE  First(S) \in S /\ \A j \in S : j.id <= First(S).id
BY DEF HasFirst, First

\* Of two keys one is first.
LEMMA FirstOfTwo == ASSUME NEW j \in Key, NEW k \in Key PROVE HasFirst({j} \cup {k})
<1>1. j.id \in Nat /\ k.id \in Nat
  BY DEF Key
<1>2. CASE j.id <= k.id
  <2>1. \A i \in {j} \cup {k} : i.id <= k.id
    BY <1>1, <1>2
  <2> QED
    BY <2>1, Zenon DEF HasFirst
<1>3. CASE k.id <= j.id
  <2>1. \A i \in {j} \cup {k} : i.id <= j.id
    BY <1>1, <1>3
  <2> QED
    BY <2>1, Zenon DEF HasFirst
<1> QED
  BY <1>1, <1>2, <1>3

\* What rotation leaves: the new key and those that have not expired.
LEMMA RotatedFacts ==
    ASSUME NEW S \in SUBSET Key, now \in Nat, nextId \in Nat
    PROVE  /\ Rotated(S) \in SUBSET Key
           /\ AutoKey(nextId, now) \in Rotated(S)
           /\ \A k \in Rotated(S) :
                \/ k = AutoKey(nextId, now)
                \/ k \in S /\ now - k.created < Lifetime
           /\ \A k \in S : now - k.created < Lifetime => k \in Rotated(S)
<1>1. AutoKey(nextId, now) \in Key
  BY DEF AutoKey, Key
<1>2. Rotated(S) = {AutoKey(nextId, now)} \cup {k \in S : now - k.created < Lifetime}
  BY DEF Rotated, RotatedDropping
<1> QED
  BY <1>1, <1>2

\* The keys are rotated only when the first one is stale.
LEMMA RotateFacts ==
    ASSUME TypeOK, NEW t \in Threads, Rotate(t)
    PROVE  /\ \/ Fresh(autoSessionTicketKeys[Base]) /\ UNCHANGED <<autoSessionTicketKeys, nextId>>
              \/ /\ ~Fresh(autoSessionTicketKeys[Base])
                 /\ autoSessionTicketKeys' =
                      [autoSessionTicketKeys EXCEPT ![Base] = Rotated(autoSessionTicketKeys[Base])]
                 /\ nextId' = nextId + 1
           /\ keys' = [keys EXCEPT ![t] = autoSessionTicketKeys'[Base]]
           /\ fetched' = [fetched EXCEPT ![t] = now]
           /\ UNCHANGED <<sessionTicketKeys, session, tickets, now>>
<1> DEFINE A == autoSessionTicketKeys[Base]
<1>1. /\ autoSessionTicketKeys' = [autoSessionTicketKeys EXCEPT ![Base] =
                                     IF ~Fresh(A) THEN Rotated(A) ELSE A]
      /\ nextId' = IF ~Fresh(A) THEN nextId + 1 ELSE nextId
  BY DEF Rotate, RotateIf
<1>2. Fresh(A) => autoSessionTicketKeys' = autoSessionTicketKeys
  BY <1>1 DEF TypeOK
<1>3. ~Fresh(A) => autoSessionTicketKeys' = [autoSessionTicketKeys EXCEPT ![Base] = Rotated(A)]
  BY <1>1
<1>4. /\ keys' = [keys EXCEPT ![t] = autoSessionTicketKeys'[Base]]
      /\ fetched' = [fetched EXCEPT ![t] = now]
      /\ UNCHANGED <<sessionTicketKeys, session, tickets, now>>
  BY DEF Rotate, RotateIf, Fetch
<1> QED
  BY <1>1, <1>2, <1>3, <1>4

\* The types hold at first.
LEMMA TypeStart == Init => TypeInv
<1> SUFFICES ASSUME Init PROVE TypeInv
  OBVIOUS
<1> USE ConfigsAssumption, BoundsAssumption DEF Init
<1>1. TypeOK
  BY DEF TypeOK, Labels, NoSession, Session
<1>2. Placed /\ ReadLocksHeld
  BY DEF Placed, PlacedAt, ReadLocksHeld, HoldsAt, Reading
<1>3. Ordered
  BY DEF Ordered, HasFirst
<1> QED
  BY <1>1, <1>2, <1>3 DEF TypeInv, LocksInv

\* Every step keeps the locks and their holders in agreement.
LEMMA LocksStep == TypeInv /\ [Next]_vars => LocksInv'
<1> SUFFICES ASSUME TypeInv, [Next]_vars PROVE LocksInv'
  OBVIOUS
<1> USE DEF connVars, lockVars, configVars, envVars, At
<1>0. TypeOK /\ Placed /\ ReadLocksHeld
  BY DEF TypeInv, LocksInv
<1>1. CASE Tick \/ UNCHANGED vars
  <2>1. TypeOK'
    BY <1>0, <1>1 DEF Tick, TypeOK, vars
  <2> QED
    BY <1>0, <1>1, <2>1
       DEF Tick, LocksInv, Placed, PlacedAt, ReadLocksHeld, HoldsAt, Reading, Cur, vars
<1>2. ASSUME NEW t \in Threads, NEW c \in Configs \cup {NoConfig}, Serve(t, c) PROVE LocksInv'
  <2> USE <1>0, <1>2, GotoFacts DEF Serve, Call, Labels
  <2>1. TypeOK'
    BY ConfigsAssumption DEF TypeOK, NoSession, Session
  <2>2. Elsewhere(t)
    BY DEF Elsewhere, TypeOK
  <2>3. PlacedAt(t)' /\ HoldsAt(t)'
    BY ConfigsAssumption, Zenon DEF TypeOK, PlacedAt, HoldsAt, Reading
  <2> QED
    BY <2>1, <2>2, <2>3, Locality DEF LocksInv
<1>3. ASSUME NEW t \in Threads, NEW c \in Configs, NEW o \in {"set", "clone"},
             NEW l \in {"set_lock", "clone_rlock"}, Admin(t, o, c, l)
      PROVE  LocksInv'
  <2> USE <1>0, <1>3, GotoFacts DEF Admin, Call, Labels
  <2>1. TypeOK'
    BY DEF TypeOK
  <2>2. Elsewhere(t)
    BY DEF Elsewhere, TypeOK
  <2>3. PlacedAt(t)' /\ HoldsAt(t)'
    BY DEF TypeOK, PlacedAt, HoldsAt, Reading
  <2> QED
    BY <2>1, <2>2, <2>3, Locality, Zenon DEF LocksInv
<1>4. ASSUME NEW t \in Threads, KeysRLock(t) \/ InitRLock(t) \/ CloneRLock(t) PROVE LocksInv'
  <2>1. RLock(t, Cur(t)) /\ UNCHANGED <<connVars, configVars, tickets, envVars>>
    BY <1>0, <1>4 DEF KeysRLock, InitRLock, CloneRLock, Placed, PlacedAt, Cur
  <2>2. PICK l \in {"check", "choose", "clone_held"} :
           /\ Goto(t, l)
           /\ l = "clone_held" => pc[t] = "clone_rlock"
           /\ l # "clone_held" => pc[t] \in {"rlock", "init_rlock"}
    BY <1>4, Zenon DEF KeysRLock, InitRLock, CloneRLock
  <2>3. /\ pc' \in [Threads -> Labels] /\ pc'[t] = l
        /\ \A u \in Threads \ {t} : pc'[u] = pc[u]
    BY <1>0, <2>2, GotoFacts DEF Labels
  <2>4. TypeOK'
    BY <1>0, <2>1, <2>3, ReaderFacts, CurConfig DEF RLock, TypeOK
  <2>5. Elsewhere(t)
    BY <1>0, <2>1, <2>3, ReaderFacts, CurConfig DEF Elsewhere, TypeOK
  <2>6. PlacedAt(t)'
    BY <1>0, <2>1, <2>2, <2>3 DEF Placed, PlacedAt
  <2>7. HoldsAt(t)'
    BY <1>0, <2>1, ReaderFacts, CurConfig DEF HoldsAt, Cur, TypeOK
  <2> QED
    BY <2>4, <2>5, <2>6, <2>7, Locality DEF LocksInv
<1>5. ASSUME NEW t \in Threads, RotateDone(t) \/ FullHandshake(t) \/ NoTicket(t) PROVE LocksInv'
  <2>1. PICK l \in {"conn", "ticket", "idle"} : Goto(t, l)
    BY <1>5 DEF RotateDone, FullHandshake, NoTicket
  <2>2. UNCHANGED <<connVars, lockVars, configVars, tickets, envVars>>
    BY <1>5 DEF RotateDone, FullHandshake, NoTicket
  <2>3. TypeOK' /\ Elsewhere(t)
    BY <1>0, <2>1, <2>2, GotoFacts DEF TypeOK, Elsewhere, Labels
  <2>4. PlacedAt(t)' /\ HoldsAt(t)'
    BY <1>0, <2>1, GotoFacts DEF PlacedAt, HoldsAt, Reading, Labels
  <2> QED
    BY <2>3, <2>4, Locality DEF LocksInv
<1>6. ASSUME NEW t \in Threads, LockStart(t) PROVE LocksInv'
  <2>1. PICK l \in {"init_wait", "rot_wait", "set_wait"} :
           /\ Goto(t, l)
           /\ l = "init_wait" => pc[t] = "init_lock"
           /\ l = "rot_wait" => pc[t] = "rot_lock"
           /\ l = "set_wait" => pc[t] = "set_lock"
    BY <1>6 DEF LockStart
  <2>2. LockAnnounce(t, Cur(t)) /\ UNCHANGED <<connVars, configVars, tickets, envVars>>
    BY <1>6 DEF LockStart
  <2>3. TypeOK' /\ Elsewhere(t)
    BY <1>0, <2>1, <2>2, GotoFacts, ZenonT(60) DEF TypeOK, Elsewhere, Labels, LockAnnounce
  <2>4. PlacedAt(t)' /\ HoldsAt(t)'
    BY <1>0, <2>1, <2>2, GotoFacts DEF Placed, PlacedAt, HoldsAt, Reading, Labels
  <2> QED
    BY <2>3, <2>4, Locality DEF LocksInv
<1>7. ASSUME NEW t \in Threads, Reading(t), RUnlock(t, Cur(t)) \/ UNCHANGED lockVars
      PROVE  /\ readers' \in [Configs -> [Threads -> Nat]]
             /\ writer' \in [Configs -> Threads \cup {NoThread}]
             /\ \A u \in Threads \ {t}, c \in Configs : readers'[c][u] = readers[c][u]
  <2>1. Cur(t) \in Configs /\ readers[Cur(t)][t] > 0
    BY <1>0, <1>7, CurConfig DEF ReadLocksHeld, HoldsAt
  <2>2. CASE UNCHANGED lockVars
    BY <1>0, <2>2 DEF TypeOK
  <2>3. CASE RUnlock(t, Cur(t))
    <3>1. UNCHANGED writer
      BY <2>3 DEF RUnlock
    <3> QED
      BY <1>0, <2>1, <2>3, <3>1, ReaderFacts DEF TypeOK
  <2> QED
    BY <1>7, <2>2, <2>3
<1>8. ASSUME NEW t \in Threads, NEW S \in SUBSET Key, Fetch(t, S)
      PROVE  /\ keys' \in [Threads -> SUBSET Key] /\ fetched' \in [Threads -> Nat]
             /\ UNCHANGED <<trying, config, session, err>>
  BY <1>0, <1>8 DEF Fetch, TypeOK
<1>9. ASSUME NEW t \in Threads, KeysDisabled(t) \/ KeysExplicit(t) PROVE LocksInv'
  <2>1. /\ Reading(t) /\ (RUnlock(t, Cur(t)) \/ UNCHANGED lockVars)
        /\ Goto(t, "conn") /\ UNCHANGED <<configVars, tickets, envVars>>
    BY <1>9 DEF KeysDisabled, KeysExplicit, Reading
  <2>2. PICK S \in SUBSET Key : Fetch(t, S)
    BY <1>0, <1>9, CurConfig DEF KeysDisabled, KeysExplicit, TypeOK
  <2>3. TypeOK' /\ Elsewhere(t)
    BY <1>0, <1>7, <1>8, <2>1, <2>2, GotoFacts DEF TypeOK, Elsewhere, Labels
  <2>4. PlacedAt(t)' /\ HoldsAt(t)'
    BY <1>0, <2>1, GotoFacts, Zenon DEF PlacedAt, HoldsAt, Reading, Labels
  <2> QED
    BY <2>3, <2>4, Locality DEF LocksInv
<1>10. ASSUME NEW t \in Threads, KeysCheck(t) PROVE LocksInv'
  <2>1. /\ Reading(t) /\ (RUnlock(t, Cur(t)) \/ UNCHANGED lockVars)
        /\ UNCHANGED <<connVars, configVars, tickets, envVars>>
    BY <1>10 DEF KeysCheck, Reading
  <2>2. PICK l \in {"init_lock", "choose"} :
           Goto(t, l) /\ (l = "choose" => UNCHANGED lockVars) /\ pc[t] = "check"
    BY <1>10 DEF KeysCheck
  <2>3. TypeOK' /\ Elsewhere(t)
    BY <1>0, <1>7, <2>1, <2>2, GotoFacts DEF TypeOK, Elsewhere, Labels
  <2>4. PlacedAt(t)'
    BY <1>0, <2>1, <2>2, GotoFacts, Zenon DEF Placed, PlacedAt, Labels
  <2>5. HoldsAt(t)'
    <3>1. pc'[t] = l /\ readers[Cur(t)][t] > 0 /\ Cur(t)' = Cur(t)
      BY <1>0, <2>1, <2>2, GotoFacts, Zenon DEF ReadLocksHeld, HoldsAt, Labels, Cur
    <3>2. l = "choose" => readers' = readers
      BY <2>2
    <3> QED
      BY <2>2, <3>1, <3>2, Zenon DEF HoldsAt, Reading
  <2> QED
    BY <2>3, <2>4, <2>5, Locality DEF LocksInv
<1>11. ASSUME NEW t \in Threads, KeysOfOriginal(t) PROVE LocksInv'
  <2>1. /\ Reading(t) /\ RUnlock(t, Cur(t)) /\ Goto(t, "rlock")
        /\ trying' = [trying EXCEPT ![t] = "base"]
        /\ UNCHANGED <<config, keys, fetched, session, err, configVars, tickets, envVars>>
    BY <1>11, Zenon DEF KeysOfOriginal, Reading
  <2>4. /\ readers' \in [Configs -> [Threads -> Nat]]
        /\ writer' \in [Configs -> Threads \cup {NoThread}]
        /\ \A u \in Threads \ {t}, c \in Configs : readers'[c][u] = readers[c][u]
    BY <1>7, <2>1, Zenon
  <2>2. TypeOK' /\ Elsewhere(t)
    BY <1>0, <2>1, <2>4, GotoFacts DEF TypeOK, Elsewhere, Labels
  <2>3. PlacedAt(t)' /\ HoldsAt(t)'
    BY <1>0, <2>1, GotoFacts, Zenon DEF TypeOK, PlacedAt, HoldsAt, Reading, Labels
  <2> QED
    BY <2>2, <2>3, Locality DEF LocksInv
<1>12. ASSUME NEW t \in Threads, KeysAuto(t) PROVE LocksInv'
  <2>1. /\ Reading(t) /\ RUnlock(t, Cur(t)) /\ trying[t] = "base"
        /\ UNCHANGED <<configVars, tickets, envVars>>
    BY <1>12, Zenon DEF KeysAuto, Reading, Cur
  <2>2. PICK l \in {"conn", "rot_lock"} : Goto(t, l)
    BY <1>12 DEF KeysAuto
  <2>3. /\ keys' \in [Threads -> SUBSET Key] /\ fetched' \in [Threads -> Nat]
        /\ UNCHANGED <<trying, config, session, err>>
    BY <1>0, <1>8, <1>12, ConfigsAssumption DEF KeysAuto, TypeOK
  <2>4. TypeOK' /\ Elsewhere(t)
    BY <1>0, <1>7, <2>1, <2>2, <2>3, GotoFacts DEF TypeOK, Elsewhere, Labels
  <2>5. PlacedAt(t)' /\ HoldsAt(t)'
    BY <1>0, <2>1, <2>2, <2>3, GotoFacts, Zenon DEF PlacedAt, HoldsAt, Reading, Labels
  <2> QED
    BY <2>4, <2>5, Locality DEF LocksInv
<1>13. ASSUME NEW t \in Threads, InitLegacySessionTicketKey(t) PROVE LocksInv'
  <2> DEFINE c == Cur(t)
  <2>1. c \in Configs
    BY <1>0, CurConfig
  <2>2. /\ pc[t] = "init_wait" /\ Goto(t, "init_rlock") /\ Unlock(c)
        /\ UNCHANGED <<connVars, autoSessionTicketKeys, live, tickets, envVars>>
    BY <1>13 DEF InitLegacySessionTicketKey, InitWith
  <2>3. SessionTicketKey' \in [Configs -> {"zero", "user", "deprecated"}]
    BY <1>0, <1>13, <2>1 DEF InitLegacySessionTicketKey, InitWith, TypeOK
  <2>4. sessionTicketKeys' \in [Configs -> SUBSET Key]
    BY <1>0, <1>13, <2>1 DEF InitLegacySessionTicketKey, InitWith, TypeOK, SetKey, Key
  <2>5. writer' \in [Configs -> Threads \cup {NoThread}] /\ UNCHANGED readers
    BY <1>0, <2>2, Zenon DEF Unlock, TypeOK
  <2> HIDE DEF c
  <2>6. TypeOK' /\ Elsewhere(t)
    BY <1>0, <2>2, <2>3, <2>4, <2>5, GotoFacts DEF TypeOK, Elsewhere, Labels
  <2>7. PlacedAt(t)' /\ HoldsAt(t)'
    BY <1>0, <2>2, GotoFacts, Zenon DEF Placed, PlacedAt, HoldsAt, Reading, Labels
  <2> QED
    BY <2>6, <2>7, Locality DEF LocksInv
<1>14. ASSUME NEW t \in Threads, Rotate(t) PROVE LocksInv'
  <2>1. /\ pc[t] = "rot_wait" /\ Goto(t, "rot_rlock") /\ Unlock(Base)
        /\ Fetch(t, autoSessionTicketKeys'[Base])
        /\ UNCHANGED <<SessionTicketKey, sessionTicketKeys, live, tickets, now, callsLeft>>
    BY <1>14 DEF Rotate, RotateIf
  <2>2. autoSessionTicketKeys' \in [Configs -> SUBSET Key] /\ nextId' \in Nat
    <3>1. Rotated(autoSessionTicketKeys[Base]) \in SUBSET Key
      BY <1>0, ConfigsAssumption, RotatedFacts, ZenonT(60) DEF TypeOK
    <3>2. \/ UNCHANGED <<autoSessionTicketKeys, nextId>>
          \/ /\ autoSessionTicketKeys' =
                  [autoSessionTicketKeys EXCEPT ![Base] = Rotated(autoSessionTicketKeys[Base])]
             /\ nextId' = nextId + 1
      BY <1>0, <1>14, RotateFacts
    <3>3. autoSessionTicketKeys \in [Configs -> SUBSET Key] /\ nextId \in Nat
      BY <1>0 DEF TypeOK
    <3> QED
      BY <3>1, <3>2, <3>3
  <2>3. writer' \in [Configs -> Threads \cup {NoThread}] /\ UNCHANGED readers
    BY <1>0, <2>1, Zenon DEF Unlock, TypeOK
  <2>4. /\ keys' \in [Threads -> SUBSET Key] /\ fetched' \in [Threads -> Nat]
        /\ UNCHANGED <<trying, config, session, err>>
    BY <1>8, <2>1, <2>2, ConfigsAssumption
  <2>5. TypeOK' /\ Elsewhere(t)
    BY <1>0, <2>1, <2>2, <2>3, <2>4, GotoFacts DEF TypeOK, Elsewhere, Labels
  <2>6. PlacedAt(t)' /\ HoldsAt(t)'
    BY <1>0, <2>1, <2>4, GotoFacts DEF Placed, PlacedAt, HoldsAt, Reading, Labels
  <2> QED
    BY <2>5, <2>6, Locality DEF LocksInv
<1>15. ASSUME NEW t \in Threads, SendTicket(t) PROVE LocksInv'
  <2>1. /\ Goto(t, "idle")
        /\ UNCHANGED <<trying, config, keys, fetched, session, lockVars, configVars, envVars>>
    BY <1>15, Zenon DEF SendTicket
  <2>2. err' \in [Threads -> BOOLEAN]
    BY <1>0, <1>15, Zenon DEF SendTicket, TypeOK
  <2>3. ASSUME keys[t] # {} PROVE NewTicket(t) \in Ticket
    <3>1. First(keys[t]) \in Key
      BY <1>0, <2>3, KeyFacts DEF TypeInv, Ordered, TypeOK
    <3>2. /\ session[t].createdAt \in Nat /\ session[t].secretAt \in Nat
          /\ fetched[t] \in Nat /\ now \in Nat
      BY <1>0 DEF TypeOK, Session
    <3> QED
      BY <3>1, <3>2 DEF NewTicket, TicketOf, Ticket
  <2>4. tickets' \subseteq Ticket
    BY <1>0, <1>15, <2>3 DEF SendTicket, TypeOK
  <2>5. TypeOK' /\ Elsewhere(t)
    BY <1>0, <2>1, <2>2, <2>4, GotoFacts DEF TypeOK, Elsewhere, Labels
  <2>6. PlacedAt(t)' /\ HoldsAt(t)'
    BY <1>0, <2>1, GotoFacts, Zenon DEF PlacedAt, HoldsAt, Reading, Labels
  <2> QED
    BY <2>5, <2>6, Locality DEF LocksInv
<1>16. ASSUME NEW t \in Threads, NEW ticket \in tickets, Resume(t, ticket) PROVE LocksInv'
  <2>1. /\ Goto(t, "ticket")
        /\ UNCHANGED <<trying, config, keys, fetched, err, lockVars, configVars, tickets, envVars>>
    BY <1>16, Zenon DEF Resume
  <2>2. ticket.createdAt \in Nat /\ ticket.secretAt \in Nat /\ now \in Nat
    BY <1>0 DEF TypeOK, Ticket
  <2>3. session' \in [Threads -> Session]
    BY <1>0, <1>16, <2>2, Zenon DEF Resume, Session, TypeOK
  <2>4. TypeOK' /\ Elsewhere(t)
    BY <1>0, <2>1, <2>3, GotoFacts DEF TypeOK, Elsewhere, Labels
  <2>5. PlacedAt(t)' /\ HoldsAt(t)'
    BY <1>0, <2>1, GotoFacts, Zenon DEF PlacedAt, HoldsAt, Reading, Labels
  <2> QED
    BY <2>4, <2>5, Locality DEF LocksInv
<1>17. ASSUME NEW t \in Threads, NEW keep \in BOOLEAN, SetSessionTicketKeys(t, keep)
       PROVE  LocksInv'
  <2>1. /\ Goto(t, "idle") /\ Unlock(config[t]) /\ nextId' = nextId + 1
        /\ UNCHANGED <<connVars, SessionTicketKey, autoSessionTicketKeys, live, tickets, now,
                       callsLeft>>
    BY <1>17, Zenon DEF SetSessionTicketKeys
  <2>2. config[t] \in Configs
    BY <1>0 DEF TypeOK
  <2>3. SetKey(nextId) \in Key
    BY <1>0 DEF TypeOK, SetKey, Key
  <2>4. sessionTicketKeys[config[t]] # {} => First(sessionTicketKeys[config[t]]) \in Key
    BY <1>0, <2>2, KeyFacts, Zenon DEF TypeInv, Ordered, TypeOK
  <2>5. sessionTicketKeys' \in [Configs -> SUBSET Key]
    BY <1>0, <1>17, <2>2, <2>3, <2>4 DEF SetSessionTicketKeys, TypeOK
  <2>6. writer' \in [Configs -> Threads \cup {NoThread}] /\ UNCHANGED readers /\ nextId' \in Nat
    BY <1>0, <2>1 DEF Unlock, TypeOK
  <2>7. TypeOK' /\ Elsewhere(t)
    BY <1>0, <2>1, <2>5, <2>6, GotoFacts DEF TypeOK, Elsewhere, Labels
  <2>8. PlacedAt(t)' /\ HoldsAt(t)'
    BY <1>0, <2>1, GotoFacts, Zenon DEF PlacedAt, HoldsAt, Reading, Labels
  <2> QED
    BY <2>7, <2>8, Locality DEF LocksInv
<1>18. ASSUME NEW t \in Threads, NEW d \in Configs, Clone(t, d) PROVE LocksInv'
  <2>1. /\ Reading(t) /\ RUnlock(t, Cur(t)) /\ Goto(t, "idle")
        /\ UNCHANGED <<connVars, tickets, envVars>>
    BY <1>0, <1>18 DEF Clone, Reading, Placed, PlacedAt, Cur
  <2>2. config[t] \in Configs
    BY <1>0 DEF TypeOK
  <2>3. /\ SessionTicketKey' \in [Configs -> {"zero", "user", "deprecated"}]
        /\ sessionTicketKeys' \in [Configs -> SUBSET Key]
        /\ autoSessionTicketKeys' \in [Configs -> SUBSET Key]
        /\ live' \subseteq Configs
    BY <1>0, <1>18, <2>2 DEF Clone, TypeOK
  <2>4. TypeOK' /\ Elsewhere(t)
    BY <1>0, <1>7, <2>1, <2>3, GotoFacts, ZenonT(60) DEF TypeOK, Elsewhere, Labels
  <2>5. PlacedAt(t)' /\ HoldsAt(t)'
    BY <1>0, <2>1, GotoFacts, Zenon DEF PlacedAt, HoldsAt, Reading, Labels
  <2> QED
    BY <2>4, <2>5, Locality DEF LocksInv
<1> QED
  BY <1>1, <1>2, <1>3, <1>4, <1>5, <1>6, <1>9, <1>10, <1>11, <1>12, <1>13, <1>14, <1>15,
     <1>16, <1>17, <1>18
     DEF Next, Calls, Locking, Fetching, Serving, Configuring

-----------------------------------------------------------------------------
(* Steps, as far as keys, tickets and sessions go.                         *)

listVars == <<sessionTicketKeys, autoSessionTicketKeys, nextId>>
heldVars == <<keys, fetched, session, tickets>>

\* ticketKeys returns no keys, keys that were set, or fresh automatic ones.
Fetches(t) ==
    /\ \E S \in SUBSET Key :
         /\ keys' = [keys EXCEPT ![t] = S]
         /\ \/ S = {}
            \/ \E c \in Configs : S = sessionTicketKeys[c]
            \/ S = autoSessionTicketKeys[Base] /\ Fresh(S)
    /\ fetched' = [fetched EXCEPT ![t] = now]
    /\ UNCHANGED <<session, tickets, listVars, now>>

Forgets(t) ==
    /\ keys' = [keys EXCEPT ![t] = {}]
    /\ session' = [session EXCEPT ![t] = NoSession]
    /\ UNCHANGED <<fetched, tickets, listVars, now>>

\* What each step does to the keys and to the tickets, by who takes it.
LEMMA Effects ==
    ASSUME TypeInv, [Next]_vars
    PROVE  \/ UNCHANGED <<listVars, heldVars>> /\ now' \in {now, now + 1}
           \/ \E t \in Threads :
                \/ Forgets(t) \/ Fetches(t) \/ InitLegacySessionTicketKey(t) \/ Rotate(t)
                \/ SendTicket(t) \/ (\E ticket \in tickets : Resume(t, ticket))
                \/ \E keep \in BOOLEAN : SetSessionTicketKeys(t, keep)
                \/ \E d \in Configs : Clone(t, d)
<1> USE DEF connVars, lockVars, configVars, envVars, listVars, heldVars
<1>0. TypeOK
  BY DEF TypeInv, LocksInv
<1>1. CASE Tick \/ UNCHANGED vars
  BY <1>1 DEF Tick, vars
<1>2. ASSUME NEW t \in Threads, Calls(t)
      PROVE  Forgets(t) \/ UNCHANGED <<listVars, heldVars, now>>
  BY <1>2, Zenon DEF Calls, Serve, Admin, Call, Forgets
<1>3. ASSUME NEW t \in Threads, Locking(t) PROVE UNCHANGED <<listVars, heldVars, now>>
  BY <1>3 DEF Locking, KeysRLock, InitRLock, CloneRLock, RotateDone, LockStart
<1>4. ASSUME NEW t \in Threads, KeysDisabled(t) PROVE Fetches(t)
  BY <1>4, Zenon DEF KeysDisabled, Fetches, Fetch
<1>5. ASSUME NEW t \in Threads, KeysExplicit(t) PROVE Fetches(t)
  BY <1>0, <1>5, CurConfig, Zenon DEF KeysExplicit, Fetches, Fetch, TypeOK
<1>6. ASSUME NEW t \in Threads, KeysAuto(t)
      PROVE  Fetches(t) \/ UNCHANGED <<listVars, heldVars, now>>
  BY <1>0, <1>6, ConfigsAssumption DEF KeysAuto, Fetches, Fetch, TypeOK
<1>7. ASSUME NEW t \in Threads, KeysCheck(t) \/ KeysOfOriginal(t) \/ FullHandshake(t) \/ NoTicket(t)
      PROVE  UNCHANGED <<listVars, heldVars, now>>
  BY <1>7 DEF KeysCheck, KeysOfOriginal, FullHandshake, NoTicket
<1> QED
  BY <1>1, <1>2, <1>3, <1>4, <1>5, <1>6, <1>7 DEF Next, Fetching, Serving, Configuring

\* Lists stay lists.
LEMMA OrderedStep == TypeInv /\ [Next]_vars => Ordered'
<1> SUFFICES ASSUME TypeInv, [Next]_vars PROVE Ordered'
  OBVIOUS
<1> USE DEF listVars, heldVars
<1>0. TypeOK /\ Ordered
  BY DEF TypeInv, LocksInv
<1>1. CASE UNCHANGED <<listVars, heldVars>>
  BY <1>0, <1>1, Zenon DEF Ordered
<1>2. ASSUME NEW t \in Threads, Forgets(t) \/ Fetches(t) PROVE Ordered'
  <2>1. UNCHANGED listVars
    BY <1>2, Zenon DEF Forgets, Fetches
  <2>2. PICK S \in SUBSET Key : keys' = [keys EXCEPT ![t] = S] /\ HasFirst(S)
    <3>1. HasFirst({})
      BY DEF HasFirst
    <3> QED
      BY <1>0, <1>2, <3>1, ConfigsAssumption, ZenonT(60) DEF Forgets, Fetches, Ordered
  <2> QED
    BY <1>0, <2>1, <2>2 DEF Ordered, TypeOK
<1>3. ASSUME NEW t \in Threads, InitLegacySessionTicketKey(t) PROVE Ordered'
  <2>1. UNCHANGED <<autoSessionTicketKeys, nextId, keys>>
    BY <1>3 DEF InitLegacySessionTicketKey, InitWith, connVars, envVars
  <2>2. HasFirst({SetKey(0)})
    BY DEF HasFirst, SetKey
  <2>3. \A c \in Configs : sessionTicketKeys'[c] \in {sessionTicketKeys[c], {SetKey(0)}}
    BY <1>0, <1>3 DEF InitLegacySessionTicketKey, InitWith, TypeOK
  <2> QED
    BY <1>0, <2>1, <2>2, <2>3, Zenon DEF Ordered
<1>4. ASSUME NEW t \in Threads, Rotate(t) PROVE Ordered'
  <2> DEFINE A == autoSessionTicketKeys[Base]
  <2>1. A \in SUBSET Key /\ now \in Nat /\ nextId \in Nat /\ Base \in Configs
    BY <1>0, ConfigsAssumption DEF TypeOK
  <2>2. \A k \in Rotated(A) : k.id \in Nat /\ k.id <= nextId
    BY <1>0, <2>1, RotatedFacts DEF Ordered, AutoKey, Key
  <2>3. AutoKey(nextId, now) \in Rotated(A) /\ AutoKey(nextId, now).id = nextId
    BY <2>1, RotatedFacts, Zenon DEF AutoKey
  <2>4. HasFirst(Rotated(A))
    BY <2>2, <2>3 DEF HasFirst
  <2> HIDE DEF A
  <2>5. CASE UNCHANGED <<autoSessionTicketKeys, nextId>>
    BY <1>0, <1>4, <2>1, <2>5, RotateFacts DEF Ordered, TypeOK
  <2>6. CASE autoSessionTicketKeys' = [autoSessionTicketKeys EXCEPT ![Base] = Rotated(A)]
             /\ nextId' = nextId + 1
    <3>1. \A k \in autoSessionTicketKeys'[Base] : k.id < nextId'
      BY <1>0, <2>1, <2>2, <2>6 DEF TypeOK
    <3>2. \A c \in Configs \ {Base} : \A k \in autoSessionTicketKeys'[c] : k.id < nextId'
      BY <1>0, <2>1, <2>6 DEF TypeOK, Ordered, Key
    <3>3. \A c \in Configs : HasFirst(autoSessionTicketKeys'[c])
      BY <1>0, <2>4, <2>6 DEF TypeOK, Ordered
    <3>4. \A u \in Threads : HasFirst(keys'[u])
      BY <1>0, <1>4, <2>1, <3>3, RotateFacts, ZenonT(60) DEF TypeOK, Ordered
    <3> QED
      BY <1>0, <1>4, <3>1, <3>2, <3>3, <3>4, RotateFacts, Zenon DEF Ordered
  <2> QED
    BY <1>0, <1>4, <2>5, <2>6, RotateFacts DEF A
<1>5. ASSUME NEW t \in Threads, SendTicket(t) \/ \E ticket \in tickets : Resume(t, ticket)
      PROVE  Ordered'
  <2>1. UNCHANGED <<listVars, keys>>
    BY <1>5, Zenon DEF SendTicket, Resume, configVars, envVars
  <2> QED
    BY <1>0, <2>1 DEF Ordered
<1>6. ASSUME NEW t \in Threads, NEW keep \in BOOLEAN, SetSessionTicketKeys(t, keep) PROVE Ordered'
  <2>1. UNCHANGED <<autoSessionTicketKeys, keys>> /\ nextId' = nextId + 1 /\ nextId \in Nat
    BY <1>0, <1>6 DEF SetSessionTicketKeys, connVars, TypeOK
  <2>2. PICK S \in SUBSET Key :
           /\ sessionTicketKeys' = [sessionTicketKeys EXCEPT ![config[t]] = S]
           /\ HasFirst(S)
    <3> DEFINE K == sessionTicketKeys[config[t]]
    <3>1. SetKey(nextId) \in Key
      BY <2>1 DEF SetKey, Key
    <3>2. K # {} => First(K) \in Key
      BY <1>0, KeyFacts, Zenon DEF Ordered, TypeOK
    <3>3. HasFirst({SetKey(nextId)})
      BY <2>1 DEF HasFirst, SetKey
    <3>4. K # {} => HasFirst({SetKey(nextId)} \cup {First(K)})
      BY <3>1, <3>2, FirstOfTwo, Zenon
    <3>5. sessionTicketKeys' = [sessionTicketKeys EXCEPT ![config[t]] =
             {SetKey(nextId)} \cup (IF keep /\ K # {} THEN {First(K)} ELSE {})]
      BY <1>0, <1>6 DEF SetSessionTicketKeys, TypeOK
    <3> HIDE DEF K
    <3>6. CASE keep /\ K # {}
      BY <3>1, <3>2, <3>4, <3>5, <3>6, Zenon
    <3>7. CASE ~(keep /\ K # {})
      <4>1. {SetKey(nextId)} \cup (IF keep /\ K # {} THEN {First(K)} ELSE {}) = {SetKey(nextId)}
        BY <3>7
      <4> QED
        BY <3>1, <3>3, <3>5, <4>1
    <3> QED
      BY <3>6, <3>7
  <2>3. \A c \in Configs : HasFirst(sessionTicketKeys'[c])
    BY <1>0, <2>2 DEF Ordered, TypeOK
  <2> QED
    BY <1>0, <2>1, <2>3 DEF Ordered, TypeOK, Key
<1>7. ASSUME NEW t \in Threads, NEW d \in Configs, Clone(t, d) PROVE Ordered'
  BY <1>0, <1>7 DEF Clone, Ordered, TypeOK, connVars, envVars
<1> QED
  BY <1>1, <1>2, <1>3, <1>4, <1>5, <1>6, <1>7, Effects

\* Every step keeps the types.
LEMMA TypeStep == TypeInv /\ [Next]_vars => TypeInv'
BY LocksStep, OrderedStep DEF TypeInv

-----------------------------------------------------------------------------
(* The lists of keys.                                                      *)

\* The first key is stale at a rotation, so the new one is a rotation period younger
\* than every other; and whatever stays in the list has not expired.
LEMMA RotatedList ==
    ASSUME TypeOK, NEW S \in SUBSET Key, HasFirst(S), ListOK(S), ~Fresh(S),
           \A k \in S : k.id < nextId /\ k.created <= now
    PROVE  ListOK(Rotated(S))
<1> DEFINE n == AutoKey(nextId, now)
           R == Rotated(S)
<1>1. now \in Nat /\ nextId \in Nat
  BY DEF TypeOK
<1>2. \A k \in R : k = n \/ (k \in S /\ now - k.created < Lifetime)
  BY <1>1, RotatedFacts
<1>3. n.id = nextId /\ n.created = now
  BY DEF AutoKey
<1>4. \A k \in S : k.created \in Nat /\ k.id \in Nat
  BY DEF Key
<1>5. \A k \in S : k.created + Rotation <= now
  <2>1. S # {} => /\ First(S) \in S /\ \A j \in S : j.id <= First(S).id
                  /\ now - First(S).created >= Rotation
    BY <1>1, <1>4, KeyFacts, TimesAssumption DEF Fresh
  <2> QED
    BY <1>1, <1>4, <2>1, TimesAssumption DEF ListOK
<1> HIDE DEF n, R
<1>6. \A j, k \in R : j.id = k.id => j = k
  BY <1>1, <1>2, <1>3, <1>4 DEF ListOK
<1>7. \A j, k \in R : j.id < k.id => j.created + Rotation <= k.created
  BY <1>1, <1>2, <1>3, <1>4, <1>5 DEF ListOK
<1>8. \A j, k \in R : k.created < j.created + Lifetime
  BY <1>1, <1>2, <1>3, <1>4, TimesAssumption DEF ListOK
<1> QED
  BY <1>6, <1>7, <1>8 DEF ListOK, R

\* Every step keeps the automatic keys of a Config in order and apart.
LEMMA ListStep == TypeInv /\ ListInv /\ [Next]_vars => ListInv'
<1> SUFFICES ASSUME TypeInv, ListInv, [Next]_vars PROVE ListInv'
  OBVIOUS
<1> USE DEF listVars, heldVars
<1>0. TypeOK /\ Ordered
  BY DEF TypeInv, LocksInv
<1>1. Base \in live'
  BY ZenonT(60) DEF ListInv, Next, vars, Tick, Calls, Serve, Admin, Locking, KeysRLock, InitRLock, CloneRLock,
         RotateDone, LockStart, Fetching, KeysDisabled, KeysCheck, InitLegacySessionTicketKey,
         InitWith, KeysExplicit, KeysOfOriginal, KeysAuto, Rotate, RotateIf, Serving, FullHandshake,
         SendTicket, NoTicket, Resume, Configuring, SetSessionTicketKeys, Clone, configVars
<1>2. CASE UNCHANGED listVars /\ now' \in {now, now + 1}
  BY <1>0, <1>1, <1>2 DEF ListInv, TypeOK, Key
<1>3. ASSUME NEW t \in Threads, InitLegacySessionTicketKey(t) PROVE ListInv'
  <2>1. UNCHANGED <<autoSessionTicketKeys, now>>
    BY <1>3 DEF InitLegacySessionTicketKey, InitWith, envVars
  <2>2. \A c \in Configs : sessionTicketKeys'[c] \in {sessionTicketKeys[c], {SetKey(0)}}
    BY <1>0, <1>3 DEF InitLegacySessionTicketKey, InitWith, TypeOK
  <2> QED
    BY <1>1, <2>1, <2>2 DEF ListInv, SetKey
<1>4. ASSUME NEW t \in Threads, Rotate(t) PROVE ListInv'
  <2> DEFINE A == autoSessionTicketKeys[Base]
  <2>1. CASE Fresh(A)
    BY <1>0, <1>1, <1>4, <2>1, RotateFacts, ZenonT(60) DEF ListInv
  <2>2. CASE ~Fresh(A)
    <3>1. /\ autoSessionTicketKeys' = [autoSessionTicketKeys EXCEPT ![Base] = Rotated(A)]
          /\ UNCHANGED <<sessionTicketKeys, now>>
      BY <1>0, <1>4, <2>2, RotateFacts
    <3>2. A \in SUBSET Key /\ Base \in Configs /\ now \in Nat /\ nextId \in Nat
      BY <1>0, ConfigsAssumption DEF TypeOK
    <3>3. ListOK(Rotated(A))
      BY <1>0, <2>2, <3>2, RotatedList DEF ListInv, Ordered
    <3>4. \A k \in Rotated(A) : k.auto /\ k.created <= now
      BY <3>2, RotatedFacts DEF ListInv, AutoKey
    <3>5. \A c \in Configs : autoSessionTicketKeys'[c] =
             IF c = Base THEN Rotated(A) ELSE autoSessionTicketKeys[c]
      BY <1>0, <3>1 DEF TypeOK
    <3> QED
      BY <1>1, <3>1, <3>3, <3>4, <3>5, ZenonT(60) DEF ListInv
  <2> QED
    BY <2>1, <2>2
<1>5. ASSUME NEW t \in Threads, NEW keep \in BOOLEAN, SetSessionTicketKeys(t, keep) PROVE ListInv'
  <2> DEFINE K == sessionTicketKeys[config[t]]
  <2>1. UNCHANGED <<autoSessionTicketKeys, now>>
    BY <1>5 DEF SetSessionTicketKeys
  <2>2. K # {} => First(K) \in K
    BY <1>0, KeyFacts, Zenon DEF Ordered, TypeOK
  <2>3. \A c \in Configs : \A k \in sessionTicketKeys'[c] :
           k \in sessionTicketKeys[c] \/ k = SetKey(nextId)
    BY <1>0, <1>5, <2>2 DEF SetSessionTicketKeys, TypeOK
  <2> QED
    BY <1>1, <2>1, <2>3 DEF ListInv, SetKey
<1>6. ASSUME NEW t \in Threads, NEW d \in Configs, Clone(t, d) PROVE ListInv'
  <2>1. UNCHANGED now
    BY <1>6 DEF Clone, envVars
  <2>2. PICK c \in Configs :
           /\ sessionTicketKeys' = [sessionTicketKeys EXCEPT ![d] = sessionTicketKeys[c]]
           /\ autoSessionTicketKeys' = [autoSessionTicketKeys EXCEPT ![d] = autoSessionTicketKeys[c]]
    BY <1>0, <1>6, Zenon DEF Clone, TypeOK
  <2>3. \A b \in Configs :
           \/ UNCHANGED <<sessionTicketKeys[b], autoSessionTicketKeys[b]>>
           \/ /\ sessionTicketKeys'[b] = sessionTicketKeys[c]
              /\ autoSessionTicketKeys'[b] = autoSessionTicketKeys[c]
    BY <1>0, <2>2 DEF TypeOK
  <2> QED
    BY <1>1, <2>1, <2>3, Zenon DEF ListInv
<1>7. ASSUME NEW t \in Threads,
             \/ Forgets(t) \/ Fetches(t) \/ SendTicket(t)
             \/ \E ticket \in tickets : Resume(t, ticket)
      PROVE  UNCHANGED listVars /\ now' = now
  BY <1>7, Zenon DEF Forgets, Fetches, SendTicket, Resume, configVars, envVars
<1> QED
  BY <1>2, <1>3, <1>4, <1>5, <1>6, <1>7, Effects

-----------------------------------------------------------------------------
(* Connections, tickets and sessions.                                      *)

\* A rotation drops expired keys only, and nothing else drops any.
LEMMA KeptStep ==
    ASSUME TypeInv, ListInv, [Next]_vars, NEW k \in Key, Kept(k)
    PROVE  Kept(k)'
<1> USE DEF listVars, heldVars
<1>0. TypeOK /\ now \in Nat /\ k.created \in Nat /\ Base \in Configs
  BY ConfigsAssumption DEF TypeInv, LocksInv, TypeOK, Key
<1>1. CASE now' \in {now, now + 1} /\ autoSessionTicketKeys'[Base] = autoSessionTicketKeys[Base]
  BY <1>0, <1>1, TimesAssumption DEF Kept
<1>2. ASSUME NEW t \in Threads, Rotate(t) PROVE Kept(k)'
  <2> DEFINE A == autoSessionTicketKeys[Base]
  <2>1. CASE Fresh(A)
    BY <1>0, <1>1, <1>2, <2>1, RotateFacts, Zenon
  <2>2. CASE ~Fresh(A)
    <3>1. /\ autoSessionTicketKeys' = [autoSessionTicketKeys EXCEPT ![Base] = Rotated(A)]
          /\ UNCHANGED now
      BY <1>0, <1>2, <2>2, RotateFacts
    <3>2. A \in SUBSET Key /\ nextId \in Nat /\ autoSessionTicketKeys'[Base] = Rotated(A)
      BY <1>0, <3>1 DEF TypeOK
    <3> QED
      BY <1>0, <3>1, <3>2, RotatedFacts, TimesAssumption DEF Kept
  <2> QED
    BY <2>1, <2>2
<1>3. ASSUME NEW t \in Threads, NEW d \in Configs, Clone(t, d)
      PROVE  now' = now /\ autoSessionTicketKeys'[Base] = autoSessionTicketKeys[Base]
  BY <1>0, <1>3 DEF Clone, CloneOf, ListInv, TypeOK, envVars
<1>4. ASSUME NEW t \in Threads,
             \/ Forgets(t) \/ Fetches(t) \/ InitLegacySessionTicketKey(t) \/ SendTicket(t)
             \/ (\E ticket \in tickets : Resume(t, ticket))
             \/ \E keep \in BOOLEAN : SetSessionTicketKeys(t, keep)
      PROVE  now' = now /\ autoSessionTicketKeys'[Base] = autoSessionTicketKeys[Base]
  BY <1>4, Zenon DEF Forgets, Fetches, InitLegacySessionTicketKey, InitWith, SendTicket, Resume,
              SetSessionTicketKeys, configVars, envVars
<1> QED
  BY <1>1, <1>2, <1>3, <1>4, Effects

\* What FetchedInv says of keys S fetched at time f.
FetchedOK(S, f) ==
    /\ \A k \in S : k.auto => Kept(k) /\ f < k.created + Lifetime + Rotation
    /\ S # {} /\ First(S).auto => f < First(S).created + Rotation

\* A list whose first key is less than a rotation period old is good to hand out.
LEMMA FreshFetched ==
    ASSUME TypeOK, NEW S \in SUBSET Key, HasFirst(S), ListOK(S), S # {},
           now < First(S).created + Rotation
    PROVE  /\ \A k \in S : now < k.created + Lifetime + Rotation
           /\ now < First(S).created + Rotation
<1>1. First(S) \in S /\ now \in Nat
  BY KeyFacts, Zenon DEF TypeOK
<1>2. \A k \in S : k.created \in Nat /\ First(S).created < k.created + Lifetime
  BY <1>1 DEF ListOK, Key
<1> QED
  BY <1>1, <1>2, TimesAssumption

\* Every step keeps what a connection knows of the keys it fetched.
LEMMA FetchedStep == TypeInv /\ ListInv /\ FetchedInv /\ [Next]_vars => FetchedInv'
<1> SUFFICES ASSUME TypeInv, ListInv, FetchedInv, [Next]_vars PROVE FetchedInv'
  OBVIOUS
<1> USE DEF listVars, heldVars
<1>0. TypeOK /\ Ordered /\ Base \in Configs
  BY ConfigsAssumption DEF TypeInv, LocksInv
<1>1. ASSUME NEW u \in Threads, keys'[u] = keys[u], fetched'[u] = fetched[u]
      PROVE  FetchedOK(keys[u], fetched[u])'
  <2>1. \A k \in keys[u] : k \in Key
    BY <1>0 DEF TypeOK
  <2> QED
    BY <1>1, <2>1, KeptStep, Zenon DEF FetchedInv, FetchedOK
<1>2. ASSUME NEW t \in Threads, Fetches(t) PROVE FetchedOK(keys[t], fetched[t])'
  <2> DEFINE A == autoSessionTicketKeys[Base]
  <2>1. fetched'[t] = now /\ now' = now /\ autoSessionTicketKeys' = autoSessionTicketKeys
    BY <1>0, <1>2 DEF Fetches, TypeOK
  <2>2. PICK S \in SUBSET Key :
           /\ keys'[t] = S
           /\ S = {} \/ (\E c \in Configs : S = sessionTicketKeys[c]) \/ (S = A /\ Fresh(S))
    BY <1>0, <1>2 DEF Fetches, TypeOK
  <2>3. CASE \A k \in S : ~k.auto
    <3>1. S # {} => ~First(S).auto
      <4>1. S = {} \/ HasFirst(S)
        BY <1>0, <2>2, Zenon DEF Ordered
      <4> QED
        BY <2>3, <4>1, KeyFacts
    <3> QED
      BY <2>2, <2>3, <3>1, Zenon DEF FetchedOK
  <2>4. CASE S = A /\ Fresh(S)
    <3>1. S # {} /\ now - First(S).created < Rotation /\ HasFirst(S) /\ ListOK(S)
      BY <1>0, <2>4, Zenon DEF Fresh, Ordered, ListInv
    <3>2. First(S).created \in Nat /\ now \in Nat
      BY <1>0, <3>1, KeyFacts, Zenon DEF TypeOK, Key
    <3>3. now < First(S).created + Rotation
      BY <3>1, <3>2, TimesAssumption
    <3> QED
      BY <1>0, <2>1, <2>2, <2>4, <3>1, <3>3, FreshFetched, Zenon DEF FetchedOK, Kept
  <2> QED
    BY <2>2, <2>3, <2>4 DEF ListInv
<1>3. ASSUME NEW t \in Threads, Rotate(t) PROVE FetchedOK(keys[t], fetched[t])'
  <2> DEFINE A == autoSessionTicketKeys[Base]
             S == autoSessionTicketKeys'[Base]
             n == AutoKey(nextId, now)
  <2>1. keys'[t] = S /\ fetched'[t] = now /\ now' = now
    BY <1>0, <1>3, RotateFacts, ZenonT(60) DEF TypeOK
  <2>2. A \in SUBSET Key /\ S \in SUBSET Key /\ now \in Nat /\ nextId \in Nat
    BY <1>0, LocksStep, Zenon DEF TypeOK, LocksInv
  <2>3. HasFirst(S) /\ ListOK(S)
    BY <1>0, OrderedStep, ListStep, Zenon DEF Ordered, ListInv
  <2>4. S # {} /\ now < First(S).created + Rotation
    <3>1. CASE Fresh(A)
      <4>1. S = A /\ A # {} /\ now - First(A).created < Rotation
        BY <1>0, <1>3, <3>1, RotateFacts DEF Fresh
      <4>2. First(A).created \in Nat
        BY <2>2, <2>3, <4>1, KeyFacts, Zenon DEF Key
      <4> QED
        BY <2>2, <4>1, <4>2, TimesAssumption
    <3>2. CASE ~Fresh(A)
      <4>1. S = Rotated(A)
        BY <1>0, <1>3, <3>2, RotateFacts, Zenon DEF TypeOK
      <4>2. n \in S /\ \A k \in S : k = n \/ k \in A
        BY <2>2, <4>1, RotatedFacts, Zenon
      <4>3. First(S) \in S /\ n.id <= First(S).id
        BY <2>2, <2>3, <4>2, KeyFacts, Zenon
      <4>4. n.id = nextId /\ n.created = now /\ \A k \in A : k.id < nextId /\ k.id \in Nat
        BY <1>0, <2>2, Zenon DEF AutoKey, Ordered, Key
      <4>5. First(S) = n
        BY <2>2, <4>2, <4>3, <4>4
      <4> QED
        BY <2>2, <4>2, <4>4, <4>5, TimesAssumption
    <3> QED
      BY <3>1, <3>2, Zenon
  <2> QED
    BY <1>0, <2>1, <2>2, <2>3, <2>4, FreshFetched, Zenon DEF FetchedOK, Kept
<1>4. ASSUME NEW t \in Threads, Forgets(t) PROVE FetchedOK(keys[t], fetched[t])'
  BY <1>0, <1>4 DEF Forgets, FetchedOK, TypeOK
<1>5. ASSUME NEW t \in Threads, Forgets(t) \/ Fetches(t) \/ Rotate(t), NEW u \in Threads \ {t}
      PROVE  keys'[u] = keys[u] /\ fetched'[u] = fetched[u]
  BY <1>0, <1>5, RotateFacts DEF Forgets, Fetches, TypeOK
<1>6. ASSUME NEW t \in Threads,
             \/ InitLegacySessionTicketKey(t) \/ SendTicket(t)
             \/ (\E ticket \in tickets : Resume(t, ticket))
             \/ (\E keep \in BOOLEAN : SetSessionTicketKeys(t, keep))
             \/ \E d \in Configs : Clone(t, d)
      PROVE  UNCHANGED <<keys, fetched>>
  BY <1>6, Zenon DEF InitLegacySessionTicketKey, InitWith, SendTicket, Resume, SetSessionTicketKeys, Clone,
              connVars
<1>7. \A u \in Threads : FetchedOK(keys[u], fetched[u])'
  BY <1>1, <1>2, <1>3, <1>4, <1>5, <1>6, Effects, Zenon
<1> QED
  BY <1>7 DEF FetchedInv, FetchedOK

\* Every step keeps the tickets in agreement with the keys that seal them.
LEMMA TicketStep ==
    TypeInv /\ ListInv /\ FetchedInv /\ TicketInv /\ SessionInv /\ [Next]_vars => TicketInv'
<1> SUFFICES ASSUME TypeInv, ListInv, FetchedInv, TicketInv, SessionInv, [Next]_vars
             PROVE  TicketInv'
  OBVIOUS
<1> USE DEF listVars, heldVars
<1>0. TypeOK /\ Ordered
  BY DEF TypeInv, LocksInv
<1>1. \A ticket \in tickets : ticket.key.auto => Kept(ticket.key)'
  BY <1>0, KeptStep DEF TicketInv, TypeOK, Ticket
<1>2. CASE UNCHANGED tickets
  BY <1>1, <1>2 DEF TicketInv
<1>3. ASSUME NEW t \in Threads, SendTicket(t) PROVE TicketInv'
  <2>0. PICK n : n = NewTicket(t)
    OBVIOUS
  <2>1. CASE keys[t] = {}
    BY <1>2, <1>3, <2>1 DEF SendTicket
  <2>2. CASE keys[t] # {}
    <3>1. tickets' = tickets \cup {n}
      BY <1>3, <2>0, <2>2, Zenon DEF SendTicket
    <3>2. n.key = First(keys[t]) /\ n.fetchedAt = fetched[t] /\ n.createdAt = n.secretAt
      BY <2>0, Zenon DEF NewTicket, TicketOf, Rewraps, SessionInv
    <3>3. n.key \in keys[t] /\ n.key \in Key
      BY <1>0, <2>2, <3>2, KeyFacts, ZenonT(60) DEF Ordered, TypeOK
    <3>4. n.key.auto => Kept(n.key) /\ n.fetchedAt < n.key.created + Rotation
      BY <2>2, <3>2, <3>3, Zenon DEF FetchedInv
    <3>5. n.key.auto => Kept(n.key)'
      BY <3>3, <3>4, KeptStep
    <3> QED
      BY <1>1, <3>1, <3>2, <3>4, <3>5, Zenon DEF TicketInv
  <2> QED
    BY <2>1, <2>2
<1>4. ASSUME NEW t \in Threads,
             \/ Forgets(t) \/ Fetches(t) \/ InitLegacySessionTicketKey(t) \/ Rotate(t)
             \/ (\E ticket \in tickets : Resume(t, ticket))
             \/ (\E keep \in BOOLEAN : SetSessionTicketKeys(t, keep))
             \/ \E d \in Configs : Clone(t, d)
      PROVE  UNCHANGED tickets
  BY <1>4, Zenon DEF Forgets, Fetches, InitLegacySessionTicketKey, InitWith, Rotate, RotateIf, Resume,
              SetSessionTicketKeys, Clone
<1> QED
  BY <1>2, <1>3, <1>4, Effects

\* Every step keeps the age of the secrets of sessions within bounds.
LEMMA SessionStep == TypeInv /\ TicketInv /\ SessionInv /\ [Next]_vars => SessionInv'
<1> SUFFICES ASSUME TypeInv, TicketInv, SessionInv, [Next]_vars PROVE SessionInv'
  OBVIOUS
<1> USE DEF listVars, heldVars
<1>0. TypeOK
  BY DEF TypeInv, LocksInv
<1>1. CASE UNCHANGED session
  BY <1>1 DEF SessionInv
<1>2. ASSUME NEW t \in Threads, NEW ticket \in tickets, Resume(t, ticket) PROVE SessionInv'
  <2> DEFINE s == [createdAt |-> ticket.createdAt, secretAt |-> ticket.secretAt,
                   resumedAt |-> now, some |-> TRUE]
  <2>1. session' = [session EXCEPT ![t] = s] /\ now - ticket.createdAt <= MaxTicketAge
    BY <1>2, Zenon DEF Resume
  <2>2. s.createdAt = s.secretAt /\ s.resumedAt - s.secretAt <= MaxTicketAge
    BY <2>1, Zenon DEF TicketInv
  <2> HIDE DEF s
  <2> QED
    BY <1>0, <2>1, <2>2 DEF SessionInv, TypeOK
<1>3. ASSUME NEW t \in Threads, Forgets(t) PROVE SessionInv'
  BY <1>0, <1>3, Zenon DEF Forgets, SessionInv, NoSession, TypeOK
<1>4. ASSUME NEW t \in Threads,
             \/ Fetches(t) \/ InitLegacySessionTicketKey(t) \/ Rotate(t) \/ SendTicket(t)
             \/ (\E keep \in BOOLEAN : SetSessionTicketKeys(t, keep))
             \/ \E d \in Configs : Clone(t, d)
      PROVE  UNCHANGED session
  BY <1>0, <1>4, RotateFacts, Zenon DEF Fetches, InitLegacySessionTicketKey, InitWith, SendTicket,
                                 SetSessionTicketKeys, Clone, connVars
<1> QED
  BY <1>1, <1>2, <1>3, <1>4, Effects

-----------------------------------------------------------------------------
(* Read locks, when GetConfigForClient returns no Config with tickets disabled. *)

PairedAt(t) ==
    \A c \in Configs : readers[c][t] = IF Reading(t) /\ c = Cur(t) THEN 1 ELSE 0

\* A step of t as far as its read locks go: it takes or gives back the one of Cur(t),
\* or neither.
LocksAt(t) ==
    \/ ~Reading(t) /\ ~Reading(t)' /\ UNCHANGED readers
    \/ Reading(t) /\ Reading(t)' /\ Cur(t)' = Cur(t) /\ UNCHANGED readers
    \/ ~Reading(t) /\ Reading(t)' /\ Cur(t)' = Cur(t) /\ RLock(t, Cur(t))
    \/ Reading(t) /\ ~Reading(t)' /\ RUnlock(t, Cur(t))

OthersAt(t) ==
    \A u \in Threads \ {t} : pc'[u] = pc[u] /\ trying'[u] = trying[u] /\ config'[u] = config[u]

\* Every step pairs the read lock of a connection with its unlock.
LEMMA PairedLocally ==
    ASSUME TypeInv, \A u \in Threads : PairedAt(u), NEW t \in Threads, LocksAt(t), OthersAt(t)
    PROVE  \A u \in Threads : PairedAt(u)'
<1>0. readers \in [Configs -> [Threads -> Nat]] /\ Cur(t) \in Configs
  BY CurConfig, Zenon DEF TypeInv, LocksInv, TypeOK
<1>1. \A c \in Configs : readers[c][t] = IF Reading(t) /\ c = Cur(t) THEN 1 ELSE 0
  BY Zenon DEF PairedAt
<1>2. /\ \A c \in Configs : readers'[c][t] = IF Reading(t)' /\ c = Cur(t)' THEN 1 ELSE 0
      /\ \A c \in Configs, u \in Threads \ {t} : readers'[c][u] = readers[c][u]
  <2>1. CASE ~Reading(t) /\ ~Reading(t)' /\ UNCHANGED readers
    BY <1>1, <2>1
  <2>4. CASE Reading(t) /\ Reading(t)' /\ Cur(t)' = Cur(t) /\ UNCHANGED readers
    BY <1>1, <2>4, Zenon
  <2>2. CASE ~Reading(t) /\ Reading(t)' /\ Cur(t)' = Cur(t) /\ RLock(t, Cur(t))
    BY <1>0, <1>1, <2>2 DEF RLock, Zenon
  <2>3. CASE Reading(t) /\ ~Reading(t)' /\ RUnlock(t, Cur(t))
    BY <1>0, <1>1, <2>3 DEF RUnlock
  <2> QED
    BY <2>1, <2>2, <2>3, <2>4, Zenon DEF LocksAt
<1>3. \A u \in Threads \ {t} : Reading(u)' = Reading(u) /\ Cur(u)' = Cur(u)
  BY Zenon DEF OthersAt, Reading, Cur
<1>4. PairedAt(t)'
  BY <1>2 DEF PairedAt
<1>5. ASSUME NEW u \in Threads \ {t} PROVE PairedAt(u)'
  BY <1>2, <1>3 DEF PairedAt
<1> QED
  BY <1>4, <1>5

\* Every goroutine gives back the lock that it took.
LEMMA LocksLocally ==
    ASSUME ForClient \cap Disabled = {}, TypeInv, NEW t \in Threads,
           Calls(t) \/ Locking(t) \/ Fetching(t) \/ Serving(t) \/ Configuring(t)
    PROVE  LocksAt(t) /\ OthersAt(t)
<1> USE DEF connVars, lockVars, At
<1>0. TypeOK /\ PlacedAt(t)
  BY DEF TypeInv, LocksInv, Placed
<1>1. CASE Calls(t)
  <2>1. PICK l \in {"rlock", "set_lock", "clone_rlock"} :
           /\ pc[t] = "idle" /\ Goto(t, l) /\ UNCHANGED lockVars
           /\ \A u \in Threads \ {t} : trying'[u] = trying[u] /\ config'[u] = config[u]
    BY <1>0, <1>1, ZenonT(60) DEF Calls, Serve, Admin, Call, TypeOK
  <2> QED
    BY <1>0, <2>1, GotoFacts, Zenon DEF LocksAt, OthersAt, Reading, Labels
<1>2. CASE KeysRLock(t) \/ InitRLock(t) \/ CloneRLock(t)
  <2>1. PICK l \in {"check", "choose", "clone_held"} :
           /\ Goto(t, l) /\ ~Reading(t) /\ RLock(t, Cur(t)) /\ UNCHANGED connVars
    BY <1>0, <1>2, Zenon DEF KeysRLock, InitRLock, CloneRLock, Reading, PlacedAt, Cur
  <2> QED
    BY <1>0, <2>1, GotoFacts, Zenon DEF LocksAt, OthersAt, Reading, Labels, Cur
<1>3. CASE RotateDone(t) \/ LockStart(t)
  <2>1. PICK l \in {"conn", "init_wait", "rot_wait", "set_wait"} :
           Goto(t, l) /\ ~Reading(t) /\ UNCHANGED <<readers, connVars>>
    BY <1>3 DEF RotateDone, LockStart, LockAnnounce, Reading
  <2> QED
    BY <1>0, <2>1, GotoFacts, Zenon DEF LocksAt, OthersAt, Reading, Labels
<1>4. CASE \/ KeysDisabled(t) \/ KeysExplicit(t) \/ KeysOfOriginal(t) \/ KeysAuto(t)
           \/ \E d \in Configs : Clone(t, d)
  <2>1. /\ Reading(t) /\ RUnlock(t, Cur(t)) /\ UNCHANGED config
        /\ \A u \in Threads \ {t} : trying'[u] = trying[u]
    BY <1>0, <1>4, Zenon DEF KeysDisabled, KeysExplicit, KeysOfOriginal, KeysAuto, Clone, Fetch, Reading,
                      PlacedAt, Cur, TypeOK
  <2>2. PICK l \in {"conn", "rlock", "rot_lock", "idle"} : Goto(t, l)
    BY <1>4, Zenon DEF KeysDisabled, KeysExplicit, KeysOfOriginal, KeysAuto, Clone
  <2> QED
    BY <1>0, <2>1, <2>2, GotoFacts, Zenon DEF LocksAt, OthersAt, Reading, Labels
<1>5. CASE KeysCheck(t)
  <2>1. PICK l \in {"init_lock", "choose"} :
           /\ Reading(t) /\ Goto(t, l) /\ UNCHANGED connVars
           /\ IF l = "init_lock" THEN RUnlock(t, Cur(t)) ELSE UNCHANGED readers
    BY <1>5 DEF KeysCheck, Reading
  <2> QED
    BY <1>0, <2>1, GotoFacts, Zenon DEF LocksAt, OthersAt, Reading, Labels, Cur
<1>6. CASE \/ InitLegacySessionTicketKey(t) \/ Rotate(t) \/ Serving(t)
           \/ \E keep \in BOOLEAN : SetSessionTicketKeys(t, keep)
  <2>1. ~Reading(t) /\ UNCHANGED <<readers, trying, config>>
    BY <1>6, Zenon DEF InitLegacySessionTicketKey, InitWith, Rotate, RotateIf, Fetch, SetSessionTicketKeys,
                Serving, FullHandshake, SendTicket, NoTicket, Resume, Unlock, Reading
  <2>2. PICK l \in {"init_rlock", "rot_rlock", "ticket", "idle"} : Goto(t, l)
    BY <1>6, Zenon DEF InitLegacySessionTicketKey, InitWith, Rotate, RotateIf, SetSessionTicketKeys,
                Serving, FullHandshake, SendTicket, NoTicket, Resume
  <2> QED
    BY <1>0, <2>1, <2>2, GotoFacts, Zenon DEF LocksAt, OthersAt, Reading, Labels
<1> QED
  BY <1>1, <1>2, <1>3, <1>4, <1>5, <1>6 DEF Locking, Fetching, Configuring

-----------------------------------------------------------------------------
(* The theorems.                                                           *)

\* The inductive invariant holds in every state: types, locks, the lists of keys
\* of every Config, and what connections and clients hold of them.
THEOREM KeysInvariant == Spec => []KeysInv
<1>1. Init => KeysInv
  <2> SUFFICES ASSUME Init PROVE KeysInv
    OBVIOUS
  <2>1. ListInv
    <3>1. \A c \in Configs : autoSessionTicketKeys[c] = {} /\ sessionTicketKeys[c] = {}
      BY Zenon DEF Init
    <3> QED
      BY <3>1, ConfigsAssumption, Zenon DEF Init, ListInv, ListOK
  <2>2. FetchedInv
    <3>1. \A t \in Threads : keys[t] = {}
      BY Zenon DEF Init
    <3> QED
      BY <3>1, Zenon DEF FetchedInv
  <2>3. TicketInv
    BY Zenon DEF Init, TicketInv
  <2>4. SessionInv
    BY Zenon DEF Init, SessionInv, NoSession
  <2> QED
    BY TypeStart, <2>1, <2>2, <2>3, <2>4, Zenon DEF KeysInv
<1>2. KeysInv /\ [Next]_vars => KeysInv'
  BY TypeStep, ListStep, FetchedStep, TicketStep, SessionStep DEF KeysInv
<1> QED
  BY <1>1, <1>2, PTL DEF Spec

\* Rotation is done once: the automatic keys of a Config are at least a rotation
\* period apart, however many connections find the first key stale together.
THEOREM RotationSpacing == Spec => []KeysSpaced
<1>1. KeysInv => KeysSpaced
  BY Zenon DEF KeysInv, ListInv, ListOK, KeysSpaced
<1> QED
  BY <1>1, KeysInvariant, PTL

\* A ticket sealed with an automatic key can be opened by later connections until
\* ticketKeyLifetime - ticketKeyRotation after the key was fetched.
THEOREM TicketLifetime == Spec => []TicketSurvives
<1>1. KeysInv => TicketSurvives
  <2> SUFFICES ASSUME KeysInv, NEW ticket \in tickets, ticket.key.auto,
                      now + Rotation <= ticket.fetchedAt + Lifetime
               PROVE  Opens(autoSessionTicketKeys[Base], ticket)
    BY DEF TicketSurvives
  <2>1. /\ now \in Nat /\ ticket.fetchedAt \in Nat /\ ticket.key.created \in Nat
        /\ Rotation \in Nat /\ Lifetime \in Nat
    BY TimesAssumption DEF KeysInv, TypeInv, LocksInv, TypeOK, Ticket, Key
  <2>2. Kept(ticket.key) /\ ticket.fetchedAt < ticket.key.created + Rotation
    BY DEF KeysInv, TicketInv
  <2>3. ticket.key \in autoSessionTicketKeys[Base]
    BY <2>1, <2>2 DEF Kept
  <2> QED
    BY <2>3, Zenon DEF Opens
<1> QED
  BY <1>1, KeysInvariant, PTL

\* No connection is given an automatic key that expired more than a rotation period
\* before.
THEOREM KeyExpiry == Spec => []KeysExpireSoon
<1>1. KeysInv => KeysExpireSoon
  <2> SUFFICES ASSUME KeysInv, NEW t \in Threads, NEW k \in keys[t], k.auto
               PROVE  fetched[t] < k.created + (Lifetime + Rotation)
    BY DEF KeysExpireSoon, KeysYounger
  <2>1. fetched[t] < k.created + Lifetime + Rotation
    BY DEF KeysInv, FetchedInv
  <2>2. k.created \in Nat
    BY DEF KeysInv, TypeInv, LocksInv, TypeOK, Key
  <2> QED
    BY <2>1, <2>2, TimesAssumption
<1> QED
  BY <1>1, KeysInvariant, PTL

\* No secret outlives maxSessionTicketLifetime by being sealed again in new tickets.
THEOREM SecretExpiry == Spec => []SecretsExpire
<1>1. KeysInv => SecretsExpire
  BY Zenon DEF KeysInv, SessionInv, SecretsExpire
<1> QED
  BY <1>1, KeysInvariant, PTL

\* The key made from SessionTicketKey is installed only where no keys are set, also
\* when SetSessionTicketKeys runs between the two locks of ticketKeys.
THEOREM LegacyKeyYields == Spec => LegacyNeverReplaces
<1> DEFINE Yields ==
      \A c \in live : sessionTicketKeys[c] # {} =>
         \/ sessionTicketKeys'[c] = sessionTicketKeys[c]
         \/ \E k \in sessionTicketKeys'[c] : k.id >= nextId
<1>1. KeysInv /\ [Next]_vars => Yields
  <2> SUFFICES ASSUME KeysInv, [Next]_vars PROVE Yields
    OBVIOUS
  <2> USE DEF listVars, heldVars
  <2>0. TypeInv /\ TypeOK /\ live \subseteq Configs /\ nextId \in Nat
    BY Zenon DEF KeysInv, TypeInv, LocksInv, TypeOK
  <2>1. CASE UNCHANGED sessionTicketKeys
    BY <2>1
  <2>2. ASSUME NEW t \in Threads, InitLegacySessionTicketKey(t) PROVE Yields
    BY <2>0, <2>2, Zenon DEF InitLegacySessionTicketKey, InitWith, TypeOK
  <2>3. ASSUME NEW t \in Threads, NEW keep \in BOOLEAN, SetSessionTicketKeys(t, keep) PROVE Yields
    <3>1. SetKey(nextId).id >= nextId
      BY <2>0 DEF SetKey
    <3>2. \A c \in Configs : \/ sessionTicketKeys'[c] = sessionTicketKeys[c]
                            \/ SetKey(nextId) \in sessionTicketKeys'[c]
      BY <2>0, <2>3 DEF SetSessionTicketKeys, TypeOK
    <3> QED
      BY <2>0, <3>1, <3>2
  <2>4. ASSUME NEW t \in Threads, NEW d \in Configs, Clone(t, d) PROVE Yields
    BY <2>0, <2>4, Zenon DEF Clone, CloneOf, TypeOK
  <2>5. ASSUME NEW t \in Threads,
               \/ Forgets(t) \/ Fetches(t) \/ Rotate(t) \/ SendTicket(t)
               \/ \E ticket \in tickets : Resume(t, ticket)
        PROVE  UNCHANGED sessionTicketKeys
    BY <2>0, <2>5, RotateFacts, Zenon DEF Forgets, Fetches, SendTicket, Resume, configVars
  <2> QED
    BY <2>0, <2>1, <2>2, <2>3, <2>4, <2>5, Effects, Zenon
<1> QED
  BY <1>1, KeysInvariant, PTL DEF Spec, LegacyNeverReplaces

\* Every RLock of ticketKeys and Clone has its RUnlock, and none is held elsewhere,
\* provided GetConfigForClient returns no Config with SessionTicketsDisabled.
THEOREM ReadLocks ==
    ASSUME ForClient \cap Disabled = {}
    PROVE  Spec => []ReadLocksPaired
<1> DEFINE Paired == \A u \in Threads : PairedAt(u)
<1>1. Init => TypeInv /\ Paired
  <2> SUFFICES ASSUME Init PROVE TypeInv /\ Paired
    OBVIOUS
  <2> QED
    BY TypeStart, Zenon DEF Init, PairedAt, Reading
<1>2. TypeInv /\ Paired /\ [Next]_vars => TypeInv' /\ Paired'
  <2> SUFFICES ASSUME TypeInv, Paired, [Next]_vars PROVE TypeInv' /\ Paired'
    OBVIOUS
  <2>1. CASE Tick \/ UNCHANGED vars
    <3>1. UNCHANGED <<pc, trying, config, readers>>
      BY <2>1 DEF Tick, vars, connVars, lockVars
    <3> QED
      BY <3>1, TypeStep, Zenon DEF PairedAt, Reading, Cur
  <2>2. ASSUME NEW t \in Threads,
               Calls(t) \/ Locking(t) \/ Fetching(t) \/ Serving(t) \/ Configuring(t)
        PROVE  Paired'
    BY <2>2, LocksLocally, PairedLocally
  <2> QED
    BY <2>1, <2>2, TypeStep DEF Next
<1>3. TypeInv /\ Paired => ReadLocksPaired
  BY DEF TypeInv, LocksInv, ReadLocksPaired, PairedAt, Reading
<1> QED
  BY <1>1, <1>2, <1>3, PTL DEF Spec
=============================================================================
