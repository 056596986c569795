----------------------------- MODULE TicketKeys -----------------------------
(***************************************************************************)
(* The session ticket keys of a server (common.go, ticket.go): connections *)
(* fetch them with Config.ticketKeys, resume sessions and issue tickets    *)
(* with the keys they fetched, while SetSessionTicketKeys and Clone run.   *)
(* A Config is guarded by an RWMutex, which ticketKeys releases and takes  *)
(* again for writing; every such gap is a point where others run.          *)
(*                                                                         *)
(* A list of keys is a set: its first key is the one of the highest id.    *)
(* Keys of the same id seal and open the same tickets.  Id 0 is the key    *)
(* made from the SessionTicketKey of the application.                      *)
(***************************************************************************)
EXTENDS Naturals

CONSTANTS
    Threads,         \* goroutines
    NoThread,        \* the writer of an RWMutex no Lock waits for
    Ops,             \* Ops[t]: what goroutine t does
    Configs, Base,   \* the Configs, and the one passed to Server
    ForClient,       \* the Configs that GetConfigForClient may return
    Born,            \* the Configs that exist at the start; Clone makes the others
    Disabled,        \* the Configs with SessionTicketsDisabled
    UserKey,         \* the Configs whose SessionTicketKey the application set
    NoConfig,        \* GetConfigForClient returned nil, or is nil
    IsTLS13,         \* the version the connections negotiate
    Rotation,        \* ticketKeyRotation
    Lifetime,        \* ticketKeyLifetime
    MaxTicketAge,    \* maxSessionTicketLifetime
    MaxCalls,        \* bound: calls of one goroutine
    MaxTime          \* bound: the clock

AllOps == {"serve", "set", "clone"}

ASSUME ThreadsAssumption == NoThread \notin Threads
ASSUME OpsAssumption == Ops \in [Threads -> SUBSET AllOps]
ASSUME ConfigsAssumption ==
    /\ Base \in Born /\ Born \subseteq Configs /\ ForClient \subseteq Configs
    /\ Disabled \subseteq Configs /\ UserKey \subseteq Configs
    /\ NoConfig \notin Configs
ASSUME TLS13Assumption == IsTLS13 \in BOOLEAN
ASSUME TimesAssumption ==
    /\ Rotation \in Nat /\ Lifetime \in Nat /\ MaxTicketAge \in Nat
    /\ 0 < Rotation /\ Rotation < Lifetime
ASSUME BoundsAssumption == MaxCalls \in Nat /\ MaxTime \in Nat

VARIABLES
    pc,
    trying,              \* what ticketKeys of t has still to look at: "client", "base"
    config,              \* c.config of the connection of t, or the Config it works on
    keys, fetched,       \* c.ticketKeys of the connection, and when it got them
    session,             \* the session the connection of t resumed
    err,                 \* the handshake of t failed for want of keys
    readers, writer,     \* Config.mutex: read locks held, the goroutine in Lock
    SessionTicketKey, sessionTicketKeys, autoSessionTicketKeys,
    live,                \* the Configs that exist
    tickets,             \* the tickets in the hands of clients
    now, nextId, callsLeft

connVars   == <<trying, config, keys, fetched, session, err>>
lockVars   == <<readers, writer>>
configVars == <<SessionTicketKey, sessionTicketKeys, autoSessionTicketKeys, live>>
envVars    == <<now, nextId, callsLeft>>
vars == <<pc, connVars, lockVars, configVars, tickets, envVars>>

\* The creation time is read of automatic keys only; it is 0 in the others.
Key == [id : Nat, created : Nat, auto : BOOLEAN]

AutoKey(id, time) == [id |-> id, created |-> time, auto |-> TRUE]
SetKey(id) == [id |-> id, created |-> 0, auto |-> FALSE]

\* A ticket names the key that sealed it.  secretAt is when its secret was
\* established, fetchedAt when the connection got its keys.
Ticket == [key : Key, createdAt : Nat, secretAt : Nat, fetchedAt : Nat]

NoSession == [createdAt |-> 0, secretAt |-> 0, resumedAt |-> 0, some |-> FALSE]
Session == [createdAt : Nat, secretAt : Nat, resumedAt : Nat, some : BOOLEAN]

Labels ==
    {"idle", "rlock", "check", "init_lock", "init_wait", "init_rlock", "choose",
     "rot_lock", "rot_wait", "rot_rlock", "conn", "ticket",
     "set_lock", "set_wait", "clone_rlock", "clone_held"}

TypeOK ==
    /\ pc \in [Threads -> Labels]
    /\ trying \in [Threads -> {"client", "base"}]
    /\ config \in [Threads -> Configs]
    /\ keys \in [Threads -> SUBSET Key]
    /\ fetched \in [Threads -> Nat]
    /\ session \in [Threads -> Session]
    /\ err \in [Threads -> BOOLEAN]
    /\ readers \in [Configs -> [Threads -> Nat]]
    /\ writer \in [Configs -> Threads \cup {NoThread}]
    /\ SessionTicketKey \in [Configs -> {"zero", "user", "deprecated"}]
    /\ sessionTicketKeys \in [Configs -> SUBSET Key]
    /\ autoSessionTicketKeys \in [Configs -> SUBSET Key]
    /\ live \subseteq Configs
    /\ tickets \subseteq Ticket
    /\ now \in Nat /\ nextId \in Nat /\ callsLeft \in [Threads -> Nat]

Init ==
    /\ pc = [t \in Threads |-> "idle"]
    /\ trying = [t \in Threads |-> "base"]
    /\ config = [t \in Threads |-> Base]
    /\ keys = [t \in Threads |-> {}]
    /\ fetched = [t \in Threads |-> 0]
    /\ session = [t \in Threads |-> NoSession]
    /\ err = [t \in Threads |-> FALSE]
    /\ readers = [c \in Configs |-> [t \in Threads |-> 0]]
    /\ writer = [c \in Configs |-> NoThread]
    /\ SessionTicketKey = [c \in Configs |-> IF c \in UserKey THEN "user" ELSE "zero"]
    /\ sessionTicketKeys = [c \in Configs |-> {}]
    /\ autoSessionTicketKeys = [c \in Configs |-> {}]
    /\ live = Born
    /\ tickets = {}
    /\ now = 0 /\ nextId = 1 /\ callsLeft = [t \in Threads |-> MaxCalls]
-----------------------------------------------------------------------------
(* sync.RWMutex.  A Lock that waits keeps new readers out.                 *)

At(t, l) == pc[t] = l

Goto(t, l) == pc' = [pc EXCEPT ![t] = l]

RLock(t, c) ==
    /\ writer[c] = NoThread
    /\ readers' = [readers EXCEPT ![c][t] = @ + 1]
    /\ UNCHANGED writer

RUnlock(t, c) ==
    /\ readers' = [readers EXCEPT ![c][t] = @ - 1]
    /\ UNCHANGED writer

\* Lock: t is the pending writer, and then waits for the readers to leave.
LockAnnounce(t, c) ==
    /\ writer[c] = NoThread
    /\ writer' = [writer EXCEPT ![c] = t]
    /\ UNCHANGED readers

LockHeld(t, c) == writer[c] = t /\ \A u \in Threads : readers[c][u] = 0

Unlock(c) ==
    /\ writer' = [writer EXCEPT ![c] = NoThread]
    /\ UNCHANGED readers

-----------------------------------------------------------------------------
(* Keys and tickets.                                                       *)

First(S) == CHOOSE k \in S : \A j \in S : j.id <= k.id

Fresh(S) == S # {} /\ now - First(S).created < Rotation

\* The list after a rotation: the new key, and the old ones that have not expired.
RotatedDropping(S, age) == {AutoKey(nextId, now)} \cup {k \in S : now - k.created < age}

\* Faulty variants: the wrong constant, and nothing expires.
RotatedEarly(S) == RotatedDropping(S, Rotation)
RotatedKeepsAll(S) == RotatedDropping(S, now + 1)

Rotated(S) == RotatedDropping(S, Lifetime)

\* decryptTicket finds the key that sealed the ticket.
Opens(S, ticket) == \E k \in S : k.id = ticket.key.id

-----------------------------------------------------------------------------
(* Config.ticketKeys, called by readClientHello.                           *)

\* The Config that t has locked or is going to lock.
Cur(t) == IF trying[t] = "base" THEN Base ELSE config[t]

Call(t, o) ==
    /\ At(t, "idle") /\ o \in Ops[t] /\ callsLeft[t] > 0
    /\ callsLeft' = [callsLeft EXCEPT ![t] = @ - 1]
    /\ UNCHANGED <<now, nextId>>

\* A ClientHello arrives and GetConfigForClient answers c.
Serve(t, c) ==
    /\ Call(t, "serve") /\ c \in (ForClient \cap live) \cup {NoConfig}
    /\ config' = [config EXCEPT ![t] = IF c = NoConfig THEN Base ELSE c]
    /\ trying' = [trying EXCEPT ![t] = IF c = NoConfig THEN "base" ELSE "client"]
    /\ keys' = [keys EXCEPT ![t] = {}]
    /\ session' = [session EXCEPT ![t] = NoSession]
    /\ Goto(t, "rlock")
    /\ UNCHANGED <<fetched, err, lockVars, configVars, tickets>>

\* ticketKeys returns S.
Fetch(t, S) ==
    /\ keys' = [keys EXCEPT ![t] = S]
    /\ fetched' = [fetched EXCEPT ![t] = now]
    /\ UNCHANGED <<trying, config, session, err>>

KeysRLock(t) ==
    /\ At(t, "rlock") /\ RLock(t, Cur(t))
    /\ Goto(t, "check")
    /\ UNCHANGED <<connVars, configVars, tickets, envVars>>

\* What initLegacySessionTicketKeyRLocked has to write.
NeedsInit(c) ==
    \/ SessionTicketKey[c] = "zero"
    \/ SessionTicketKey[c] = "user" /\ sessionTicketKeys[c] = {}

\* Without tickets nil is returned: with the lock of configForClient held, with
\* the one of the original Config released.
KeysDisabled(t) ==
    /\ At(t, "check") /\ Cur(t) \in Disabled
    /\ IF trying[t] = "client" THEN UNCHANGED lockVars ELSE RUnlock(t, Cur(t))
    /\ Fetch(t, {})
    /\ Goto(t, "conn")
    /\ UNCHANGED <<configVars, tickets, envVars>>

KeysCheck(t) ==
    /\ At(t, "check") /\ Cur(t) \notin Disabled
    /\ IF NeedsInit(Cur(t))
       THEN RUnlock(t, Cur(t)) /\ Goto(t, "init_lock")
       ELSE UNCHANGED lockVars /\ Goto(t, "choose")
    /\ UNCHANGED <<connVars, configVars, tickets, envVars>>

\* The write lock is held: the key of the application is installed if install.
InitWith(t, install) ==
    LET c == Cur(t) IN
    /\ At(t, "init_wait") /\ LockHeld(t, c)
    /\ SessionTicketKey' =
         [SessionTicketKey EXCEPT ![c] = IF @ = "zero" THEN "deprecated" ELSE @]
    /\ sessionTicketKeys' =
         [sessionTicketKeys EXCEPT ![c] = IF install THEN {SetKey(0)} ELSE @]
    /\ Unlock(c)
    /\ Goto(t, "init_rlock")
    /\ UNCHANGED <<connVars, autoSessionTicketKeys, live, tickets, envVars>>

\* A faulty variant: the keys are not checked again.
InitUnchecked(t) == InitWith(t, SessionTicketKey[Cur(t)] = "user")

\* The conditions are checked again under the write lock.
InitLegacySessionTicketKey(t) ==
    InitWith(t, SessionTicketKey[Cur(t)] = "user" /\ sessionTicketKeys[Cur(t)] = {})

InitRLock(t) ==
    /\ At(t, "init_rlock") /\ RLock(t, Cur(t))
    /\ Goto(t, "choose")
    /\ UNCHANGED <<connVars, configVars, tickets, envVars>>

\* A faulty variant: the lock is kept.
KeysExplicitLocked(t) ==
    /\ At(t, "choose") /\ sessionTicketKeys[Cur(t)] # {}
    /\ Fetch(t, sessionTicketKeys[Cur(t)])
    /\ Goto(t, "conn")
    /\ UNCHANGED <<lockVars, configVars, tickets, envVars>>

\* Keys that were set win, then those of the original Config.
KeysExplicit(t) ==
    /\ At(t, "choose") /\ sessionTicketKeys[Cur(t)] # {}
    /\ RUnlock(t, Cur(t))
    /\ Fetch(t, sessionTicketKeys[Cur(t)])
    /\ Goto(t, "conn")
    /\ UNCHANGED <<configVars, tickets, envVars>>

KeysOfOriginal(t) ==
    /\ At(t, "choose") /\ sessionTicketKeys[Cur(t)] = {} /\ trying[t] = "client"
    /\ RUnlock(t, Cur(t))
    /\ trying' = [trying EXCEPT ![t] = "base"]
    /\ Goto(t, "rlock")
    /\ UNCHANGED <<config, keys, fetched, session, err, configVars, tickets, envVars>>

\* The fast path, or the way to the rotation.
KeysAuto(t) ==
    /\ At(t, "choose") /\ sessionTicketKeys[Base] = {} /\ trying[t] = "base"
    /\ RUnlock(t, Base)
    /\ IF Fresh(autoSessionTicketKeys[Base])
       THEN Fetch(t, autoSessionTicketKeys[Base]) /\ Goto(t, "conn")
       ELSE UNCHANGED connVars /\ Goto(t, "rot_lock")
    /\ UNCHANGED <<configVars, tickets, envVars>>

\* The write lock is held: the keys are rotated if due.
RotateIf(t, due) ==
    /\ At(t, "rot_wait") /\ LockHeld(t, Base)
    /\ autoSessionTicketKeys' =
         [autoSessionTicketKeys EXCEPT ![Base] = IF due THEN Rotated(@) ELSE @]
    /\ nextId' = IF due THEN nextId + 1 ELSE nextId
    /\ Fetch(t, autoSessionTicketKeys'[Base])
    /\ Unlock(Base)
    /\ Goto(t, "rot_rlock")
    /\ UNCHANGED <<SessionTicketKey, sessionTicketKeys, live, tickets, now, callsLeft>>

\* A faulty variant: the condition is not checked again.
RotateUnchecked(t) == RotateIf(t, TRUE)

Rotate(t) == RotateIf(t, ~Fresh(autoSessionTicketKeys[Base]))

\* The deferred RLock and RUnlock.
RotateDone(t) ==
    /\ At(t, "rot_rlock") /\ writer[Base] = NoThread
    /\ Goto(t, "conn")
    /\ UNCHANGED <<connVars, lockVars, configVars, tickets, envVars>>

\* Every Lock of this module, up to the wait for the readers.
LockStart(t) ==
    /\ \/ At(t, "init_lock") /\ Goto(t, "init_wait")
       \/ At(t, "rot_lock") /\ Goto(t, "rot_wait")
       \/ At(t, "set_lock") /\ Goto(t, "set_wait")
    /\ LockAnnounce(t, Cur(t))
    /\ UNCHANGED <<connVars, configVars, tickets, envVars>>

-----------------------------------------------------------------------------
(* The connection: resumption, and the ticket for the next one.            *)

\* checkForResumption accepts the ticket.
Resume(t, ticket) ==
    /\ At(t, "conn") /\ config[t] \notin Disabled
    /\ Opens(keys[t], ticket) /\ now - ticket.createdAt <= MaxTicketAge
    /\ session' = [session EXCEPT ![t] = [createdAt |-> ticket.createdAt,
                                          secretAt |-> ticket.secretAt,
                                          resumedAt |-> now, some |-> TRUE]]
    /\ Goto(t, "ticket")
    /\ UNCHANGED <<trying, config, keys, fetched, err, lockVars, configVars, tickets, envVars>>

FullHandshake(t) ==
    /\ At(t, "conn")
    /\ Goto(t, "ticket")
    /\ UNCHANGED <<connVars, lockVars, configVars, tickets, envVars>>

TicketOf(t, createdAt, secretAt) ==
    [key |-> First(keys[t]), fetchedAt |-> fetched[t],
     createdAt |-> createdAt, secretAt |-> secretAt]

Rewraps(t) == session[t].some /\ ~IsTLS13

\* A faulty variant: the old secret in a ticket with a new date.
NewTicketRedated(t) == TicketOf(t, now, IF Rewraps(t) THEN session[t].secretAt ELSE now)

\* A TLS 1.2 resumption seals the old secret again and keeps its date; TLS 1.3
\* derives a new secret.
NewTicket(t) ==
    IF Rewraps(t) THEN TicketOf(t, session[t].createdAt, session[t].secretAt)
                  ELSE TicketOf(t, now, now)

\* sendSessionTicket and encryptTicket.
SendTicket(t) ==
    /\ At(t, "ticket") /\ config[t] \notin Disabled
    /\ IF keys[t] = {}
       THEN err' = [err EXCEPT ![t] = TRUE] /\ UNCHANGED tickets
       ELSE tickets' = tickets \cup {NewTicket(t)} /\ UNCHANGED err
    /\ Goto(t, "idle")
    /\ UNCHANGED <<trying, config, keys, fetched, session, lockVars, configVars, envVars>>

\* The client does not support tickets, they are disabled, or the handshake fails.
NoTicket(t) ==
    /\ At(t, "ticket")
    /\ Goto(t, "idle")
    /\ UNCHANGED <<connVars, lockVars, configVars, tickets, envVars>>

-----------------------------------------------------------------------------
(* SetSessionTicketKeys and Clone.                                         *)

\* t works on the Config c.
Admin(t, o, c, l) ==
    /\ Call(t, o) /\ c \in live
    /\ config' = [config EXCEPT ![t] = c]
    /\ trying' = [trying EXCEPT ![t] = "client"]
    /\ Goto(t, l)
    /\ UNCHANGED <<keys, fetched, session, err, lockVars, configVars, tickets>>

\* A new key, with or without the one in use so far.
SetSessionTicketKeys(t, keep) ==
    LET c == config[t] IN
    /\ At(t, "set_wait") /\ LockHeld(t, c)
    /\ sessionTicketKeys' =
         [sessionTicketKeys EXCEPT ![c] = {SetKey(nextId)}
             \cup (IF keep /\ @ # {} THEN {First(@)} ELSE {})]
    /\ nextId' = nextId + 1
    /\ Unlock(c)
    /\ Goto(t, "idle")
    /\ UNCHANGED <<connVars, SessionTicketKey, autoSessionTicketKeys, live, tickets, now,
                   callsLeft>>

\* Bound: a Config that c can be cloned to is left.
CloneOf(c, d) == d \notin live /\ (d \in Disabled <=> c \in Disabled)
CanClone(c) == \E d \in Configs : CloneOf(c, d)

CloneRLock(t) ==
    /\ At(t, "clone_rlock") /\ RLock(t, config[t])
    /\ Goto(t, "clone_held")
    /\ UNCHANGED <<connVars, configVars, tickets, envVars>>

\* d is the new Config.
Clone(t, d) ==
    LET c == config[t] IN
    /\ At(t, "clone_held") /\ CloneOf(c, d)
    /\ SessionTicketKey' = [SessionTicketKey EXCEPT ![d] = SessionTicketKey[c]]
    /\ sessionTicketKeys' = [sessionTicketKeys EXCEPT ![d] = sessionTicketKeys[c]]
    /\ autoSessionTicketKeys' = [autoSessionTicketKeys EXCEPT ![d] = autoSessionTicketKeys[c]]
    /\ live' = live \cup {d}
    /\ RUnlock(t, c)
    /\ Goto(t, "idle")
    /\ UNCHANGED <<connVars, tickets, envVars>>

-----------------------------------------------------------------------------
(* The clock, and the specification.                                       *)

Tick ==
    /\ now < MaxTime
    /\ now' = now + 1
    /\ UNCHANGED <<pc, connVars, lockVars, configVars, tickets, nextId, callsLeft>>

Calls(t) ==
    \/ \E c \in Configs \cup {NoConfig} : Serve(t, c)
    \/ \E c \in Configs : Admin(t, "set", c, "set_lock")
    \/ \E c \in Configs : CanClone(c) /\ Admin(t, "clone", c, "clone_rlock")

Locking(t) ==
    KeysRLock(t) \/ InitRLock(t) \/ RotateDone(t) \/ LockStart(t) \/ CloneRLock(t)

Fetching(t) ==
    \/ KeysDisabled(t) \/ KeysCheck(t) \/ InitLegacySessionTicketKey(t) \/ KeysExplicit(t)
    \/ KeysOfOriginal(t) \/ KeysAuto(t) \/ Rotate(t)

Serving(t) ==
    FullHandshake(t) \/ SendTicket(t) \/ NoTicket(t) \/ \E ticket \in tickets : Resume(t, ticket)

Configuring(t) ==
    (\E keep \in BOOLEAN : SetSessionTicketKeys(t, keep)) \/ (\E d \in Configs : Clone(t, d))

Next ==
    \/ Tick
    \/ \E t \in Threads :
         Calls(t) \/ Locking(t) \/ Fetching(t) \/ Serving(t) \/ Configuring(t)

Spec == Init /\ [][Next]_vars

\* Goroutines run and free locks are handed over; nobody has to call.
FairSpec ==
    Spec /\ \A t \in Threads : WF_vars(Locking(t) \/ Fetching(t) \/ Serving(t) \/ Configuring(t))

-----------------------------------------------------------------------------
(* Properties.                                                             *)

\* A read lock is held exactly between RLock and RUnlock: a goroutine that is not
\* in ticketKeys or Clone holds none, and one that is holds only the lock it uses.
ReadLocksPaired ==
    /\ TypeOK
    /\ \A t \in Threads, c \in Configs :
         readers[c][t] = IF pc[t] \in {"check", "choose", "clone_held"} /\ c = Cur(t) THEN 1 ELSE 0

\* The automatic keys are spaced: connections that find the first key stale at
\* the same time rotate it only once.
KeysSpaced ==
    \A c \in Configs : \A j, k \in autoSessionTicketKeys[c] :
      j.id < k.id => j.created + Rotation <= k.created

\* A ticket sealed with an automatic key can be opened with the keys of the Config
\* for Lifetime - Rotation after its connection fetched the key.
TicketSurvives ==
    \A ticket \in tickets :
      ticket.key.auto /\ now + Rotation <= ticket.fetchedAt + Lifetime =>
        Opens(autoSessionTicketKeys[Base], ticket)

\* The automatic keys a connection gets are younger than age.
KeysYounger(age) ==
    \A t \in Threads : \A k \in keys[t] : k.auto => fetched[t] < k.created + age

\* An expired key disappears with the next rotation: no connection gets one that
\* expired longer than one rotation period ago.
KeysExpireSoon == KeysYounger(Lifetime + Rotation)

\* No session is resumed with a secret older than maxSessionTicketLifetime, however
\* often it was sealed in new tickets ("we want to avoid re-wrapping the same master
\* secret in different tickets over and over for too long").
SecretsExpire ==
    \A t \in Threads : session[t].some => session[t].resumedAt - session[t].secretAt <= MaxTicketAge

\* The key made from SessionTicketKey never replaces keys that were set.
LegacyNeverReplaces ==
    [][\A c \in live : sessionTicketKeys[c] # {} =>
         \/ sessionTicketKeys'[c] = sessionTicketKeys[c]
         \/ \E k \in sessionTicketKeys'[c] : k.id >= nextId]_vars

\* ticketKeys and SetSessionTicketKeys return.
CallsReturn == \A t \in Threads : pc[t] # "idle" ~> pc[t] = "idle"

\* SetSessionTicketKeys turns off the automatic rotation.
SetStopsRotation ==
    [][sessionTicketKeys[Base] # {} =>
         autoSessionTicketKeys'[Base] = autoSessionTicketKeys[Base]]_vars

\* A key that can open tickets is younger than ticketKeyLifetime.
KeysExpire == KeysYounger(Lifetime)

\* A server that may issue tickets has a key to seal them with.
KeysAvailable == \A t \in Threads : ~err[t]
=============================================================================
