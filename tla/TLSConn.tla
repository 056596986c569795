------------------------------ MODULE TLSConn ------------------------------
(***************************************************************************)
(* The life of one Conn of crypto/tls (conn.go): goroutines call           *)
(* HandshakeContext, Read, Write, Close, CloseWrite and SetWriteDeadline   *)
(* concurrently, the peer sends records, contexts are cancelled and the    *)
(* transport breaks.  A step is what happens between two points where the  *)
(* goroutines can observe each other: a mutex, an atomic, a channel or a   *)
(* call of the underlying net.Conn.                                        *)
(*                                                                         *)
(* The messages of a handshake are abstracted to the script of reads,      *)
(* writes and flushes the four handshake functions perform.  Payloads,     *)
(* keys and sequence numbers are left out.                                 *)
(***************************************************************************)
EXTENDS Naturals, Sequences

CONSTANTS
    Threads,        \* goroutines that use the Conn
    NoThread,       \* the owner of a free mutex
    Ops,            \* Ops[t]: the API calls goroutine t may make
    Cancellable,    \* goroutines that pass a context with a Done channel
    IsTLS13,        \* c.vers == VersionTLS13
    IsClient,       \* c.isClient
    Renegotiation,  \* c.config.Renegotiation
    PeerKinds,      \* kinds of post-handshake records the peer sends
    MaxCalls,       \* bound: API calls of one goroutine
    MaxPeerRecords  \* bound: post-handshake records of the peer

AllOps == {"handshake", "read", "write", "close", "closewrite", "setwritedeadline"}

AllPeerKinds ==
    {"app", "close_notify", "fatal", "bad", "oversize", "key_update", "hello_request"}

ASSUME ThreadsAssumption == NoThread \notin Threads
ASSUME OpsAssumption == Ops \in [Threads -> SUBSET AllOps]
ASSUME CancellableAssumption == Cancellable \subseteq Threads
ASSUME RoleAssumption == IsTLS13 \in BOOLEAN /\ IsClient \in BOOLEAN
ASSUME RenegotiationAssumption == Renegotiation \in {"never", "once", "freely"}
ASSUME PeerKindsAssumption ==
    PeerKinds \subseteq (AllPeerKinds \ {IF IsTLS13 THEN "hello_request" ELSE "key_update"})
ASSUME BoundsAssumption == MaxCalls \in Nat /\ MaxPeerRecords \in Nat

VARIABLES
    pc, op, ret,          \* control of each goroutine, its API call, its last result
    writers,              \* c.activeCall >> 1: the goroutines inside Write
    closeCalled,          \* c.activeCall & 1
    isHandshakeComplete, handshakeErr, handshakes,
    todo,                 \* the steps the running handshake has still to do
    handshakeMutex, inMutex, outMutex,
    inErr, outErr,        \* c.in.err != nil, c.out.err != nil
    buffering, sendBuf,   \* c.buffering, the kinds of records in c.sendBuf
    flushBuf,             \* the slice a running flush passed to net.Conn.Write
    closeNotifySent, closeNotifyErr,
    net, writeDeadline,   \* the net.Conn and its write deadline
    wire, order,          \* record kinds written, and pairs <<a, b>>: a b after an a
    interrupter, ctxDone, doneClosed,
    callsLeft, peerLeft

goVars    == <<pc, op, ret, writers>>
hsVars    == <<isHandshakeComplete, handshakeErr, handshakes, todo>>
recVars   == <<inErr, outErr, buffering, sendBuf, flushBuf>>
locks     == <<handshakeMutex, inMutex, outMutex>>
closeVars == <<closeCalled, closeNotifySent, closeNotifyErr>>
netVars   == <<net, writeDeadline>>
wireVars  == <<wire, order>>
ctxVars   == <<interrupter, ctxDone, doneClosed>>
envVars   == <<callsLeft, peerLeft>>
vars == <<goVars, hsVars, locks, recVars, closeVars,
          netVars, wireVars, ctxVars, envVars>>

Kinds == {"hs", "app", "alert", "close_notify"}

Labels ==
    {"idle", "handshake", "hs_lock", "hs_in_lock", "hs_run", "hs_write", "hs_flush",
     "hs_fail", "hs_fail_flush", "hs_done", "hs_exit", "hs_wait",
     "wr_lock", "wr_net", "rd_lock", "rd_loop", "rn_lock", "ku_lock", "ku_net",
     "al_lock", "al_net", "ov_net", "cl_check", "cn_lock", "cn_net", "cn_done", "cl_net"}

Results == {"nil", "error", "handshakeErr", "ctxErr", "ErrClosed"}

\* What a handshake does with c.in, c.out and the buffer, for a full handshake,
\* one with a HelloRetryRequest (TLS 1.3) and a resumption (TLS 1.2).
Steps == {"write", "read", "buffer", "flush", "complete"}

ClientScripts13 ==
    {<<"write", "read", "buffer", "write", "read", "write", "flush", "complete">>,
     <<"write", "read", "write", "read", "buffer", "read", "write", "flush", "complete">>}

ServerScripts13 ==
    {<<"read", "buffer", "write", "flush", "read", "write", "complete">>,
     <<"read", "write", "read", "buffer", "write", "flush", "read", "complete">>}

ClientScripts12 ==
    {<<"write", "read", "buffer", "read", "write", "flush", "read", "complete">>,
     <<"write", "read", "buffer", "read", "write", "flush", "complete">>}

ServerScripts12 ==
    {<<"read", "buffer", "write", "flush", "read", "buffer", "write", "flush", "complete">>,
     <<"read", "buffer", "write", "flush", "read", "complete">>}

Scripts ==
    IF IsTLS13 THEN IF IsClient THEN ClientScripts13 ELSE ServerScripts13
               ELSE IF IsClient THEN ClientScripts12 ELSE ServerScripts12

GoroutineTypeOK ==
    /\ pc \in [Threads -> Labels]
    /\ op \in [Threads -> AllOps \cup {"none"}]
    /\ ret \in [Threads -> Results]
    /\ writers \subseteq Threads

ContextTypeOK ==
    /\ interrupter \in [Threads -> {"none", "waiting", "nil", "ctxErr"}]
    /\ ctxDone \in [Threads -> BOOLEAN] /\ doneClosed \in [Threads -> BOOLEAN]
    /\ callsLeft \in [Threads -> Nat] /\ peerLeft \in Nat

HandshakeTypeOK ==
    /\ handshakes \in Nat /\ todo \in Seq(Steps)
    /\ handshakeMutex \in Threads \cup {NoThread}
    /\ inMutex \in Threads \cup {NoThread}
    /\ outMutex \in Threads \cup {NoThread}

FlagsTypeOK ==
    /\ isHandshakeComplete \in BOOLEAN /\ handshakeErr \in BOOLEAN
    /\ inErr \in BOOLEAN /\ outErr \in BOOLEAN /\ buffering \in BOOLEAN

CloseTypeOK ==
    closeCalled \in BOOLEAN /\ closeNotifySent \in BOOLEAN /\ closeNotifyErr \in BOOLEAN

NetTypeOK ==
    net \in {"open", "broken", "closed"} /\ writeDeadline \in {"none", "armed", "past"}

RecordTypeOK ==
    /\ sendBuf \subseteq Kinds /\ flushBuf \subseteq Kinds
    /\ wire \subseteq Kinds /\ order \subseteq Kinds \X Kinds

TypeOK ==
    /\ GoroutineTypeOK /\ ContextTypeOK /\ HandshakeTypeOK /\ FlagsTypeOK
    /\ CloseTypeOK /\ NetTypeOK /\ RecordTypeOK

Init ==
    /\ pc = [t \in Threads |-> "idle"]
    /\ op = [t \in Threads |-> "none"]
    /\ ret = [t \in Threads |-> "nil"]
    /\ writers = {} /\ closeCalled = FALSE
    /\ isHandshakeComplete = FALSE /\ handshakeErr = FALSE
    /\ handshakes = 0 /\ todo = <<>>
    /\ handshakeMutex = NoThread /\ inMutex = NoThread /\ outMutex = NoThread
    /\ inErr = FALSE /\ outErr = FALSE
    /\ buffering = FALSE /\ sendBuf = {} /\ flushBuf = {}
    /\ closeNotifySent = FALSE /\ closeNotifyErr = FALSE
    /\ net = "open" /\ writeDeadline = "none"
    /\ wire = {} /\ order = {}
    /\ interrupter = [t \in Threads |-> "none"]
    /\ ctxDone = [t \in Threads |-> FALSE]
    /\ doneClosed = [t \in Threads |-> FALSE]
    /\ callsLeft = [t \in Threads |-> MaxCalls]
    /\ peerLeft = MaxPeerRecords

-----------------------------------------------------------------------------
(* Control transfer and the calls of the net.Conn.                         *)

At(t, l) == pc[t] = l

Goto(t, l) ==
    /\ pc' = [pc EXCEPT ![t] = l]
    /\ UNCHANGED <<op, ret, writers>>

\* The API call of t returns r; a Write also leaves c.activeCall.
Return(t, r) ==
    /\ pc' = [pc EXCEPT ![t] = "idle"]
    /\ op' = [op EXCEPT ![t] = "none"]
    /\ ret' = [ret EXCEPT ![t] = r]
    /\ writers' = writers \ {t}

\* t makes the API call o, which goes on at l or returns at once.
Call(t, o) ==
    /\ At(t, "idle") /\ o \in Ops[t] /\ callsLeft[t] > 0
    /\ callsLeft' = [callsLeft EXCEPT ![t] = @ - 1]
    /\ UNCHANGED peerLeft

Enter(t, o, l) ==
    /\ pc' = [pc EXCEPT ![t] = l]
    /\ op' = [op EXCEPT ![t] = o]
    /\ ret' = [ret EXCEPT ![t] = "nil"]
    /\ writers' = IF o = "write" THEN writers \cup {t} ELSE writers

\* net.Conn.Write may succeed on an open connection until its deadline.  It
\* fails on a broken or closed one and at its deadline; else it may block.
NetWrite(ok) ==
    IF ok THEN net = "open" /\ writeDeadline # "past"
          ELSE net # "open" \/ writeDeadline # "none"

\* The records of S leave for the peer.
Emit(S) ==
    /\ wire' = wire \cup S
    /\ order' = order \cup (wire \X S)

\* writeRecordLocked of one record of kind k, which Conn.write buffers or sends.
WriteRecord(k, ok) ==
    IF buffering
    THEN ok /\ sendBuf' = sendBuf \cup {k} /\ UNCHANGED wireVars
    ELSE /\ NetWrite(ok) /\ UNCHANGED sendBuf
         /\ IF ok THEN Emit({k}) ELSE UNCHANGED wireVars

\* What the caller of handshakeContext does with its result.
AfterHandshake(t, r) ==
    IF r # "nil" \/ op[t] = "handshake"
    THEN Return(t, r)
    ELSE Goto(t, IF op[t] = "read" THEN "rd_lock" ELSE "wr_lock")

\* t starts the next step of the running handshake.
AtScript(t, s) ==
    /\ At(t, "hs_run") /\ todo # <<>> /\ Head(todo) = s
    /\ todo' = Tail(todo)

\* A handshake that starts after the first one succeeded is a renegotiation,
\* run by a Read from handleRenegotiation.
Renegotiating == handshakes > 0

-----------------------------------------------------------------------------
(* Faulty variants of the definitions below, one per mistake the properties *)
(* are meant to notice.                                                     *)

\* The interrupter does not close the connection.
InterrupterKeepsNet(t) ==
    /\ interrupter[t] = "waiting" /\ ctxDone[t]
    /\ interrupter' = [interrupter EXCEPT ![t] = "ctxErr"]
    /\ UNCHANGED <<goVars, hsVars, locks, recVars, closeVars, netVars, wireVars, ctxDone,
                   doneClosed, envVars>>

\* handshakeContext does not receive from interruptRes.
HandshakeExitNoWait(t) ==
    /\ At(t, "hs_exit")
    /\ AfterHandshake(t, ret[t])
    /\ doneClosed' = [doneClosed EXCEPT ![t] = TRUE]
    /\ UNCHANGED <<hsVars, locks, recVars, closeVars, netVars, wireVars, interrupter, ctxDone,
                   envVars>>

\* handshakeContext does not look at the recorded outcome.
HandshakeLockAlways(t) ==
    /\ At(t, "hs_lock") /\ handshakeMutex = NoThread
    /\ Goto(t, "hs_in_lock") /\ handshakeMutex' = t
    /\ UNCHANGED <<hsVars, inMutex, outMutex, recVars, closeVars, netVars, wireVars, ctxVars,
                   envVars>>

\* flush does not end the buffering.
FlushNetKeepsBuffering(ok) ==
    /\ NetWrite(ok)
    /\ sendBuf' = {} /\ flushBuf' = {} /\ UNCHANGED buffering
    /\ IF ok THEN Emit(flushBuf) ELSE UNCHANGED wireVars

\* A failed handshake leaves the buffer alone, and moreover keeps
\* handshakeMutex.
HsFailLeaving(t, owner) ==
    /\ At(t, "hs_fail")
    /\ handshakeErr' = TRUE /\ todo' = <<>>
    /\ handshakeMutex' = owner /\ inMutex' = NoThread
    /\ IF Renegotiating
       THEN Return(t, "handshakeErr")
       ELSE /\ pc' = [pc EXCEPT ![t] = "hs_exit"]
            /\ ret' = [ret EXCEPT ![t] = "handshakeErr"]
            /\ UNCHANGED <<op, writers>>
    /\ UNCHANGED <<isHandshakeComplete, handshakes, outMutex, recVars, closeVars, netVars,
                   wireVars, ctxVars, envVars>>

HsFailNoFlush(t) == HsFailLeaving(t, NoThread)
HsFailKeepsMutex(t) == HsFailLeaving(t, t)

\* Write without one of its three checks.
WriteLockChecking(t, refused) ==
    /\ At(t, "wr_lock") /\ outMutex = NoThread
    /\ IF refused
       THEN Return(t, "error") /\ UNCHANGED outMutex
       ELSE Goto(t, "wr_net") /\ outMutex' = t
    /\ UNCHANGED <<hsVars, handshakeMutex, inMutex, recVars, closeVars, netVars, wireVars,
                   ctxVars, envVars>>

WriteLockNoErrCheck(t) == WriteLockChecking(t, ~isHandshakeComplete \/ closeNotifySent)
WriteLockNoHandshakeCheck(t) == WriteLockChecking(t, outErr \/ closeNotifySent)
WriteLockNoCloseCheck(t) == WriteLockChecking(t, outErr \/ ~isHandshakeComplete)

\* A failed write returns with c.out locked.
WriteNetKeepsLock(t, ok) ==
    /\ At(t, "wr_net") /\ WriteRecord("app", ok)
    /\ outErr' = ~ok
    /\ outMutex' = IF ok THEN NoThread ELSE t
    /\ Return(t, IF ok THEN "nil" ELSE "error")
    /\ UNCHANGED <<hsVars, handshakeMutex, inMutex, inErr, buffering, flushBuf, closeVars,
                   netVars, ctxVars, envVars>>

\* A renegotiation starts with isHandshakeComplete still set.
RenegotiateComplete(t) ==
    /\ At(t, "rn_lock") /\ handshakeMutex = NoThread
    /\ handshakeMutex' = t /\ todo' \in Scripts
    /\ Goto(t, "hs_run")
    /\ UNCHANGED <<isHandshakeComplete, handshakeErr, handshakes, inMutex, outMutex, recVars,
                   closeVars, netVars, wireVars, ctxVars, envVars>>

\* An alert that was written leaves no error behind.
SendAlertNoError(ok) == WriteRecord("alert", ok) /\ outErr' = (outErr \/ ~ok)

\* closeNotify does not arm the deadline, drops its error, or leaves the
\* deadline in the future.
CloseNotifyLockUnarmed(t) ==
    /\ At(t, "cn_lock") /\ outMutex = NoThread
    /\ outMutex' = t
    /\ Goto(t, IF closeNotifySent THEN "cn_done" ELSE "cn_net")
    /\ UNCHANGED <<hsVars, handshakeMutex, inMutex, recVars, closeVars, netVars, wireVars,
                   ctxVars, envVars>>

CloseNotifyNetNoError(t, ok) ==
    /\ At(t, "cn_net") /\ WriteRecord("close_notify", ok)
    /\ Goto(t, "cn_done")
    /\ UNCHANGED <<hsVars, locks, inErr, outErr, buffering, flushBuf, closeVars, netVars,
                   ctxVars, envVars>>

CloseNotifyDoneArmed(t) ==
    /\ At(t, "cn_done")
    /\ closeNotifySent' = TRUE
    /\ outMutex' = NoThread
    /\ IF op[t] = "closewrite"
       THEN Return(t, IF closeNotifyErr THEN "error" ELSE "nil")
       ELSE Goto(t, "cl_net")
    /\ UNCHANGED <<hsVars, handshakeMutex, inMutex, recVars, closeCalled, closeNotifyErr,
                   netVars, wireVars, ctxVars, envVars>>

-----------------------------------------------------------------------------
(* HandshakeContext and the interrupter goroutine.                         *)

CallHandshake(t) ==
    /\ Call(t, "handshake") /\ Enter(t, "handshake", "handshake")
    /\ interrupter' = [interrupter EXCEPT ![t] = "none"]
    /\ ctxDone' = [ctxDone EXCEPT ![t] = FALSE]
    /\ doneClosed' = [doneClosed EXCEPT ![t] = FALSE]
    /\ UNCHANGED <<hsVars, locks, recVars, closeVars,
                   netVars, wireVars>>

\* The atomic fast path, or the context set-up before the mutex.
HandshakeEnter(t) ==
    /\ At(t, "handshake")
    /\ IF isHandshakeComplete
       THEN AfterHandshake(t, "nil") /\ UNCHANGED interrupter
       ELSE /\ Goto(t, "hs_lock")
            /\ interrupter' = IF op[t] = "handshake" /\ t \in Cancellable
                              THEN [interrupter EXCEPT ![t] = "waiting"]
                              ELSE interrupter
    /\ UNCHANGED <<hsVars, locks, recVars, closeVars,
                   netVars, wireVars, ctxDone, doneClosed, envVars>>

\* handshakeMutex is free: return the recorded outcome, or keep it and go on.
HandshakeLock(t) ==
    /\ At(t, "hs_lock") /\ handshakeMutex = NoThread
    /\ IF handshakeErr \/ isHandshakeComplete
       THEN /\ pc' = [pc EXCEPT ![t] = "hs_exit"]
            /\ ret' = [ret EXCEPT ![t] = IF handshakeErr THEN "handshakeErr" ELSE "nil"]
            /\ UNCHANGED <<op, writers, handshakeMutex>>
       ELSE Goto(t, "hs_in_lock") /\ handshakeMutex' = t
    /\ UNCHANGED <<hsVars, inMutex, outMutex, recVars, closeVars, netVars, wireVars,
                   ctxVars, envVars>>

HandshakeInLock(t) ==
    /\ At(t, "hs_in_lock") /\ inMutex = NoThread
    /\ inMutex' = t
    /\ todo' \in Scripts
    /\ Goto(t, "hs_run")
    /\ UNCHANGED <<isHandshakeComplete, handshakeErr, handshakes, handshakeMutex, outMutex,
                   recVars, closeVars, netVars, wireVars, ctxVars, envVars>>

\* The deferred function: close(done), then receive from interruptRes.
HandshakeExit(t) ==
    /\ At(t, "hs_exit")
    /\ IF interrupter[t] = "none"
       THEN AfterHandshake(t, ret[t]) /\ UNCHANGED doneClosed
       ELSE Goto(t, "hs_wait") /\ doneClosed' = [doneClosed EXCEPT ![t] = TRUE]
    /\ UNCHANGED <<hsVars, locks, recVars, closeVars, netVars,
                   wireVars, interrupter, ctxDone, envVars>>

HandshakeWait(t) ==
    /\ At(t, "hs_wait") /\ interrupter[t] \in {"nil", "ctxErr"}
    /\ Return(t, IF interrupter[t] = "ctxErr" THEN "ctxErr" ELSE ret[t])
    /\ interrupter' = [interrupter EXCEPT ![t] = "none"]
    /\ UNCHANGED <<hsVars, locks, recVars, closeVars, netVars,
                   wireVars, ctxDone, doneClosed, envVars>>

\* The interrupter's select: both cases may be ready, either is taken.
InterrupterCancelled(t) ==
    /\ interrupter[t] = "waiting" /\ ctxDone[t]
    /\ net' = "closed"
    /\ interrupter' = [interrupter EXCEPT ![t] = "ctxErr"]
    /\ UNCHANGED <<goVars, hsVars, locks, recVars, closeVars,
                   writeDeadline, wireVars, ctxDone, doneClosed, envVars>>

InterrupterDone(t) ==
    /\ interrupter[t] = "waiting" /\ doneClosed[t]
    /\ interrupter' = [interrupter EXCEPT ![t] = "nil"]
    /\ UNCHANGED <<goVars, hsVars, locks, recVars, closeVars,
                   netVars, wireVars, ctxDone, doneClosed, envVars>>

-----------------------------------------------------------------------------
(* The handshake functions, run with handshakeMutex and c.in held.         *)

\* writeHandshakeRecord.
HsWrite(t) ==
    /\ AtScript(t, "write") /\ outMutex = NoThread
    /\ outMutex' = t
    /\ Goto(t, "hs_write")
    /\ UNCHANGED <<isHandshakeComplete, handshakeErr, handshakes, handshakeMutex, inMutex,
                   recVars, closeVars, netVars, wireVars, ctxVars, envVars>>

HsWriteNet(t, ok) ==
    /\ At(t, "hs_write") /\ WriteRecord("hs", ok)
    /\ outMutex' = NoThread
    /\ Goto(t, IF ok THEN "hs_run" ELSE "hs_fail")
    /\ UNCHANGED <<hsVars, handshakeMutex, inMutex, inErr, outErr, buffering, flushBuf,
                   closeVars, netVars, ctxVars, envVars>>

HsBuffer(t) ==
    /\ AtScript(t, "buffer")
    /\ buffering' = TRUE
    /\ UNCHANGED <<goVars, isHandshakeComplete, handshakeErr, handshakes, locks, inErr,
                   outErr, sendBuf, flushBuf, closeVars, netVars, wireVars, ctxVars, envVars>>

\* flush does not lock c.out.
HsFlush(t) ==
    /\ AtScript(t, "flush")
    /\ IF sendBuf = {}
       THEN UNCHANGED <<goVars, flushBuf>>
       ELSE Goto(t, "hs_flush") /\ flushBuf' = sendBuf
    /\ UNCHANGED <<isHandshakeComplete, handshakeErr, handshakes, locks, inErr, outErr,
                   buffering, sendBuf, closeVars, netVars, wireVars, ctxVars, envVars>>

\* The buffer is dropped and buffering ends whether or not the write succeeds.
FlushNet(ok) ==
    /\ NetWrite(ok)
    /\ sendBuf' = {} /\ buffering' = FALSE /\ flushBuf' = {}
    /\ IF ok THEN Emit(flushBuf) ELSE UNCHANGED wireVars

HsFlushNet(t, ok) ==
    /\ At(t, "hs_flush") /\ FlushNet(ok)
    /\ Goto(t, IF ok THEN "hs_run" ELSE "hs_fail")
    /\ UNCHANGED <<hsVars, locks, inErr, outErr, closeVars, netVars, ctxVars, envVars>>

\* readHandshake returns the message the script expects.
HsRead(t) ==
    /\ AtScript(t, "read") /\ ~inErr
    /\ UNCHANGED <<goVars, isHandshakeComplete, handshakeErr, handshakes, locks, recVars,
                   closeVars, netVars, wireVars, ctxVars, envVars>>

\* It returns an error: the one of c.in, or of the transport, which sticks to
\* c.in unless temporary.
HsReadFail(t, temporary) ==
    /\ AtScript(t, "read")
    /\ temporary \/ inErr \/ net # "open"
    /\ inErr' = (inErr \/ ~temporary)
    /\ Goto(t, "hs_fail")
    /\ UNCHANGED <<isHandshakeComplete, handshakeErr, handshakes, locks, outErr, buffering,
                   sendBuf, flushBuf, closeVars, netVars, wireVars, ctxVars, envVars>>

\* The peer's record ends the handshake: its alert sticks to c.in, a bad
\* record also and is answered by an alert, a bad message only by an alert,
\* an oversized message by an alert sent without locking c.out.
HsReadBad(t) ==
    /\ AtScript(t, "read") /\ ~inErr
    /\ \/ /\ PeerKinds \cap {"close_notify", "fatal"} # {}
          /\ inErr' = TRUE /\ Goto(t, "hs_fail")
       \/ /\ "bad" \in PeerKinds
          /\ inErr' \in BOOLEAN /\ Goto(t, "al_lock")
       \/ /\ "oversize" \in PeerKinds
          /\ inErr' = TRUE /\ Goto(t, "ov_net")
    /\ UNCHANGED <<isHandshakeComplete, handshakeErr, handshakes, locks, outErr, buffering,
                   sendBuf, flushBuf, closeVars, netVars, wireVars, ctxVars, envVars>>

\* A check of the handshake function fails between two of its messages (a
\* certificate, a Finished, a rejected ECH, the local configuration), with or
\* without an alert.  A renegotiation reuses the configuration that the first
\* handshake got through its ClientHello.
HsAbort(t) ==
    /\ At(t, "hs_run") /\ (~Renegotiating \/ todo \notin Scripts)
    /\ Goto(t, "al_lock") \/ Goto(t, "hs_fail")
    /\ UNCHANGED <<hsVars, locks, recVars, closeVars, netVars, wireVars, ctxVars, envVars>>

\* isHandshakeComplete.Store(true), the last thing the handshake function does.
HsComplete(t) ==
    /\ AtScript(t, "complete")
    /\ isHandshakeComplete' = TRUE
    /\ Goto(t, "hs_done")
    /\ UNCHANGED <<handshakeErr, handshakes, locks, recVars, closeVars, netVars, wireVars,
                   ctxVars, envVars>>

\* The caller records the success and its deferred calls unlock: both mutexes
\* in handshakeContext, handshakeMutex alone in handleRenegotiation.
HsDone(t) ==
    /\ At(t, "hs_done")
    /\ handshakeErr' = FALSE
    /\ handshakes' = handshakes + 1
    /\ handshakeMutex' = NoThread
    /\ IF Renegotiating
       THEN Goto(t, "rd_loop") /\ UNCHANGED inMutex
       ELSE /\ inMutex' = NoThread
            /\ pc' = [pc EXCEPT ![t] = "hs_exit"]
            /\ ret' = [ret EXCEPT ![t] = "nil"]
            /\ UNCHANGED <<op, writers>>
    /\ UNCHANGED <<isHandshakeComplete, todo, outMutex, recVars, closeVars, netVars,
                   wireVars, ctxVars, envVars>>

\* handshakeErr is set.  handshakeContext then flushes what is buffered;
\* handleRenegotiation does not, and its Read returns the error.
HsFail(t) ==
    /\ At(t, "hs_fail")
    /\ handshakeErr' = TRUE
    /\ todo' = <<>>
    /\ IF ~Renegotiating /\ sendBuf # {}
       THEN /\ flushBuf' = sendBuf /\ Goto(t, "hs_fail_flush")
            /\ UNCHANGED <<handshakeMutex, inMutex>>
       ELSE /\ handshakeMutex' = NoThread /\ inMutex' = NoThread
            /\ UNCHANGED flushBuf
            /\ IF Renegotiating
               THEN Return(t, "handshakeErr")
               ELSE /\ pc' = [pc EXCEPT ![t] = "hs_exit"]
                    /\ ret' = [ret EXCEPT ![t] = "handshakeErr"]
                    /\ UNCHANGED <<op, writers>>
    /\ UNCHANGED <<isHandshakeComplete, handshakes, outMutex, inErr, outErr, buffering,
                   sendBuf, closeVars, netVars, wireVars, ctxVars, envVars>>

HsFailFlushNet(t, ok) ==
    /\ At(t, "hs_fail_flush") /\ FlushNet(ok)
    /\ handshakeMutex' = NoThread /\ inMutex' = NoThread
    /\ pc' = [pc EXCEPT ![t] = "hs_exit"]
    /\ ret' = [ret EXCEPT ![t] = "handshakeErr"]
    /\ UNCHANGED <<op, writers, hsVars, outMutex, inErr, outErr, closeVars, netVars,
                   ctxVars, envVars>>

-----------------------------------------------------------------------------
(* Write.                                                                  *)

\* The interlock with Close: activeCall is read and advanced in one CAS.
CallWrite(t) ==
    /\ Call(t, "write")
    /\ IF closeCalled THEN Return(t, "ErrClosed") ELSE Enter(t, "write", "handshake")
    /\ UNCHANGED <<hsVars, locks, recVars, closeVars, netVars, wireVars, ctxVars>>

\* The three checks made under c.out; only then does the record go out.
WriteLock(t) ==
    /\ At(t, "wr_lock") /\ outMutex = NoThread
    /\ IF outErr \/ ~isHandshakeComplete \/ closeNotifySent
       THEN Return(t, "error") /\ UNCHANGED outMutex
       ELSE Goto(t, "wr_net") /\ outMutex' = t
    /\ UNCHANGED <<hsVars, handshakeMutex, inMutex, recVars, closeVars, netVars, wireVars,
                   ctxVars, envVars>>

\* setErrorLocked stores the result of writeRecordLocked, nil included.
WriteNet(t, ok) ==
    /\ At(t, "wr_net") /\ WriteRecord("app", ok)
    /\ outErr' = ~ok
    /\ outMutex' = NoThread
    /\ Return(t, IF ok THEN "nil" ELSE "error")
    /\ UNCHANGED <<hsVars, handshakeMutex, inMutex, inErr, buffering, flushBuf, closeVars,
                   netVars, ctxVars, envVars>>

-----------------------------------------------------------------------------
(* Read, and what it does with the records of the peer.                    *)

CallRead(t) ==
    /\ Call(t, "read") /\ Enter(t, "read", "handshake")
    /\ UNCHANGED <<hsVars, locks, recVars, closeVars, netVars, wireVars, ctxVars>>

ReadLock(t) ==
    /\ At(t, "rd_lock") /\ inMutex = NoThread
    /\ inMutex' = t
    /\ Goto(t, "rd_loop")
    /\ UNCHANGED <<hsVars, handshakeMutex, outMutex, recVars, closeVars, netVars, wireVars,
                   ctxVars, envVars>>

\* readRecord fails: a sticky error of c.in, the transport, or a timeout.
ReadFail(t, temporary) ==
    /\ At(t, "rd_loop")
    /\ temporary \/ inErr \/ net # "open"
    /\ inErr' = (inErr \/ ~temporary)
    /\ inMutex' = NoThread
    /\ Return(t, "error")
    /\ UNCHANGED <<hsVars, handshakeMutex, outMutex, outErr, buffering, sendBuf, flushBuf,
                   closeVars, netVars, wireVars, ctxVars, envVars>>

\* A record of kind k is next; it may come from c.rawInput.
Receive(t, k) ==
    /\ At(t, "rd_loop") /\ ~inErr
    /\ k \in PeerKinds /\ peerLeft > 0
    /\ peerLeft' = peerLeft - 1
    /\ UNCHANGED <<hsVars, handshakeMutex, outMutex, outErr, buffering, sendBuf, flushBuf,
                   closeVars, netVars, wireVars, ctxVars, callsLeft>>

\* Application data ends the loop.  An alert that is already waiting behind
\* it is read too, and then decides the result.
ReadApp(t) ==
    /\ Receive(t, "app") /\ isHandshakeComplete
    /\ inMutex' = NoThread
    /\ \/ Return(t, "nil") /\ UNCHANGED inErr
       \/ PeerKinds \cap {"close_notify", "fatal"} # {} /\ Return(t, "error") /\ inErr' = TRUE

\* io.EOF or the peer's fatal alert.
ReadPeerAlert(t) ==
    /\ \E k \in {"close_notify", "fatal"} : Receive(t, k)
    /\ inErr' = TRUE
    /\ inMutex' = NoThread
    /\ Return(t, "error")

\* A record that is answered by an alert: setErrorLocked(sendAlert(...)) for a
\* bad record or application data outside its phase; sendAlert alone for a
\* bad message.  inErr is guarded by c.in, so it may be set first.
ReadBad(t) ==
    /\ \/ Receive(t, "bad") /\ inErr' \in BOOLEAN
       \/ Receive(t, "app") /\ ~isHandshakeComplete /\ inErr' = TRUE
    /\ Goto(t, "al_lock")
    /\ UNCHANGED inMutex

\* readHandshake meets a message longer than maxHandshake.
ReadOversize(t) ==
    /\ Receive(t, "oversize")
    /\ inErr' = TRUE
    /\ Goto(t, "ov_net")
    /\ UNCHANGED inMutex

\* handleKeyUpdate: a reply is owed if the peer requests it.
ReadKeyUpdate(t) ==
    /\ Receive(t, "key_update")
    /\ Goto(t, "rd_loop") \/ Goto(t, "ku_lock")
    /\ UNCHANGED <<inMutex, inErr>>

KeyUpdateLock(t) ==
    /\ At(t, "ku_lock") /\ outMutex = NoThread
    /\ outMutex' = t
    /\ Goto(t, "ku_net")
    /\ UNCHANGED <<hsVars, handshakeMutex, inMutex, recVars, closeVars, netVars, wireVars,
                   ctxVars, envVars>>

\* The error of the reply surfaces at the next write; Read goes on.
KeyUpdateNet(t, ok) ==
    /\ At(t, "ku_net") /\ WriteRecord("hs", ok)
    /\ outErr' = (outErr \/ ~ok)
    /\ outMutex' = NoThread
    /\ Goto(t, "rd_loop")
    /\ UNCHANGED <<hsVars, handshakeMutex, inMutex, inErr, buffering, flushBuf, closeVars,
                   netVars, ctxVars, envVars>>

\* handleRenegotiation up to the mutex.
MayRenegotiate ==
    /\ IsClient
    /\ \/ Renegotiation = "once" /\ handshakes <= 1
       \/ Renegotiation = "freely"

ReadHelloRequest(t) ==
    /\ Receive(t, "hello_request")
    /\ Goto(t, IF MayRenegotiate THEN "rn_lock" ELSE "al_lock")
    /\ UNCHANGED <<inMutex, inErr>>

\* c.in is already held when handshakeMutex is locked.
RenegotiateLock(t) ==
    /\ At(t, "rn_lock") /\ handshakeMutex = NoThread
    /\ handshakeMutex' = t
    /\ isHandshakeComplete' = FALSE
    /\ todo' \in Scripts
    /\ Goto(t, "hs_run")
    /\ UNCHANGED <<handshakeErr, handshakes, inMutex, outMutex, recVars, closeVars, netVars,
                   wireVars, ctxVars, envVars>>

-----------------------------------------------------------------------------
(* Alerts: sendAlert locks c.out, the one of readHandshake does not.       *)

\* The alert fails the handshake that t runs, or else its Read.
AfterAlert(t) ==
    IF handshakeMutex = t
    THEN Goto(t, "hs_fail") /\ UNCHANGED inMutex
    ELSE Return(t, "error") /\ inMutex' = NoThread

\* sendAlertLocked: the alert becomes the error of c.out, written or not.
SendAlertLocked(ok) ==
    /\ WriteRecord("alert", ok)
    /\ outErr' = TRUE

AlertLock(t) ==
    /\ At(t, "al_lock") /\ outMutex = NoThread
    /\ outMutex' = t
    /\ Goto(t, "al_net")
    /\ UNCHANGED <<hsVars, handshakeMutex, inMutex, recVars, closeVars, netVars, wireVars,
                   ctxVars, envVars>>

AlertNet(t, ok) ==
    /\ At(t, "al_net") /\ SendAlertLocked(ok)
    /\ outMutex' = NoThread
    /\ AfterAlert(t)
    /\ UNCHANGED <<hsVars, handshakeMutex, inErr, buffering, flushBuf, closeVars, netVars,
                   ctxVars, envVars>>

OversizeAlertNet(t, ok) ==
    /\ At(t, "ov_net") /\ SendAlertLocked(ok)
    /\ AfterAlert(t)
    /\ UNCHANGED <<hsVars, handshakeMutex, outMutex, inErr, buffering, flushBuf, closeVars,
                   netVars, ctxVars, envVars>>

-----------------------------------------------------------------------------
(* Close, CloseWrite and SetWriteDeadline.                                 *)

\* One CAS sets the low bit of activeCall.  With a Write in flight the
\* transport is closed at once.
CallClose(t) ==
    /\ Call(t, "close")
    /\ IF closeCalled
       THEN Return(t, "ErrClosed")
       ELSE Enter(t, "close", IF writers # {} THEN "cl_net" ELSE "cl_check")
    /\ closeCalled' = TRUE
    /\ UNCHANGED <<hsVars, locks, recVars, closeNotifySent, closeNotifyErr, netVars,
                   wireVars, ctxVars>>

CallCloseWrite(t) ==
    /\ Call(t, "closewrite") /\ Enter(t, "closewrite", "cl_check")
    /\ UNCHANGED <<hsVars, locks, recVars, closeVars, netVars, wireVars, ctxVars>>

\* isHandshakeComplete decides whether close_notify is sent.
CloseCheck(t) ==
    /\ At(t, "cl_check")
    /\ CASE isHandshakeComplete -> Goto(t, "cn_lock")
         [] ~isHandshakeComplete /\ op[t] = "close" -> Goto(t, "cl_net")
         [] OTHER -> Return(t, "error")
    /\ UNCHANGED <<hsVars, locks, recVars, closeVars, netVars, wireVars, ctxVars, envVars>>

\* closeNotify: only the first one arms the write deadline and sends.
CloseNotifyLock(t) ==
    /\ At(t, "cn_lock") /\ outMutex = NoThread
    /\ outMutex' = t
    /\ Goto(t, IF closeNotifySent THEN "cn_done" ELSE "cn_net")
    /\ writeDeadline' = IF closeNotifySent THEN writeDeadline ELSE "armed"
    /\ UNCHANGED <<hsVars, handshakeMutex, inMutex, recVars, closeVars, net, wireVars,
                   ctxVars, envVars>>

CloseNotifyNet(t, ok) ==
    /\ At(t, "cn_net") /\ WriteRecord("close_notify", ok)
    /\ closeNotifyErr' = ~ok
    /\ Goto(t, "cn_done")
    /\ UNCHANGED <<hsVars, locks, inErr, outErr, buffering, flushBuf, closeCalled,
                   closeNotifySent, netVars, ctxVars, envVars>>

CloseNotifyDone(t) ==
    /\ At(t, "cn_done")
    /\ closeNotifySent' = TRUE
    /\ writeDeadline' = IF closeNotifySent THEN writeDeadline ELSE "past"
    /\ outMutex' = NoThread
    /\ LET r == IF closeNotifyErr THEN "error" ELSE "nil"
       IN  IF op[t] = "closewrite"
           THEN Return(t, r)
           ELSE /\ pc' = [pc EXCEPT ![t] = "cl_net"]
                /\ ret' = [ret EXCEPT ![t] = r]
                /\ UNCHANGED <<op, writers>>
    /\ UNCHANGED <<hsVars, handshakeMutex, inMutex, recVars, closeCalled, closeNotifyErr, net,
                   wireVars, ctxVars, envVars>>

\* c.conn.Close; its own error comes before the one of closeNotify.
CloseNet(t) ==
    /\ At(t, "cl_net")
    /\ net' = "closed"
    /\ Return(t, IF net = "closed" THEN "error" ELSE ret[t])
    /\ UNCHANGED <<hsVars, locks, recVars, closeVars, writeDeadline, wireVars, ctxVars,
                   envVars>>

\* The application removes the write deadline.
SetWriteDeadline(t) ==
    /\ Call(t, "setwritedeadline") /\ Return(t, "nil")
    /\ writeDeadline' = "none"
    /\ UNCHANGED <<hsVars, locks, recVars, closeVars, net, wireVars, ctxVars>>

-----------------------------------------------------------------------------
(* The environment, and the specification.                                 *)

Cancel(t) ==
    /\ t \in Cancellable /\ op[t] = "handshake" /\ ~ctxDone[t]
    /\ ctxDone' = [ctxDone EXCEPT ![t] = TRUE]
    /\ UNCHANGED <<goVars, hsVars, locks, recVars, closeVars, netVars, wireVars, interrupter,
                   doneClosed, envVars>>

NetBreak ==
    /\ net = "open"
    /\ net' = "broken"
    /\ UNCHANGED <<goVars, hsVars, locks, recVars, closeVars, writeDeadline, wireVars,
                   ctxVars, envVars>>

Calls(t) ==
    \/ CallHandshake(t) \/ CallWrite(t) \/ CallRead(t) \/ CallClose(t)
    \/ CallCloseWrite(t) \/ SetWriteDeadline(t)

\* Steps that need nobody else but the owner of a mutex.
Handshaking(t) ==
    \/ HandshakeEnter(t) \/ HandshakeLock(t) \/ HandshakeInLock(t) \/ HandshakeExit(t)
    \/ HandshakeWait(t)

Scripted(t) ==
    HsWrite(t) \/ HsBuffer(t) \/ HsFlush(t) \/ HsComplete(t) \/ HsDone(t) \/ HsFail(t)

Locking(t) ==
    WriteLock(t) \/ ReadLock(t) \/ KeyUpdateLock(t) \/ RenegotiateLock(t) \/ AlertLock(t)

Closing(t) ==
    CloseCheck(t) \/ CloseNotifyLock(t) \/ CloseNotifyDone(t) \/ CloseNet(t)

Local(t) == Handshaking(t) \/ Scripted(t) \/ Locking(t) \/ Closing(t)

Interrupter(t) == InterrupterCancelled(t) \/ InterrupterDone(t)

\* Steps that write a record, and those that write the buffer.
Writes(t, ok) ==
    \/ HsWriteNet(t, ok) \/ WriteNet(t, ok) \/ KeyUpdateNet(t, ok) \/ AlertNet(t, ok)
    \/ OversizeAlertNet(t, ok) \/ CloseNotifyNet(t, ok)

Flushes(t, ok) == HsFlushNet(t, ok) \/ HsFailFlushNet(t, ok)

ReadFails(t, temporary) == ReadFail(t, temporary) \/ HsReadFail(t, temporary)

\* Steps that wait for the peer, or depend on what it sent.
Receives(t) ==
    \/ HsRead(t) \/ HsReadBad(t) \/ HsAbort(t) \/ ReadApp(t) \/ ReadPeerAlert(t)
    \/ ReadBad(t) \/ ReadOversize(t) \/ ReadKeyUpdate(t) \/ ReadHelloRequest(t)

Next ==
    \/ NetBreak
    \/ \E t \in Threads :
          \/ Calls(t) \/ Local(t) \/ Interrupter(t) \/ Receives(t) \/ Cancel(t)
          \/ \E b \in BOOLEAN : Writes(t, b) \/ Flushes(t, b) \/ ReadFails(t, b)

Spec == Init /\ [][Next]_vars

\* Goroutines are scheduled and free mutexes are handed over.  A call of a
\* net.Conn that is closed, broken or past its deadline returns.  Nothing makes
\* the peer send or read, the application call or a context end.
Fairness ==
    \A t \in Threads :
      /\ WF_vars(Local(t))
      /\ WF_vars(Interrupter(t))
      /\ WF_vars(Writes(t, FALSE) \/ Flushes(t, FALSE))
      /\ WF_vars(buffering /\ Writes(t, TRUE))
      /\ WF_vars(ReadFails(t, FALSE))

FairSpec == Spec /\ Fairness

-----------------------------------------------------------------------------
(* Properties.                                                             *)

\* The labels at which a goroutine owns each mutex.  An alert is sent by the
\* owner of c.in, during a handshake or not.
AlertLabels == {"al_lock", "al_net", "ov_net"}
HsLabels == {"hs_in_lock", "hs_run", "hs_write", "hs_flush", "hs_fail", "hs_fail_flush",
             "hs_done"}
InLabels == (HsLabels \ {"hs_in_lock"}) \cup AlertLabels
            \cup {"rd_loop", "rn_lock", "ku_lock", "ku_net"}
OutLabels == {"hs_write", "wr_net", "ku_net", "al_net", "cn_net", "cn_done"}

\* Every mutex is owned exactly by the goroutine that is between its Lock and
\* its Unlock, on every path of conn.go, the error paths included.
MutexOwners ==
    \A t \in Threads :
      /\ pc[t] \in HsLabels => handshakeMutex = t
      /\ handshakeMutex = t => pc[t] \in HsLabels \cup AlertLabels
      /\ inMutex = t <=> pc[t] \in InLabels
      /\ outMutex = t <=> pc[t] \in OutLabels

\* conn.go locks handshakeMutex before c.in to start a handshake, and c.in
\* before handshakeMutex to renegotiate.  The two orders never meet: no
\* goroutine waits for c.in with handshakeMutex held while another waits for
\* handshakeMutex with c.in held.
NoLockCycle ==
    ~ \E t, u \in Threads : pc[t] = "hs_in_lock" /\ pc[u] = "rn_lock"

\* Write sends application data only while it is allowed to: a Write past
\* its checks coexists with a completed handshake, or with a renegotiation
\* that has not written its ClientHello.  It has not been overtaken by the
\* close_notify, and its record is not put in the handshake's buffer.
AppDataInPhase ==
    \A t \in Threads : pc[t] = "wr_net" =>
      /\ isHandshakeComplete \/ (Renegotiating /\ todo \in Scripts)
      /\ ~closeNotifySent /\ ~buffering

\* No application data follows the close_notify on the wire, whether Close,
\* CloseWrite or a late flush sent it.
NoAppAfterCloseNotify == <<"close_notify", "app">> \notin order

\* No application data follows a fatal alert sent under c.out.
NoAppAfterAlert == <<"alert", "app">> \notin order

\* Nothing at all follows the close_notify (closeNotify: "Any subsequent
\* writes will fail.").
NothingAfterCloseNotify == \A k \in Kinds : <<"close_notify", k>> \notin order

\* isHandshakeComplete implies handshakeErr == nil whenever no handshake holds
\* handshakeMutex, so the lock-free exit of handshakeContext never hides an error.
CompleteImpliesNoError ==
    handshakeMutex = NoThread /\ isHandshakeComplete => ~handshakeErr

\* handshakes is zero or one without renegotiation, at most two with
\* RenegotiateOnceAsClient, however many goroutines read HelloRequests.
RenegotiationBound ==
    /\ Renegotiation = "never" \/ ~IsClient \/ IsTLS13 => handshakes <= 1
    /\ Renegotiation = "once" => handshakes <= 2

\* HandshakeContext returns the context's error only with the connection
\* closed, and leaves no interrupter behind that could close it later.
InterrupterScoped ==
    \A t \in Threads :
      /\ interrupter[t] # "none" => op[t] = "handshake"
      /\ ret[t] = "ctxErr" => net = "closed"

\* A closeNotify that reported no error has put its record on the wire, or in
\* a buffer that can still be flushed.
CloseNotifyOrError ==
    closeNotifySent /\ ~closeNotifyErr =>
      \/ "close_notify" \in wire
      \/ "close_notify" \in sendBuf /\ net = "open" /\ writeDeadline # "past"

\* After a failed handshake no alert is left in the buffer.
AlertNotStranded == handshakeErr /\ handshakeMutex = NoThread => "alert" \notin sendBuf

\* halfConn.err is permanent: no step clears the error of c.out.
OutErrSticky == [][outErr => outErr']_vars

\* Once the handshake is complete, a later cancellation of the context does
\* not close the connection.
CancelAfterCompleteHarmless ==
    \A t \in Cancellable :
      [](isHandshakeComplete /\ ~ctxDone[t] /\ net = "open" => [](net # "closed"))

\* Closing the transport, by Close, by the interrupter or under a Write, makes
\* every call in flight return.
ClosedConnUnblocks ==
    \A t \in Threads : net = "closed" /\ pc[t] # "idle" ~> pc[t] = "idle"

\* A cancelled HandshakeContext returns.
CancelReturns ==
    \A t \in Threads : ctxDone[t] /\ interrupter[t] = "waiting" ~> pc[t] = "idle"

\* Close returns, whatever the peer does (closeNotify: "Set a Write Deadline to
\* prevent possibly blocking forever.").
CloseReturns == \A t \in Threads : op[t] = "close" ~> op[t] = "none"

-----------------------------------------------------------------------------
(* The inductive invariant behind the safety properties.                   *)

\* What the buffering of every script guarantees: a flush follows a write, a
\* buffer is followed by a flush, nothing follows complete.
WellFormed(s) ==
    \A i \in 1..Len(s) :
      /\ s[i] = "complete" => i = Len(s)
      /\ s[i] = "buffer" => \E j \in 1..Len(s) : i < j /\ s[j] = "flush"
      /\ s[i] = "flush" /\ i > 1 => s[i - 1] = "write"

HasFlush(s) == \E i \in 1..Len(s) : s[i] = "flush"

Running == {"hs_run", "hs_write", "hs_flush", "hs_fail"} \cup AlertLabels

\* The recorded outcome of the handshakes, with handshakeMutex free and at each
\* place its owner can be.
OutcomeInv ==
    /\ handshakeMutex = NoThread =>
         /\ isHandshakeComplete => ~handshakeErr /\ handshakes > 0
         /\ handshakes > 0 => isHandshakeComplete \/ handshakeErr
    /\ \A t \in Threads :
         /\ pc[t] = "hs_in_lock" =>
              ~isHandshakeComplete /\ ~handshakeErr /\ handshakes = 0
         /\ handshakeMutex = t /\ pc[t] \in Running => ~isHandshakeComplete
         /\ pc[t] = "hs_done" => isHandshakeComplete
         /\ pc[t] = "hs_fail_flush" => ~isHandshakeComplete /\ handshakeErr /\ handshakes = 0

\* A goroutine that got past its handshake knows that one has succeeded, and
\* only a client that may renegotiate does so.
PastHandshakeInv ==
    \A t \in Threads :
      /\ pc[t] \in {"rd_lock", "wr_lock"} => isHandshakeComplete \/ handshakes > 0
      /\ pc[t] \in {"rd_loop", "rn_lock", "ku_lock", "ku_net"} => handshakes > 0
      /\ pc[t] = "hs_exit" /\ ret[t] = "nil" => handshakes > 0
      /\ pc[t] = "rn_lock" \/ (handshakeMutex = t /\ handshakes > 0) =>
           MayRenegotiate /\ ~IsTLS13

\* Buffering ends before the handshake is complete.
BufferInv ==
    /\ WellFormed(todo)
    /\ isHandshakeComplete => ~buffering
    /\ \A t \in Threads : buffering =>
         /\ pc[t] \in {"hs_run", "hs_write"} => HasFlush(todo)
         /\ pc[t] = "hs_run" /\ todo # <<>> /\ Head(todo) = "flush" => sendBuf # {}

\* AppDataInPhase, with the place of the renegotiation that a Write may meet.
WriteInv ==
    \A t \in Threads : pc[t] = "wr_net" =>
      /\ ~closeNotifySent /\ ~buffering
      /\ \/ isHandshakeComplete
         \/ /\ Renegotiating /\ todo \in Scripts
            /\ \E u \in Threads : handshakeMutex = u /\ pc[u] = "hs_run"

\* Where the close_notify is, and that application data is never buffered.
CloseNotifyInv ==
    /\ "app" \notin sendBuf \cup flushBuf
    /\ "close_notify" \in wire \cup sendBuf \cup flushBuf =>
         closeNotifySent \/ \E t \in Threads : pc[t] = "cn_done"
    /\ NoAppAfterCloseNotify

IInv ==
    /\ TypeOK /\ MutexOwners /\ OutcomeInv /\ PastHandshakeInv /\ RenegotiationBound
    /\ BufferInv /\ WriteInv /\ CloseNotifyInv

\* Without oversized handshake messages c.out.err is always set under c.out.
OutErrInv ==
    /\ \A t \in Threads : pc[t] # "ov_net" /\ (pc[t] = "wr_net" => ~outErr)
    /\ "alert" \in wire \cup sendBuf \cup flushBuf => outErr
    /\ NoAppAfterAlert
=============================================================================
