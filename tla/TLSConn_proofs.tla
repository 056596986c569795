-------------------------- MODULE TLSConn_proofs --------------------------
(***************************************************************************)
(* Proofs of type correctness and of the safety properties of TLSConn, for *)
(* any set of goroutines, any assignment of API calls to them and any      *)
(* bounds.  The invariant IInv is proved conjunct by conjunct: one lemma   *)
(* per conjunct or group of variables, one step per family of actions, or  *)
(* per action where the argument differs.                                  *)
(***************************************************************************)
EXTENDS TLSConn, TLAPS

-----------------------------------------------------------------------------
(* Facts about the scripts and the writes.                                 *)

\* What the proofs use of the scripts; checked script by script.
LEMMA ScriptFacts ==
    ASSUME NEW s \in Scripts
    PROVE  /\ s \in Seq(Steps) /\ s # <<>>
           /\ WellFormed(s) /\ HasFlush(s)
           /\ Head(s) # "flush"
           /\ IsClient => Head(s) = "write"
<1> USE DEF Steps, WellFormed, HasFlush
<1>1. CASE s = <<"write", "read", "buffer", "write", "read", "write", "flush", "complete">>
  BY <1>1
<1>2. CASE s = <<"write", "read", "write", "read", "buffer", "read", "write", "flush", "complete">>
  BY <1>2
<1>3. CASE s = <<"read", "buffer", "write", "flush", "read", "write", "complete">> /\ ~IsClient
  BY <1>3
<1>4. CASE s = <<"read", "write", "read", "buffer", "write", "flush", "read", "complete">> /\ ~IsClient
  BY <1>4
<1>5. CASE s = <<"write", "read", "buffer", "read", "write", "flush", "read", "complete">>
  BY <1>5
<1>6. CASE s = <<"write", "read", "buffer", "read", "write", "flush", "complete">>
  BY <1>6
<1>7. CASE s = <<"read", "buffer", "write", "flush", "read", "buffer", "write", "flush",
           "complete">> /\ ~IsClient
  BY <1>7
<1>8. CASE s = <<"read", "buffer", "write", "flush", "read", "complete">> /\ ~IsClient
  BY <1>8
<1> QED
  BY RoleAssumption, <1>1, <1>2, <1>3, <1>4, <1>5, <1>6, <1>7, <1>8, Zenon
     DEF Scripts, ClientScripts13, ServerScripts13, ClientScripts12, ServerScripts12

\* What one step of a script leaves of its guarantees.
LEMMA TailFacts ==
    ASSUME NEW s \in Seq(Steps), s # <<>>, WellFormed(s)
    PROVE  /\ Tail(s) \in Seq(Steps)
           /\ WellFormed(Tail(s))
           /\ HasFlush(s) /\ Head(s) # "flush" => HasFlush(Tail(s))
           /\ Head(s) = "buffer" => HasFlush(Tail(s))
           /\ Head(s) = "complete" => ~HasFlush(s)
           /\ Tail(s) # <<>> /\ Head(Tail(s)) = "flush" => Head(s) = "write"
<1> DEFINE n == Len(s)
<1>1. /\ Tail(s) \in Seq(Steps) /\ n \in Nat /\ n > 0
      /\ Len(Tail(s)) = n - 1 /\ Head(s) = s[1]
  OBVIOUS
<1>2. \A i \in 1..(n - 1) : Tail(s)[i] = s[i + 1]
  BY <1>1
<1>3. \A i \in 1..n : s[i] = "complete" => i = n
  BY Zenon DEF WellFormed
<1>4. \A i \in 1..n : s[i] = "buffer" => \E j \in 1..n : i < j /\ s[j] = "flush"
  BY Zenon DEF WellFormed
<1>5. \A i \in 1..n : s[i] = "flush" /\ i > 1 => s[i - 1] = "write"
  BY Zenon DEF WellFormed
<1> HIDE DEF n
<1>6. WellFormed(Tail(s))
  <2> SUFFICES ASSUME NEW i \in 1..(n - 1)
               PROVE  /\ s[i + 1] = "complete" => i = n - 1
                      /\ s[i + 1] = "buffer" =>
                           \E j \in 1..(n - 1) : i < j /\ s[j + 1] = "flush"
                      /\ s[i + 1] = "flush" /\ i > 1 => s[i] = "write"
    <3>1. \A i \in 1..(n - 1) : i > 1 => i - 1 \in 1..(n - 1) /\ Tail(s)[i - 1] = s[i]
      BY <1>1, <1>2
    <3> QED BY <1>1, <1>2, <3>1 DEF WellFormed
  <2>1. i + 1 \in 1..n /\ (i + 1) - 1 = i /\ i + 1 > 1
    BY <1>1
  <2>2. ASSUME s[i + 1] = "buffer"
        PROVE  \E j \in 1..(n - 1) : i < j /\ s[j + 1] = "flush"
    <3>1. PICK k \in 1..n : i + 1 < k /\ s[k] = "flush"
      BY <1>4, <2>1, <2>2, Zenon
    <3>2. k - 1 \in 1..(n - 1) /\ i < k - 1 /\ s[(k - 1) + 1] = "flush"
      BY <3>1, <1>1
    <3> QED BY <3>2, Zenon
  <2> QED BY <1>1, <1>3, <1>5, <2>1, <2>2, Zenon
<1>7. HasFlush(s) /\ Head(s) # "flush" => HasFlush(Tail(s))
  BY <1>1, <1>2 DEF HasFlush, n
<1>8. ASSUME Head(s) = "buffer" PROVE HasFlush(Tail(s))
  <2>1. HasFlush(s)
    BY <1>1, <1>4, <1>8 DEF HasFlush, n
  <2> QED BY <2>1, <1>7, <1>8, Zenon
<1>9. ASSUME Head(s) = "complete" PROVE ~HasFlush(s)
  <2>1. 1 \in 1..n
    BY <1>1
  <2>2. n = 1
    BY <1>1, <1>3, <1>9, <2>1, Zenon
  <2> QED BY <1>1, <1>9, <2>2 DEF HasFlush, n
<1>10. ASSUME Tail(s) # <<>>, Head(Tail(s)) = "flush" PROVE Head(s) = "write"
  <2>1. 2 \in 1..n /\ s[2] = "flush"
    BY <1>1, <1>2, <1>10
  <2>2. 2 > 1 /\ 2 - 1 = 1
    OBVIOUS
  <2> QED BY <1>1, <1>5, <2>1, <2>2, Zenon
<1> QED BY <1>1, <1>6, <1>7, <1>8, <1>9, <1>10, Zenon

\* A record put in the buffer or on the wire keeps both well typed.
LEMMA WriteRecordType ==
    ASSUME RecordTypeOK, NEW k \in Kinds, NEW b \in BOOLEAN, WriteRecord(k, b)
    PROVE  sendBuf' \subseteq Kinds /\ wire' \subseteq Kinds /\ order' \subseteq Kinds \X Kinds
  BY DEF RecordTypeOK, WriteRecord, Emit, NetWrite, wireVars

\* So does a flush.
LEMMA FlushNetType ==
    ASSUME RecordTypeOK, NEW b \in BOOLEAN, FlushNet(b)
    PROVE  wire' \subseteq Kinds /\ order' \subseteq Kinds \X Kinds
  BY DEF RecordTypeOK, FlushNet, Emit, wireVars

\* The kinds by name.
LEMMA KindNames == Kinds = {"hs", "app", "alert", "close_notify"}
  BY Zenon DEF Kinds

\* A pair of a product.
LEMMA InProduct ==
  ASSUME NEW S, NEW T, NEW x, NEW y, <<x, y>> \in S \X T
  PROVE  x \in S
OBVIOUS

-----------------------------------------------------------------------------
(* The groups of variables.                                                *)

\* Every label, call and result a step assigns is a known one.
LEMMA GoroutineTypeStep ==
    ASSUME GoroutineTypeOK, Next
    PROVE  GoroutineTypeOK'
<1> USE DEF GoroutineTypeOK, Labels, AllOps, Results, goVars
<1>1. ASSUME NEW t \in Threads, Calls(t) PROVE GoroutineTypeOK'
  <2>1. CASE CallHandshake(t)
    BY <2>1, Zenon DEF CallHandshake, Call, Enter, At
  <2>2. CASE CallWrite(t)
    BY <2>2, ZenonT(60) DEF CallWrite, Call, Return, Enter, At
  <2>3. CASE CallRead(t)
    BY <2>3, Zenon DEF CallRead, Call, Enter, At
  <2>4. CASE CallClose(t)
    BY <2>4, ZenonT(60) DEF CallClose, Call, Return, Enter, At
  <2>5. CASE CallCloseWrite(t)
    BY <2>5, Zenon DEF CallCloseWrite, Call, Enter, At
  <2>6. CASE SetWriteDeadline(t)
    BY <2>6, Zenon DEF SetWriteDeadline, Call, Return, At
  <2> QED
    BY <1>1, <2>1, <2>2, <2>3, <2>4, <2>5, <2>6, Zenon DEF Calls
<1>2. ASSUME NEW t \in Threads, Handshaking(t) PROVE GoroutineTypeOK'
  BY <1>2, ZenonT(60)
     DEF Handshaking, HandshakeEnter, AfterHandshake, Goto, Return, At, HandshakeLock,
        HandshakeInLock, HandshakeExit, HandshakeWait
<1>3. ASSUME NEW t \in Threads, Scripted(t) PROVE GoroutineTypeOK'
  BY <1>3, ZenonT(60)
     DEF Scripted, HsWrite, AtScript, Goto, At, HsBuffer, HsFlush, HsComplete, HsDone,
        Renegotiating, HsFail, Return
<1>4. ASSUME NEW t \in Threads, Locking(t) PROVE GoroutineTypeOK'
  BY <1>4, ZenonT(60)
     DEF Locking, WriteLock, Goto, Return, At, ReadLock, KeyUpdateLock, RenegotiateLock,
        AlertLock
<1>5. ASSUME NEW t \in Threads, Closing(t) PROVE GoroutineTypeOK'
  BY <1>5, ZenonT(60)
     DEF Closing, CloseCheck, Goto, Return, At, CloseNotifyLock, CloseNotifyDone, CloseNet
<1>6. ASSUME NEW t \in Threads, Interrupter(t) PROVE GoroutineTypeOK'
  BY <1>6, Zenon
     DEF Interrupter, InterrupterCancelled, At, InterrupterDone
<1>7. ASSUME NEW t \in Threads, Receives(t) PROVE GoroutineTypeOK'
  BY <1>7, ZenonT(60)
     DEF Receives, HsRead, AtScript, At, HsReadBad, Goto, HsAbort, Renegotiating, ReadApp,
        Receive, Return, ReadPeerAlert, ReadBad, ReadOversize, ReadKeyUpdate,
        ReadHelloRequest, MayRenegotiate
<1>8. ASSUME NEW t \in Threads, Cancel(t) PROVE GoroutineTypeOK'
  BY <1>8, Zenon
     DEF Cancel, At
<1>9. ASSUME NEW t \in Threads, NEW b \in BOOLEAN, Writes(t, b) PROVE GoroutineTypeOK'
  BY <1>9, ZenonT(60)
     DEF Writes, HsWriteNet, WriteRecord, NetWrite, Emit, Goto, At, WriteNet, Return,
        KeyUpdateNet, AlertNet, SendAlertLocked, AfterAlert, OversizeAlertNet,
        CloseNotifyNet
<1>10. ASSUME NEW t \in Threads, NEW b \in BOOLEAN, Flushes(t, b) PROVE GoroutineTypeOK'
  BY <1>10, Zenon
     DEF Flushes, HsFlushNet, FlushNet, NetWrite, Emit, Goto, At, HsFailFlushNet
<1>11. ASSUME NEW t \in Threads, NEW b \in BOOLEAN, ReadFails(t, b) PROVE GoroutineTypeOK'
  BY <1>11, Zenon
     DEF ReadFails, ReadFail, Return, At, HsReadFail, AtScript, Goto
<1>12. CASE NetBreak
  BY <1>12, Zenon DEF NetBreak
<1> HIDE DEF GoroutineTypeOK, Labels, AllOps, Results, goVars
<1> QED
  BY <1>1, <1>2, <1>3, <1>4, <1>5, <1>6, <1>7, <1>8, <1>9, <1>10, <1>11, <1>12, Zenon
     DEF Next, Local, Calls, Handshaking, Scripted, Locking, Closing, Interrupter, Receives,
         Writes, Flushes, ReadFails

\* The interrupters, contexts and bounds stay typed; no bound goes below zero.
LEMMA ContextTypeStep ==
    ASSUME ContextTypeOK, Next
    PROVE  ContextTypeOK'
<1> USE DEF ContextTypeOK, ctxVars, envVars
<1>1. ASSUME NEW t \in Threads, CallHandshake(t) PROVE ContextTypeOK'
  BY <1>1
     DEF CallHandshake, Call, Enter, At
<1>2. ASSUME NEW t \in Threads, CallWrite(t) PROVE ContextTypeOK'
  BY <1>2
     DEF CallWrite, Call, Enter, Return, At
<1>3. ASSUME NEW t \in Threads, CallRead(t) PROVE ContextTypeOK'
  BY <1>3
     DEF CallRead, Call, Enter, At
<1>4. ASSUME NEW t \in Threads,
           CallClose(t) \/ CallCloseWrite(t) \/ SetWriteDeadline(t)
     PROVE ContextTypeOK'
  BY <1>4
     DEF CallClose, Call, Enter, Return, At, CallCloseWrite, SetWriteDeadline
<1>5. ASSUME NEW t \in Threads, Handshaking(t) PROVE ContextTypeOK'
  BY <1>5, Zenon
     DEF Handshaking, HandshakeEnter, AfterHandshake, Goto, Return, At, HandshakeLock,
        HandshakeInLock, HandshakeExit, HandshakeWait
<1>6. ASSUME NEW t \in Threads, Scripted(t) PROVE ContextTypeOK'
  BY <1>6, Zenon
     DEF Scripted, HsWrite, AtScript, Goto, At, HsBuffer, HsFlush, HsComplete, HsDone,
        Renegotiating, HsFail, Return
<1>7. ASSUME NEW t \in Threads, Locking(t) PROVE ContextTypeOK'
  BY <1>7, Zenon
     DEF Locking, WriteLock, Goto, Return, At, ReadLock, KeyUpdateLock, RenegotiateLock,
        AlertLock
<1>8. ASSUME NEW t \in Threads, Closing(t) PROVE ContextTypeOK'
  BY <1>8, Zenon
     DEF Closing, CloseCheck, Goto, Return, At, CloseNotifyLock, CloseNotifyDone, CloseNet
<1>9. ASSUME NEW t \in Threads, Interrupter(t) PROVE ContextTypeOK'
  BY <1>9, Zenon
     DEF Interrupter, InterrupterCancelled, At, InterrupterDone
<1>10. ASSUME NEW t \in Threads, Receives(t) PROVE ContextTypeOK'
  <2>1. ASSUME HsRead(t) \/ HsReadBad(t) \/ HsAbort(t) PROVE ContextTypeOK'
    BY <2>1, Zenon DEF HsRead, AtScript, At, HsReadBad, Goto, HsAbort, Renegotiating
  <2>2. ASSUME ReadApp(t) \/ ReadPeerAlert(t) \/ ReadBad(t) PROVE ContextTypeOK'
    BY <2>2 DEF ReadApp, Receive, Return, ReadPeerAlert, ReadBad, At, Goto
  <2>3. ASSUME ReadOversize(t) \/ ReadKeyUpdate(t) \/ ReadHelloRequest(t) PROVE ContextTypeOK'
    BY <2>3 DEF ReadOversize, ReadKeyUpdate, ReadHelloRequest, Receive, At, Goto, Return
  <2> QED
    BY <1>10, <2>1, <2>2, <2>3, Zenon DEF Receives
<1>11. ASSUME NEW t \in Threads, Cancel(t) PROVE ContextTypeOK'
  BY <1>11, Zenon
     DEF Cancel, At
<1>12. ASSUME NEW t \in Threads, NEW b \in BOOLEAN, Writes(t, b) PROVE ContextTypeOK'
  BY <1>12, Zenon
     DEF Writes, HsWriteNet, WriteRecord, NetWrite, Emit, Goto, At, WriteNet, Return,
        KeyUpdateNet, AlertNet, SendAlertLocked, AfterAlert, OversizeAlertNet,
        CloseNotifyNet
<1>13. ASSUME NEW t \in Threads, NEW b \in BOOLEAN, Flushes(t, b) PROVE ContextTypeOK'
  BY <1>13, Zenon
     DEF Flushes, HsFlushNet, FlushNet, NetWrite, Emit, Goto, At, HsFailFlushNet
<1>14. ASSUME NEW t \in Threads, NEW b \in BOOLEAN, ReadFails(t, b) PROVE ContextTypeOK'
  BY <1>14, Zenon
     DEF ReadFails, ReadFail, Return, At, HsReadFail, AtScript, Goto
<1>15. CASE NetBreak
  BY <1>15, Zenon DEF NetBreak
<1> HIDE DEF ContextTypeOK, ctxVars, envVars
<1> QED
  BY <1>1, <1>2, <1>3, <1>4, <1>5, <1>6, <1>7, <1>8, <1>9, <1>10, <1>11, <1>12, <1>13,
        <1>14, <1>15, Zenon
     DEF Next, Local, Calls, Handshaking, Scripted, Locking, Closing, Interrupter, Receives,
         Writes, Flushes, ReadFails

\* The script and the owners of the mutexes stay typed.
LEMMA HandshakeTypeStep ==
    ASSUME HandshakeTypeOK, Next
    PROVE  HandshakeTypeOK'
<1> USE DEF HandshakeTypeOK, hsVars, locks
<1>1. ASSUME NEW t \in Threads, Calls(t) PROVE HandshakeTypeOK'
  BY <1>1, ScriptFacts, Zenon
     DEF Calls, CallHandshake, Call, Enter, At, CallWrite, Return, CallRead, CallClose,
        CallCloseWrite, SetWriteDeadline
<1>2. ASSUME NEW t \in Threads, Handshaking(t) PROVE HandshakeTypeOK'
  BY <1>2, ScriptFacts, Zenon
     DEF Handshaking, HandshakeEnter, AfterHandshake, Goto, Return, At, HandshakeLock,
        HandshakeInLock, HandshakeExit, HandshakeWait
<1>3. ASSUME NEW t \in Threads, HsWrite(t) \/ HsBuffer(t) \/ HsFlush(t) PROVE HandshakeTypeOK'
  <2>1. CASE HsWrite(t)
    BY <2>1, ScriptFacts DEF HsWrite, AtScript, Goto, At
  <2>2. CASE HsBuffer(t)
    BY <2>2, ScriptFacts DEF HsBuffer, AtScript, At
  <2>3. CASE HsFlush(t)
    BY <2>3, ScriptFacts DEF HsFlush, AtScript, Goto, At
  <2> QED
    BY <1>3, <2>1, <2>2, <2>3, Zenon
<1>4. ASSUME NEW t \in Threads, HsComplete(t) PROVE HandshakeTypeOK'
  BY <1>4, ScriptFacts
     DEF HsComplete, AtScript, Goto, At
<1>5. ASSUME NEW t \in Threads, HsDone(t) PROVE HandshakeTypeOK'
  BY <1>5, ScriptFacts
     DEF HsDone, Goto, Renegotiating, At
<1>6. ASSUME NEW t \in Threads, HsFail(t) PROVE HandshakeTypeOK'
  BY <1>6, ScriptFacts
     DEF HsFail, Goto, Return, Renegotiating, At
<1>7. ASSUME NEW t \in Threads, Locking(t) PROVE HandshakeTypeOK'
  BY <1>7, ScriptFacts, Zenon
     DEF Locking, WriteLock, Goto, Return, At, ReadLock, KeyUpdateLock, RenegotiateLock,
        AlertLock
<1>8. ASSUME NEW t \in Threads, Closing(t) PROVE HandshakeTypeOK'
  BY <1>8, ScriptFacts, Zenon
     DEF Closing, CloseCheck, Goto, Return, At, CloseNotifyLock, CloseNotifyDone, CloseNet
<1>9. ASSUME NEW t \in Threads, Interrupter(t) PROVE HandshakeTypeOK'
  BY <1>9, ScriptFacts, Zenon
     DEF Interrupter, InterrupterCancelled, At, InterrupterDone
<1>10. ASSUME NEW t \in Threads,
           HsRead(t) \/ HsReadBad(t) \/ HsAbort(t) \/ ReadApp(t) \/ ReadPeerAlert(t)
     PROVE HandshakeTypeOK'
  <2>1. CASE HsRead(t)
    BY <2>1, ScriptFacts DEF HsRead, AtScript, At
  <2>2. CASE HsReadBad(t)
    BY <2>2, ScriptFacts DEF HsReadBad, AtScript, Goto, At
  <2>3. CASE HsAbort(t)
    BY <2>3, ScriptFacts, Zenon DEF HsAbort, At, Renegotiating, Goto
  <2>4. CASE ReadApp(t)
    BY <2>4, ScriptFacts, Zenon DEF ReadApp, Receive, Return, At
  <2>5. CASE ReadPeerAlert(t)
    BY <2>5, ScriptFacts, Zenon DEF ReadPeerAlert, Receive, Return, At
  <2> QED
    BY <1>10, <2>1, <2>2, <2>3, <2>4, <2>5, Zenon
<1>11. ASSUME NEW t \in Threads,
           ReadBad(t) \/ ReadOversize(t) \/ ReadKeyUpdate(t) \/ ReadHelloRequest(t)
     PROVE HandshakeTypeOK'
  BY <1>11, ScriptFacts, Zenon
     DEF ReadBad, Receive, Goto, At, ReadOversize, ReadKeyUpdate, ReadHelloRequest,
        MayRenegotiate
<1>12. ASSUME NEW t \in Threads, Cancel(t) PROVE HandshakeTypeOK'
  BY <1>12, ScriptFacts, Zenon
     DEF Cancel, At
<1>13. ASSUME NEW t \in Threads, NEW b \in BOOLEAN,
           HsWriteNet(t, b) \/ WriteNet(t, b) \/ KeyUpdateNet(t, b)
     PROVE HandshakeTypeOK'
  BY <1>13, ScriptFacts, Zenon
     DEF HsWriteNet, WriteRecord, NetWrite, Emit, Goto, At, WriteNet, Return, KeyUpdateNet
<1>14. ASSUME NEW t \in Threads, NEW b \in BOOLEAN,
           AlertNet(t, b) \/ OversizeAlertNet(t, b) \/ CloseNotifyNet(t, b)
     PROVE HandshakeTypeOK'
  BY <1>14, ScriptFacts, Zenon
     DEF AlertNet, SendAlertLocked, WriteRecord, NetWrite, Emit, AfterAlert, Goto, Return,
        At, OversizeAlertNet, CloseNotifyNet
<1>15. ASSUME NEW t \in Threads, NEW b \in BOOLEAN, Flushes(t, b) PROVE HandshakeTypeOK'
  BY <1>15, ScriptFacts, Zenon
     DEF Flushes, HsFlushNet, FlushNet, NetWrite, Emit, Goto, At, HsFailFlushNet
<1>16. ASSUME NEW t \in Threads, NEW b \in BOOLEAN, ReadFail(t, b) PROVE HandshakeTypeOK'
  BY <1>16, ScriptFacts, Zenon
     DEF ReadFail, Return, At
<1>17. ASSUME NEW t \in Threads, NEW b \in BOOLEAN, HsReadFail(t, b) PROVE HandshakeTypeOK'
  BY <1>17, ScriptFacts
     DEF HsReadFail, AtScript, Goto, At
<1>18. CASE NetBreak
  BY <1>18, Zenon DEF NetBreak
<1> HIDE DEF HandshakeTypeOK, hsVars, locks
<1> QED
  BY <1>1, <1>2, <1>3, <1>4, <1>5, <1>6, <1>7, <1>8, <1>9, <1>10, <1>11, <1>12, <1>13,
        <1>14, <1>15, <1>16, <1>17, <1>18, Zenon
     DEF Next, Local, Calls, Handshaking, Scripted, Locking, Closing, Interrupter, Receives,
         Writes, Flushes, ReadFails

\* The flags of the handshake and of the half connections are Booleans.
LEMMA FlagsTypeStep ==
    ASSUME FlagsTypeOK, Next
    PROVE  FlagsTypeOK'
<1> USE DEF FlagsTypeOK, hsVars, recVars
<1>1. ASSUME NEW t \in Threads, Calls(t) PROVE FlagsTypeOK'
  BY <1>1, Zenon
     DEF Calls, CallHandshake, Call, Enter, At, CallWrite, Return, CallRead, CallClose,
        CallCloseWrite, SetWriteDeadline
<1>2. ASSUME NEW t \in Threads, Handshaking(t) PROVE FlagsTypeOK'
  BY <1>2, Zenon
     DEF Handshaking, HandshakeEnter, AfterHandshake, Goto, Return, At, HandshakeLock,
        HandshakeInLock, HandshakeExit, HandshakeWait
<1>3. ASSUME NEW t \in Threads, Scripted(t) PROVE FlagsTypeOK'
  BY <1>3, Zenon
     DEF Scripted, HsWrite, AtScript, Goto, At, HsBuffer, HsFlush, HsComplete, HsDone,
        Renegotiating, HsFail, Return
<1>4. ASSUME NEW t \in Threads, Locking(t) PROVE FlagsTypeOK'
  BY <1>4, Zenon
     DEF Locking, WriteLock, Goto, Return, At, ReadLock, KeyUpdateLock, RenegotiateLock,
        AlertLock
<1>5. ASSUME NEW t \in Threads, Closing(t) PROVE FlagsTypeOK'
  BY <1>5, Zenon
     DEF Closing, CloseCheck, Goto, Return, At, CloseNotifyLock, CloseNotifyDone, CloseNet
<1>6. ASSUME NEW t \in Threads, Interrupter(t) PROVE FlagsTypeOK'
  BY <1>6, Zenon
     DEF Interrupter, InterrupterCancelled, At, InterrupterDone
<1>7. ASSUME NEW t \in Threads, Receives(t) PROVE FlagsTypeOK'
  BY <1>7, Zenon
     DEF Receives, HsRead, AtScript, At, HsReadBad, Goto, HsAbort, Renegotiating, ReadApp,
        Receive, Return, ReadPeerAlert, ReadBad, ReadOversize, ReadKeyUpdate,
        ReadHelloRequest, MayRenegotiate
<1>8. ASSUME NEW t \in Threads, Cancel(t) PROVE FlagsTypeOK'
  BY <1>8, Zenon
     DEF Cancel, At
<1>9. ASSUME NEW t \in Threads, NEW b \in BOOLEAN, Writes(t, b) PROVE FlagsTypeOK'
  BY <1>9, Zenon
     DEF Writes, HsWriteNet, WriteRecord, NetWrite, Emit, Goto, At, WriteNet, Return,
        KeyUpdateNet, AlertNet, SendAlertLocked, AfterAlert, OversizeAlertNet,
        CloseNotifyNet
<1>10. ASSUME NEW t \in Threads, NEW b \in BOOLEAN, Flushes(t, b) PROVE FlagsTypeOK'
  BY <1>10, Zenon
     DEF Flushes, HsFlushNet, FlushNet, NetWrite, Emit, Goto, At, HsFailFlushNet
<1>11. ASSUME NEW t \in Threads, NEW b \in BOOLEAN, ReadFails(t, b) PROVE FlagsTypeOK'
  BY <1>11, Zenon
     DEF ReadFails, ReadFail, Return, At, HsReadFail, AtScript, Goto
<1>12. CASE NetBreak
  BY <1>12, Zenon DEF NetBreak
<1> HIDE DEF FlagsTypeOK, hsVars, recVars
<1> QED
  BY <1>1, <1>2, <1>3, <1>4, <1>5, <1>6, <1>7, <1>8, <1>9, <1>10, <1>11, <1>12, Zenon
     DEF Next, Local, Calls, Handshaking, Scripted, Locking, Closing, Interrupter, Receives,
         Writes, Flushes, ReadFails

\* So are the ones of Close.
LEMMA CloseTypeStep ==
    ASSUME CloseTypeOK, Next
    PROVE  CloseTypeOK'
<1> USE DEF CloseTypeOK, closeVars
<1>1. ASSUME NEW t \in Threads, Calls(t) PROVE CloseTypeOK'
  BY <1>1, Zenon
     DEF Calls, CallHandshake, Call, Enter, At, CallWrite, Return, CallRead, CallClose,
        CallCloseWrite, SetWriteDeadline
<1>2. ASSUME NEW t \in Threads, Handshaking(t) PROVE CloseTypeOK'
  BY <1>2, Zenon
     DEF Handshaking, HandshakeEnter, AfterHandshake, Goto, Return, At, HandshakeLock,
        HandshakeInLock, HandshakeExit, HandshakeWait
<1>3. ASSUME NEW t \in Threads, Scripted(t) PROVE CloseTypeOK'
  BY <1>3, Zenon
     DEF Scripted, HsWrite, AtScript, Goto, At, HsBuffer, HsFlush, HsComplete, HsDone,
        Renegotiating, HsFail, Return
<1>4. ASSUME NEW t \in Threads, Locking(t) PROVE CloseTypeOK'
  BY <1>4, Zenon
     DEF Locking, WriteLock, Goto, Return, At, ReadLock, KeyUpdateLock, RenegotiateLock,
        AlertLock
<1>5. ASSUME NEW t \in Threads, Closing(t) PROVE CloseTypeOK'
  BY <1>5, Zenon
     DEF Closing, CloseCheck, Goto, Return, At, CloseNotifyLock, CloseNotifyDone, CloseNet
<1>6. ASSUME NEW t \in Threads, Interrupter(t) PROVE CloseTypeOK'
  BY <1>6, Zenon
     DEF Interrupter, InterrupterCancelled, At, InterrupterDone
<1>7. ASSUME NEW t \in Threads, Receives(t) PROVE CloseTypeOK'
  BY <1>7, Zenon
     DEF Receives, HsRead, AtScript, At, HsReadBad, Goto, HsAbort, Renegotiating, ReadApp,
        Receive, Return, ReadPeerAlert, ReadBad, ReadOversize, ReadKeyUpdate,
        ReadHelloRequest, MayRenegotiate
<1>8. ASSUME NEW t \in Threads, Cancel(t) PROVE CloseTypeOK'
  BY <1>8, Zenon
     DEF Cancel, At
<1>9. ASSUME NEW t \in Threads, NEW b \in BOOLEAN, Writes(t, b) PROVE CloseTypeOK'
  BY <1>9, Zenon
     DEF Writes, HsWriteNet, WriteRecord, NetWrite, Emit, Goto, At, WriteNet, Return,
        KeyUpdateNet, AlertNet, SendAlertLocked, AfterAlert, OversizeAlertNet,
        CloseNotifyNet
<1>10. ASSUME NEW t \in Threads, NEW b \in BOOLEAN, Flushes(t, b) PROVE CloseTypeOK'
  BY <1>10, Zenon
     DEF Flushes, HsFlushNet, FlushNet, NetWrite, Emit, Goto, At, HsFailFlushNet
<1>11. ASSUME NEW t \in Threads, NEW b \in BOOLEAN, ReadFails(t, b) PROVE CloseTypeOK'
  BY <1>11, Zenon
     DEF ReadFails, ReadFail, Return, At, HsReadFail, AtScript, Goto
<1>12. CASE NetBreak
  BY <1>12, Zenon DEF NetBreak
<1> HIDE DEF CloseTypeOK, closeVars
<1> QED
  BY <1>1, <1>2, <1>3, <1>4, <1>5, <1>6, <1>7, <1>8, <1>9, <1>10, <1>11, <1>12, Zenon
     DEF Next, Local, Calls, Handshaking, Scripted, Locking, Closing, Interrupter, Receives,
         Writes, Flushes, ReadFails

\* The transport is in a known state.
LEMMA NetTypeStep ==
    ASSUME NetTypeOK, Next
    PROVE  NetTypeOK'
<1> USE DEF NetTypeOK, netVars
<1>1. ASSUME NEW t \in Threads, Calls(t) PROVE NetTypeOK'
  BY <1>1, Zenon
     DEF Calls, CallHandshake, Call, Enter, At, CallWrite, Return, CallRead, CallClose,
        CallCloseWrite, SetWriteDeadline
<1>2. ASSUME NEW t \in Threads, Handshaking(t) PROVE NetTypeOK'
  BY <1>2, Zenon
     DEF Handshaking, HandshakeEnter, AfterHandshake, Goto, Return, At, HandshakeLock,
        HandshakeInLock, HandshakeExit, HandshakeWait
<1>3. ASSUME NEW t \in Threads, Scripted(t) PROVE NetTypeOK'
  BY <1>3, Zenon
     DEF Scripted, HsWrite, AtScript, Goto, At, HsBuffer, HsFlush, HsComplete, HsDone,
        Renegotiating, HsFail, Return
<1>4. ASSUME NEW t \in Threads, Locking(t) PROVE NetTypeOK'
  BY <1>4, Zenon
     DEF Locking, WriteLock, Goto, Return, At, ReadLock, KeyUpdateLock, RenegotiateLock,
        AlertLock
<1>5. ASSUME NEW t \in Threads, Closing(t) PROVE NetTypeOK'
  BY <1>5, Zenon
     DEF Closing, CloseCheck, Goto, Return, At, CloseNotifyLock, CloseNotifyDone, CloseNet
<1>6. ASSUME NEW t \in Threads, Interrupter(t) PROVE NetTypeOK'
  BY <1>6, Zenon
     DEF Interrupter, InterrupterCancelled, At, InterrupterDone
<1>7. ASSUME NEW t \in Threads, Receives(t) PROVE NetTypeOK'
  BY <1>7, Zenon
     DEF Receives, HsRead, AtScript, At, HsReadBad, Goto, HsAbort, Renegotiating, ReadApp,
        Receive, Return, ReadPeerAlert, ReadBad, ReadOversize, ReadKeyUpdate,
        ReadHelloRequest, MayRenegotiate
<1>8. ASSUME NEW t \in Threads, Cancel(t) PROVE NetTypeOK'
  BY <1>8, Zenon
     DEF Cancel, At
<1>9. ASSUME NEW t \in Threads, NEW b \in BOOLEAN, Writes(t, b) PROVE NetTypeOK'
  BY <1>9, Zenon
     DEF Writes, HsWriteNet, WriteRecord, NetWrite, Emit, Goto, At, WriteNet, Return,
        KeyUpdateNet, AlertNet, SendAlertLocked, AfterAlert, OversizeAlertNet,
        CloseNotifyNet
<1>10. ASSUME NEW t \in Threads, NEW b \in BOOLEAN, Flushes(t, b) PROVE NetTypeOK'
  BY <1>10, Zenon
     DEF Flushes, HsFlushNet, FlushNet, NetWrite, Emit, Goto, At, HsFailFlushNet
<1>11. ASSUME NEW t \in Threads, NEW b \in BOOLEAN, ReadFails(t, b) PROVE NetTypeOK'
  BY <1>11, Zenon
     DEF ReadFails, ReadFail, Return, At, HsReadFail, AtScript, Goto
<1>12. CASE NetBreak
  BY <1>12, Zenon DEF NetBreak
<1> HIDE DEF NetTypeOK, netVars
<1> QED
  BY <1>1, <1>2, <1>3, <1>4, <1>5, <1>6, <1>7, <1>8, <1>9, <1>10, <1>11, <1>12, Zenon
     DEF Next, Local, Calls, Handshaking, Scripted, Locking, Closing, Interrupter, Receives,
         Writes, Flushes, ReadFails

\* Only records of a known kind are buffered or written.
LEMMA RecordTypeStep ==
    ASSUME RecordTypeOK, Next
    PROVE  RecordTypeOK'
<1> USE DEF RecordTypeOK, recVars, wireVars
<1>1. ASSUME NEW t \in Threads, Calls(t) PROVE RecordTypeOK'
  BY <1>1, WriteRecordType, FlushNetType, KindNames, Zenon
     DEF Calls, CallHandshake, Call, Enter, At, CallWrite, Return, CallRead, CallClose,
        CallCloseWrite, SetWriteDeadline
<1>2. ASSUME NEW t \in Threads, Handshaking(t) PROVE RecordTypeOK'
  BY <1>2, WriteRecordType, FlushNetType, KindNames, Zenon
     DEF Handshaking, HandshakeEnter, AfterHandshake, Goto, Return, At, HandshakeLock,
        HandshakeInLock, HandshakeExit, HandshakeWait
<1>3. ASSUME NEW t \in Threads, Scripted(t) PROVE RecordTypeOK'
  BY <1>3, WriteRecordType, FlushNetType, KindNames, Zenon
     DEF Scripted, HsWrite, AtScript, Goto, At, HsBuffer, HsFlush, HsComplete, HsDone,
        Renegotiating, HsFail, Return
<1>4. ASSUME NEW t \in Threads, Locking(t) PROVE RecordTypeOK'
  BY <1>4, WriteRecordType, FlushNetType, KindNames, Zenon
     DEF Locking, WriteLock, Goto, Return, At, ReadLock, KeyUpdateLock, RenegotiateLock,
        AlertLock
<1>5. ASSUME NEW t \in Threads, Closing(t) PROVE RecordTypeOK'
  BY <1>5, WriteRecordType, FlushNetType, KindNames, Zenon
     DEF Closing, CloseCheck, Goto, Return, At, CloseNotifyLock, CloseNotifyDone, CloseNet
<1>6. ASSUME NEW t \in Threads, Interrupter(t) PROVE RecordTypeOK'
  BY <1>6, WriteRecordType, FlushNetType, KindNames, Zenon
     DEF Interrupter, InterrupterCancelled, At, InterrupterDone
<1>7. ASSUME NEW t \in Threads, Receives(t) PROVE RecordTypeOK'
  BY <1>7, WriteRecordType, FlushNetType, KindNames, Zenon
     DEF Receives, HsRead, AtScript, At, HsReadBad, Goto, HsAbort, Renegotiating, ReadApp,
        Receive, Return, ReadPeerAlert, ReadBad, ReadOversize, ReadKeyUpdate,
        ReadHelloRequest, MayRenegotiate
<1>8. ASSUME NEW t \in Threads, Cancel(t) PROVE RecordTypeOK'
  BY <1>8, WriteRecordType, FlushNetType, KindNames, Zenon
     DEF Cancel, At
<1>9. ASSUME NEW t \in Threads, NEW b \in BOOLEAN, Writes(t, b) PROVE RecordTypeOK'
  BY <1>9, WriteRecordType, FlushNetType, KindNames, Zenon
     DEF Writes, HsWriteNet, Goto, At, WriteNet, Return, KeyUpdateNet, AlertNet,
        SendAlertLocked, AfterAlert, OversizeAlertNet, CloseNotifyNet
<1>10. ASSUME NEW t \in Threads, NEW b \in BOOLEAN, Flushes(t, b) PROVE RecordTypeOK'
  BY <1>10, WriteRecordType, FlushNetType, KindNames, Zenon
     DEF Flushes, HsFlushNet, FlushNet, Goto, At, HsFailFlushNet
<1>11. ASSUME NEW t \in Threads, NEW b \in BOOLEAN, ReadFails(t, b) PROVE RecordTypeOK'
  BY <1>11, WriteRecordType, FlushNetType, KindNames, Zenon
     DEF ReadFails, ReadFail, Return, At, HsReadFail, AtScript, Goto
<1>12. CASE NetBreak
  BY <1>12, Zenon DEF NetBreak
<1> HIDE DEF RecordTypeOK, recVars, wireVars
<1> QED
  BY <1>1, <1>2, <1>3, <1>4, <1>5, <1>6, <1>7, <1>8, <1>9, <1>10, <1>11, <1>12, Zenon
     DEF Next, Local, Calls, Handshaking, Scripted, Locking, Closing, Interrupter, Receives,
         Writes, Flushes, ReadFails

\* The initial state is well typed.
LEMMA InitType == Init => TypeOK
<1> SUFFICES ASSUME Init PROVE TypeOK
  BY Zenon
<1>1. GoroutineTypeOK
  BY Zenon DEF Init, GoroutineTypeOK, Labels, Results
<1>2. ContextTypeOK
  BY BoundsAssumption, Zenon DEF Init, ContextTypeOK
<1>3. HandshakeTypeOK
  BY DEF Init, HandshakeTypeOK
<1>4. FlagsTypeOK /\ CloseTypeOK
  BY Zenon DEF Init, FlagsTypeOK, CloseTypeOK
<1>5. NetTypeOK
  BY Zenon DEF Init, NetTypeOK
<1>6. RecordTypeOK
  BY Zenon DEF Init, RecordTypeOK
<1> QED
  BY <1>1, <1>2, <1>3, <1>4, <1>5, <1>6, Zenon DEF TypeOK

\* A step that changes nothing changes no type.
LEMMA StutterType == TypeOK /\ UNCHANGED vars => TypeOK'
<1> SUFFICES ASSUME TypeOK, UNCHANGED vars PROVE TypeOK'
  BY Zenon
<1> USE DEF vars, goVars, hsVars, locks, recVars, closeVars, netVars, wireVars, ctxVars, envVars
<1>1. GoroutineTypeOK' /\ ContextTypeOK'
  BY Zenon DEF TypeOK, GoroutineTypeOK, ContextTypeOK
<1>2. HandshakeTypeOK' /\ RecordTypeOK'
  BY Zenon DEF TypeOK, HandshakeTypeOK, RecordTypeOK
<1>3. FlagsTypeOK' /\ CloseTypeOK' /\ NetTypeOK'
  BY ZenonT(60) DEF TypeOK, FlagsTypeOK, CloseTypeOK, NetTypeOK
<1> QED
  BY <1>1, <1>2, <1>3, Zenon DEF TypeOK

\* The type invariant is inductive on its own.
LEMMA TypeStep == TypeOK /\ [Next]_vars => TypeOK'
<1> SUFFICES ASSUME TypeOK, Next PROVE TypeOK'
  BY StutterType, Zenon
<1> QED
  BY GoroutineTypeStep, ContextTypeStep, HandshakeTypeStep, FlagsTypeStep, CloseTypeStep,
     NetTypeStep, RecordTypeStep, Zenon DEF TypeOK

\* TLSConn is type correct: every state of the connection that its goroutines,
\* the peer and the transport can produce has the declared shape.
THEOREM TypeCorrect == Spec => []TypeOK
  BY InitType, TypeStep, PTL DEF Spec

-----------------------------------------------------------------------------
(* HandshakeContext and its interrupter.                                   *)

\* HandshakeContext runs the first handshake only, answers its errors with the
\* mutex held, and has no interrupter before it has looked at the fast path.
ScopeInv ==
    \A t \in Threads :
      /\ op[t] = "handshake" =>
           /\ pc[t] \in HsLabels \cup AlertLabels \cup {"handshake", "hs_lock", "hs_exit", "hs_wait"}
           /\ pc[t] \in AlertLabels => handshakeMutex = t
           /\ handshakeMutex = t => handshakes = 0
      /\ interrupter[t] # "none" => op[t] = "handshake" /\ pc[t] # "handshake"
      /\ interrupter[t] = "ctxErr" \/ ret[t] = "ctxErr" => net = "closed"

\* The interrupter lives inside the HandshakeContext that started it.
LEMMA ScopeStep ==
    ASSUME TypeOK, MutexOwners, OutcomeInv, ScopeInv, Next
    PROVE  ScopeInv'
<1>0. /\ GoroutineTypeOK /\ ContextTypeOK /\ handshakes \in Nat /\ MutexOwners
      /\ handshakeMutex = NoThread /\ handshakes > 0 => isHandshakeComplete \/ handshakeErr
  BY Zenon DEF TypeOK, HandshakeTypeOK, OutcomeInv
<1> USE DEF GoroutineTypeOK, ContextTypeOK, MutexOwners, ScopeInv, AlertLabels, HsLabels, goVars,
        hsVars, locks, netVars, ctxVars
<1>1. ASSUME NEW t \in Threads, Calls(t) PROVE ScopeInv'
  <2>1. CASE CallHandshake(t)
    BY <2>1, <1>0, ThreadsAssumption, ZenonT(60)
       DEF CallHandshake, Call, Enter, At
  <2>2. CASE CallWrite(t)
    BY <2>2, <1>0, ThreadsAssumption
       DEF CallWrite, Call, Enter, Return, At
  <2>3. CASE CallRead(t)
    BY <2>3, <1>0, ThreadsAssumption, ZenonT(60)
       DEF CallRead, Call, Enter, At
  <2>4. CASE CallClose(t)
    BY <2>4, <1>0, ThreadsAssumption
       DEF CallClose, Call, Enter, Return, At
  <2>5. CASE CallCloseWrite(t)
    BY <2>5, <1>0, ThreadsAssumption, ZenonT(60)
       DEF CallCloseWrite, Call, Enter, At
  <2>6. CASE SetWriteDeadline(t)
    BY <2>6, <1>0, ThreadsAssumption, ZenonT(60)
       DEF SetWriteDeadline, Call, Return, At
  <2> QED
    BY <1>1, <2>1, <2>2, <2>3, <2>4, <2>5, <2>6, Zenon DEF Calls
<1>2. ASSUME NEW t \in Threads, Handshaking(t) PROVE ScopeInv'
  <2>1. CASE HandshakeEnter(t)
    BY <2>1, <1>0, ThreadsAssumption
       DEF HandshakeEnter, AfterHandshake, At, Goto, Return
  <2>2. CASE HandshakeLock(t)
    BY <2>2, <1>0, ThreadsAssumption
       DEF HandshakeLock, At, Goto
  <2>3. CASE HandshakeInLock(t)
    BY <2>3, <1>0, ThreadsAssumption, ZenonT(60)
       DEF HandshakeInLock, At, Goto
  <2>4. CASE HandshakeExit(t)
    BY <2>4, <1>0, ThreadsAssumption
       DEF HandshakeExit, AfterHandshake, At, Goto, Return
  <2>5. CASE HandshakeWait(t)
    BY <2>5, <1>0, ThreadsAssumption, ZenonT(60)
       DEF HandshakeWait, At, Return
  <2> QED
    BY <1>2, <2>1, <2>2, <2>3, <2>4, <2>5, Zenon DEF Handshaking
<1>3. ASSUME NEW t \in Threads, Scripted(t) PROVE ScopeInv'
  <2>1. CASE HsWrite(t)
    BY <2>1, <1>0, ThreadsAssumption, ZenonT(60)
       DEF HsWrite, AtScript, Goto, At
  <2>2. CASE HsBuffer(t)
    BY <2>2, <1>0, ThreadsAssumption, Zenon
       DEF HsBuffer, AtScript, At
  <2>3. CASE HsFlush(t)
    BY <2>3, <1>0, ThreadsAssumption, ZenonT(60)
       DEF HsFlush, AtScript, Goto, At
  <2>4. CASE HsComplete(t)
    BY <2>4, <1>0, ThreadsAssumption, ZenonT(60)
       DEF HsComplete, AtScript, Goto, At
  <2>5. CASE HsDone(t)
    BY <2>5, <1>0, ThreadsAssumption
       DEF HsDone, At, Goto, Renegotiating
  <2>6. CASE HsFail(t)
    BY <2>6, <1>0, ThreadsAssumption
       DEF HsFail, At, Goto, Renegotiating, Return
  <2> QED
    BY <1>3, <2>1, <2>2, <2>3, <2>4, <2>5, <2>6, Zenon DEF Scripted
<1>4. ASSUME NEW t \in Threads, Locking(t) PROVE ScopeInv'
  <2>1. CASE WriteLock(t)
    BY <2>1, <1>0, ThreadsAssumption
       DEF WriteLock, At, Goto, Return
  <2>2. CASE ReadLock(t)
    BY <2>2, <1>0, ThreadsAssumption, ZenonT(60)
       DEF ReadLock, At, Goto
  <2>3. CASE KeyUpdateLock(t)
    BY <2>3, <1>0, ThreadsAssumption, ZenonT(60)
       DEF KeyUpdateLock, At, Goto
  <2>4. CASE RenegotiateLock(t)
    BY <2>4, <1>0, ThreadsAssumption, ZenonT(60)
       DEF RenegotiateLock, At, Goto
  <2>5. CASE AlertLock(t)
    BY <2>5, <1>0, ThreadsAssumption, ZenonT(60)
       DEF AlertLock, At, Goto
  <2> QED
    BY <1>4, <2>1, <2>2, <2>3, <2>4, <2>5, Zenon DEF Locking
<1>5. ASSUME NEW t \in Threads, Closing(t) PROVE ScopeInv'
  <2>1. CASE CloseCheck(t)
    BY <2>1, <1>0, ThreadsAssumption
       DEF CloseCheck, At, Goto, Return
  <2>2. CASE CloseNotifyLock(t)
    BY <2>2, <1>0, ThreadsAssumption, ZenonT(60)
       DEF CloseNotifyLock, At, Goto
  <2>3. CASE CloseNotifyDone(t)
    BY <2>3, <1>0, ThreadsAssumption
       DEF CloseNotifyDone, At, Return
  <2>4. CASE CloseNet(t)
    BY <2>4, <1>0, ThreadsAssumption, ZenonT(60)
       DEF CloseNet, At, Return
  <2> QED
    BY <1>5, <2>1, <2>2, <2>3, <2>4, Zenon DEF Closing
<1>6. ASSUME NEW t \in Threads, Interrupter(t) PROVE ScopeInv'
  <2>1. CASE InterrupterCancelled(t)
    BY <2>1, <1>0, ThreadsAssumption, ZenonT(60)
       DEF InterrupterCancelled
  <2>2. CASE InterrupterDone(t)
    BY <2>2, <1>0, ThreadsAssumption, ZenonT(60)
       DEF InterrupterDone
  <2> QED
    BY <1>6, <2>1, <2>2, Zenon DEF Interrupter
<1>7. ASSUME NEW t \in Threads, Receives(t) PROVE ScopeInv'
  <2>1. CASE HsRead(t)
    BY <2>1, <1>0, ThreadsAssumption, Zenon
       DEF HsRead, AtScript, At
  <2>2. CASE HsReadBad(t)
    BY <2>2, <1>0, ThreadsAssumption
       DEF HsReadBad, AtScript, Goto, At
  <2>3. CASE HsAbort(t)
    BY <2>3, <1>0, ThreadsAssumption, ZenonT(60)
       DEF HsAbort, At, Goto, Renegotiating
  <2>4. CASE ReadApp(t)
    BY <2>4, <1>0, ThreadsAssumption
       DEF ReadApp, Receive, Return, At
  <2>5. CASE ReadPeerAlert(t)
    BY <2>5, <1>0, ThreadsAssumption, ZenonT(60)
       DEF ReadPeerAlert, Receive, Return, At
  <2>6. CASE ReadBad(t)
    BY <2>6, <1>0, ThreadsAssumption, ZenonT(60)
       DEF ReadBad, Goto, Receive, At
  <2>7. CASE ReadOversize(t)
    BY <2>7, <1>0, ThreadsAssumption, ZenonT(60)
       DEF ReadOversize, Goto, Receive, At
  <2>8. CASE ReadKeyUpdate(t)
    BY <2>8, <1>0, ThreadsAssumption, ZenonT(60)
       DEF ReadKeyUpdate, Goto, Receive, At
  <2>9. CASE ReadHelloRequest(t)
    BY <2>9, <1>0, ThreadsAssumption, ZenonT(60)
       DEF ReadHelloRequest, Goto, Receive, At
  <2> QED
    BY <1>7, <2>1, <2>2, <2>3, <2>4, <2>5, <2>6, <2>7, <2>8, <2>9, Zenon DEF Receives
<1>8. ASSUME NEW t \in Threads, Cancel(t) PROVE ScopeInv'
  BY <1>8, <1>0, ThreadsAssumption, Zenon
     DEF Cancel
<1>9. ASSUME NEW t \in Threads, NEW b \in BOOLEAN, Writes(t, b) PROVE ScopeInv'
  <2>1. CASE HsWriteNet(t, b)
    BY <2>1, <1>0, ThreadsAssumption, ZenonT(60)
       DEF HsWriteNet, At, Goto, WriteRecord, Emit, NetWrite
  <2>2. CASE WriteNet(t, b)
    BY <2>2, <1>0, ThreadsAssumption, ZenonT(60)
       DEF WriteNet, At, Return, WriteRecord, Emit, NetWrite
  <2>3. CASE KeyUpdateNet(t, b)
    BY <2>3, <1>0, ThreadsAssumption, Zenon
       DEF KeyUpdateNet, At, Goto, WriteRecord, Emit, NetWrite
  <2>4. CASE AlertNet(t, b)
    BY <2>4, <1>0, ThreadsAssumption
       DEF AlertNet, AfterAlert, At, Goto, Return
  <2>5. CASE OversizeAlertNet(t, b)
    BY <2>5, <1>0, ThreadsAssumption
       DEF OversizeAlertNet, AfterAlert, At, Goto, Return
  <2>6. CASE CloseNotifyNet(t, b)
    BY <2>6, <1>0, ThreadsAssumption, Zenon
       DEF CloseNotifyNet, At, Goto, WriteRecord, Emit, NetWrite
  <2> QED
    BY <1>9, <2>1, <2>2, <2>3, <2>4, <2>5, <2>6, Zenon DEF Writes
<1>10. ASSUME NEW t \in Threads, NEW b \in BOOLEAN, Flushes(t, b) PROVE ScopeInv'
  <2>1. CASE HsFlushNet(t, b)
    BY <2>1, <1>0, ThreadsAssumption, Zenon
       DEF HsFlushNet, At, FlushNet, Goto, Emit, NetWrite
  <2>2. CASE HsFailFlushNet(t, b)
    BY <2>2, <1>0, ThreadsAssumption, ZenonT(60)
       DEF HsFailFlushNet, At, FlushNet, Emit, NetWrite
  <2> QED
    BY <1>10, <2>1, <2>2, Zenon DEF Flushes
<1>11. ASSUME NEW t \in Threads, NEW b \in BOOLEAN, ReadFails(t, b) PROVE ScopeInv'
  <2>1. CASE ReadFail(t, b)
    BY <2>1, <1>0, ThreadsAssumption, ZenonT(60)
       DEF ReadFail, At, Return
  <2>2. CASE HsReadFail(t, b)
    BY <2>2, <1>0, ThreadsAssumption, ZenonT(60)
       DEF HsReadFail, AtScript, Goto, At
  <2> QED
    BY <1>11, <2>1, <2>2, Zenon DEF ReadFails
<1>12. CASE NetBreak
  BY <1>12, <1>0, ThreadsAssumption, Zenon DEF NetBreak
<1> HIDE DEF ScopeInv, AlertLabels, HsLabels, goVars, hsVars, locks, netVars, ctxVars
<1> QED
  BY <1>1, <1>2, <1>3, <1>4, <1>5, <1>6, <1>7, <1>8, <1>9, <1>10, <1>11, <1>12,
        Zenon DEF Next, Local

-----------------------------------------------------------------------------
(* What may be in the send buffer and on the wire: handshake buffering and *)
(* application data.                                                       *)

\* Buffering ends at the flush that every script has before its end.
LEMMA BufferStep ==
    ASSUME pc \in [Threads -> Labels], todo \in Seq(Steps), sendBuf \subseteq Kinds,
           MutexOwners, OutcomeInv, BufferInv, Next
    PROVE  BufferInv'
<1> USE DEF BufferInv, OutcomeInv, Running, MutexOwners, AlertLabels, HsLabels, InLabels,
        OutLabels, goVars, hsVars, locks, recVars
<1>1. ASSUME NEW t \in Threads,
           CallHandshake(t) \/ CallWrite(t) \/ CallRead(t)
     PROVE BufferInv'
  <2>1. CASE CallHandshake(t)
    BY <2>1, ThreadsAssumption, ZenonT(60) DEF CallHandshake, Call, Enter, At
  <2>2. CASE CallWrite(t)
    BY <2>2, ThreadsAssumption, ZenonT(60) DEF CallWrite, Call, Return, Enter, At
  <2>3. CASE CallRead(t)
    BY <2>3, ThreadsAssumption, Zenon DEF CallRead, Call, Enter, At
  <2> QED
    BY <1>1, <2>1, <2>2, <2>3, Zenon
<1>2. ASSUME NEW t \in Threads,
           CallClose(t) \/ CallCloseWrite(t) \/ SetWriteDeadline(t)
     PROVE BufferInv'
  <2>1. CASE CallClose(t)
    BY <2>1, ThreadsAssumption, ZenonT(60) DEF CallClose, Call, Return, Enter, At
  <2>2. CASE CallCloseWrite(t)
    BY <2>2, ThreadsAssumption, Zenon DEF CallCloseWrite, Call, Enter, At
  <2>3. CASE SetWriteDeadline(t)
    BY <2>3, ThreadsAssumption, Zenon DEF SetWriteDeadline, Call, Return, At
  <2> QED
    BY <1>2, <2>1, <2>2, <2>3, Zenon
<1>3. ASSUME NEW t \in Threads,
           HandshakeEnter(t) \/ HandshakeLock(t) \/ HandshakeInLock(t)
     PROVE BufferInv'
  <2>1. CASE HandshakeEnter(t)
    BY <2>1, ThreadsAssumption, ScriptFacts, TailFacts
       DEF HandshakeEnter, At, AfterHandshake, Goto, Return
  <2>2. CASE HandshakeLock(t)
    BY <2>2, ThreadsAssumption, ScriptFacts, TailFacts DEF HandshakeLock, At, Goto
  <2>3. CASE HandshakeInLock(t)
    BY <2>3, ThreadsAssumption, ScriptFacts, TailFacts, Zenon DEF HandshakeInLock, At, Goto
  <2> QED
    BY <1>3, <2>1, <2>2, <2>3, Zenon
<1>4. ASSUME NEW t \in Threads, HandshakeExit(t) \/ HandshakeWait(t) PROVE BufferInv'
  <2>1. CASE HandshakeExit(t)
    BY <2>1, ThreadsAssumption, ScriptFacts, TailFacts
       DEF HandshakeExit, At, AfterHandshake, Goto, Return
  <2>2. CASE HandshakeWait(t)
    BY <2>2, ThreadsAssumption, ScriptFacts, TailFacts DEF HandshakeWait, At, Return
  <2> QED
    BY <1>4, <2>1, <2>2, Zenon
<1>5. ASSUME NEW t \in Threads, HsWrite(t) PROVE BufferInv'
  BY <1>5, ThreadsAssumption, ScriptFacts, TailFacts
     DEF HsWrite, AtScript, Goto, At
<1>6. ASSUME NEW t \in Threads, HsBuffer(t) PROVE BufferInv'
  BY <1>6, ThreadsAssumption, ScriptFacts, TailFacts, Zenon
     DEF HsBuffer, AtScript, At
<1>7. ASSUME NEW t \in Threads, HsFlush(t) PROVE BufferInv'
  BY <1>7, ThreadsAssumption, ScriptFacts, TailFacts
     DEF HsFlush, AtScript, Goto, At
<1>8. ASSUME NEW t \in Threads, HsComplete(t) PROVE BufferInv'
  BY <1>8, ThreadsAssumption, ScriptFacts, TailFacts, Zenon
     DEF HsComplete, AtScript, Goto, At
<1>9. ASSUME NEW t \in Threads, HsDone(t) PROVE BufferInv'
  BY <1>9, ThreadsAssumption, ScriptFacts, TailFacts, Zenon
     DEF HsDone, Goto, Renegotiating, At
<1>10. ASSUME NEW t \in Threads, HsFail(t) PROVE BufferInv'
  BY <1>10, ThreadsAssumption DEF HsFail, At, Goto, Return, WellFormed, Renegotiating
<1>11. ASSUME NEW t \in Threads, Locking(t) PROVE BufferInv'
  <2>1. CASE WriteLock(t)
    BY <2>1, ThreadsAssumption, ScriptFacts, TailFacts DEF WriteLock, At, Return, Goto
  <2>2. CASE ReadLock(t)
    BY <2>2, ThreadsAssumption, ScriptFacts, TailFacts DEF ReadLock, At, Goto
  <2>3. CASE KeyUpdateLock(t)
    BY <2>3, ThreadsAssumption, ScriptFacts, TailFacts DEF KeyUpdateLock, At, Goto
  <2>4. CASE RenegotiateLock(t)
    BY <2>4, ThreadsAssumption, ScriptFacts, TailFacts, Zenon DEF RenegotiateLock, At, Goto
  <2>5. CASE AlertLock(t)
    BY <2>5, ThreadsAssumption, ScriptFacts, TailFacts DEF AlertLock, At, Goto
  <2> QED
    BY <1>11, <2>1, <2>2, <2>3, <2>4, <2>5, Zenon DEF Locking
<1>12. ASSUME NEW t \in Threads, Closing(t) PROVE BufferInv'
  <2>1. CASE CloseCheck(t)
    BY <2>1, ThreadsAssumption, Zenon DEF CloseCheck, At, Goto, Return
  <2>2. CASE CloseNotifyLock(t)
    BY <2>2, ThreadsAssumption, Zenon DEF CloseNotifyLock, At, Goto
  <2>3. CASE CloseNotifyDone(t)
    BY <2>3, ThreadsAssumption, ZenonT(60) DEF CloseNotifyDone, At, Return
  <2>4. CASE CloseNet(t)
    BY <2>4, ThreadsAssumption, Zenon DEF CloseNet, At, Return
  <2> QED
    BY <1>12, <2>1, <2>2, <2>3, <2>4, Zenon DEF Closing
<1>13. ASSUME NEW t \in Threads, Interrupter(t) PROVE BufferInv'
  <2>1. CASE InterrupterCancelled(t)
    BY <2>1, ThreadsAssumption, Zenon DEF InterrupterCancelled
  <2>2. CASE InterrupterDone(t)
    BY <2>2, ThreadsAssumption, Zenon DEF InterrupterDone
  <2> QED
    BY <1>13, <2>1, <2>2, Zenon DEF Interrupter
<1>14. ASSUME NEW t \in Threads, HsRead(t) PROVE BufferInv'
  BY <1>14, ThreadsAssumption, ScriptFacts, TailFacts, Zenon
     DEF HsRead, AtScript, At
<1>15. ASSUME NEW t \in Threads, HsReadBad(t) PROVE BufferInv'
  BY <1>15, ThreadsAssumption, ScriptFacts, TailFacts, Zenon
     DEF HsReadBad, AtScript, Goto, At
<1>16. ASSUME NEW t \in Threads, HsAbort(t) PROVE BufferInv'
  BY <1>16, ThreadsAssumption, ScriptFacts, TailFacts, Zenon
     DEF HsAbort, At, Goto, Renegotiating
<1>17. ASSUME NEW t \in Threads, ReadApp(t) \/ ReadPeerAlert(t) PROVE BufferInv'
  <2>1. CASE ReadApp(t)
    BY <2>1, ThreadsAssumption, ScriptFacts, TailFacts, Zenon DEF ReadApp, Receive, Return, At
  <2>2. CASE ReadPeerAlert(t)
    BY <2>2, ThreadsAssumption, ScriptFacts, TailFacts DEF ReadPeerAlert, Receive, Return, At
  <2> QED
    BY <1>17, <2>1, <2>2, Zenon
<1>18. ASSUME NEW t \in Threads,
           ReadBad(t) \/ ReadOversize(t) \/ ReadKeyUpdate(t) \/ ReadHelloRequest(t)
     PROVE BufferInv'
  <2>1. CASE ReadBad(t)
    BY <2>1, ThreadsAssumption, ScriptFacts, TailFacts DEF ReadBad, Receive, Goto, At
  <2>2. CASE ReadOversize(t)
    BY <2>2, ThreadsAssumption, ScriptFacts, TailFacts DEF ReadOversize, Receive, Goto, At
  <2>3. CASE ReadKeyUpdate(t)
    BY <2>3, ThreadsAssumption, ScriptFacts, TailFacts DEF ReadKeyUpdate, Receive, Goto, At
  <2>4. CASE ReadHelloRequest(t)
    BY <2>4, ThreadsAssumption, ScriptFacts, TailFacts
       DEF ReadHelloRequest, Receive, Goto, MayRenegotiate, At
  <2> QED
    BY <1>18, <2>1, <2>2, <2>3, <2>4, Zenon
<1>19. ASSUME NEW t \in Threads, Cancel(t) PROVE BufferInv'
  BY <1>19, ThreadsAssumption, Zenon
     DEF Cancel, At
<1>20. ASSUME NEW t \in Threads, NEW b \in BOOLEAN, HsWriteNet(t, b) PROVE BufferInv'
  <2>1. UNCHANGED <<todo, buffering, isHandshakeComplete>>
    BY <1>20, Zenon DEF HsWriteNet, At, Goto, WriteRecord
  <2>2. buffering => sendBuf' # {}
    BY <1>20, Zenon DEF HsWriteNet, At, Goto, WriteRecord
  <2>3. \A u \in Threads : pc'[u] \in {"hs_run", "hs_write"} => pc[u] \in {"hs_run", "hs_write"}
    BY <1>20, Zenon DEF HsWriteNet, At, Goto, WriteRecord
  <2> QED
    BY <2>1, <2>2, <2>3, Zenon
<1>21. ASSUME NEW t \in Threads, NEW b \in BOOLEAN, WriteNet(t, b) PROVE BufferInv'
  BY <1>21, ThreadsAssumption, Zenon
     DEF WriteNet, WriteRecord, NetWrite, Emit, Return, At
<1>22. ASSUME NEW t \in Threads, NEW b \in BOOLEAN, KeyUpdateNet(t, b) PROVE BufferInv'
  BY <1>22, ThreadsAssumption, Zenon
     DEF KeyUpdateNet, WriteRecord, NetWrite, Emit, Goto, At
<1>23. ASSUME NEW t \in Threads, NEW b \in BOOLEAN,
           AlertNet(t, b) \/ OversizeAlertNet(t, b) \/ CloseNotifyNet(t, b)
     PROVE BufferInv'
  <2>1. CASE AlertNet(t, b)
    BY <2>1, ThreadsAssumption, ZenonT(60)
       DEF AlertNet, At, SendAlertLocked, AfterAlert, WriteRecord, Goto, Return, NetWrite, Emit
  <2>2. CASE OversizeAlertNet(t, b)
    BY <2>2, ThreadsAssumption, ZenonT(60)
       DEF OversizeAlertNet, At, SendAlertLocked, AfterAlert, WriteRecord, Goto, Return, NetWrite, Emit
  <2>3. CASE CloseNotifyNet(t, b)
    BY <2>3, ThreadsAssumption, Zenon DEF CloseNotifyNet, At, WriteRecord, Goto, NetWrite, Emit
  <2> QED
    BY <1>23, <2>1, <2>2, <2>3, Zenon
<1>24. ASSUME NEW t \in Threads, NEW b \in BOOLEAN, Flushes(t, b) PROVE BufferInv'
  BY <1>24, ThreadsAssumption, Zenon
     DEF Flushes, HsFlushNet, FlushNet, NetWrite, Emit, Goto, At, HsFailFlushNet
<1>25. ASSUME NEW t \in Threads, NEW b \in BOOLEAN, ReadFail(t, b) PROVE BufferInv'
  BY <1>25, ThreadsAssumption, ScriptFacts, TailFacts
     DEF ReadFail, Return, At
<1>26. ASSUME NEW t \in Threads, NEW b \in BOOLEAN, HsReadFail(t, b) PROVE BufferInv'
  BY <1>26, ThreadsAssumption, ScriptFacts, TailFacts, Zenon
     DEF HsReadFail, AtScript, Goto, At
<1>27. CASE NetBreak
  BY <1>27, Zenon DEF NetBreak
<1> HIDE DEF BufferInv, OutcomeInv, Running, MutexOwners, AlertLabels, HsLabels, InLabels,
        OutLabels, goVars, hsVars, locks, recVars
<1> QED
  BY <1>1, <1>2, <1>3, <1>4, <1>5, <1>6, <1>7, <1>8, <1>9, <1>10, <1>11, <1>12, <1>13, Zenon,
        <1>14, <1>15, <1>16, <1>17, <1>18, <1>19, <1>20, <1>21, <1>22, <1>23, <1>24, <1>25,
        <1>26, <1>27
     DEF Next, Local, Calls, Handshaking, Scripted, Locking, Closing, Interrupter, Receives,
         Writes, Flushes, ReadFails

\* A renegotiation cannot take its first step while a Write holds c.out.
LEMMA WriteStep ==
    ASSUME pc \in [Threads -> Labels], handshakes \in Nat,
           MutexOwners, OutcomeInv, PastHandshakeInv, BufferInv, WriteInv, Next
    PROVE  WriteInv'
<1> USE DEF WriteInv, BufferInv, OutcomeInv, PastHandshakeInv, Running, MutexOwners,
        Renegotiating, MayRenegotiate, AlertLabels, HsLabels, InLabels, OutLabels, goVars,
        hsVars, locks, recVars, closeVars
<1>1. ASSUME NEW t \in Threads,
           CallHandshake(t) \/ CallWrite(t) \/ CallRead(t)
     PROVE WriteInv'
  BY <1>1, ThreadsAssumption, ZenonT(60)
     DEF CallHandshake, Call, Enter, At, CallWrite, Return, CallRead
<1>2. ASSUME NEW t \in Threads,
           CallClose(t) \/ CallCloseWrite(t) \/ SetWriteDeadline(t)
     PROVE WriteInv'
  BY <1>2, ThreadsAssumption, ZenonT(60)
     DEF CallClose, Call, Enter, Return, At, CallCloseWrite, SetWriteDeadline
<1>3. ASSUME NEW t \in Threads,
           HandshakeEnter(t) \/ HandshakeLock(t) \/ HandshakeInLock(t)
     PROVE WriteInv'
  BY <1>3, ThreadsAssumption, ZenonT(60)
     DEF HandshakeEnter, AfterHandshake, Goto, Return, At, HandshakeLock, HandshakeInLock
<1>4. ASSUME NEW t \in Threads, HandshakeExit(t) \/ HandshakeWait(t) PROVE WriteInv'
  BY <1>4, ThreadsAssumption, ZenonT(60)
     DEF HandshakeExit, AfterHandshake, Goto, Return, At, HandshakeWait
<1>5. ASSUME NEW t \in Threads, HsWrite(t) \/ HsBuffer(t) \/ HsFlush(t) PROVE WriteInv'
  BY <1>5, ThreadsAssumption, ScriptFacts, ZenonT(60)
     DEF HsWrite, AtScript, Goto, At, HsBuffer, HsFlush
<1>6. ASSUME NEW t \in Threads, HsComplete(t) \/ HsDone(t) \/ HsFail(t) PROVE WriteInv'
  BY <1>6, ThreadsAssumption, ScriptFacts, ZenonT(60)
     DEF HsComplete, AtScript, Goto, At, HsDone, Renegotiating, HsFail, Return
<1>7. ASSUME NEW t \in Threads, Locking(t) PROVE WriteInv'
  <2>1. CASE WriteLock(t)
    BY <2>1, ThreadsAssumption, Zenon
       DEF WriteLock, At, Goto, Return
  <2>2. CASE ReadLock(t)
    BY <2>2, ThreadsAssumption, Zenon
       DEF ReadLock, At, Goto
  <2>3. CASE KeyUpdateLock(t)
    BY <2>3, ThreadsAssumption, Zenon
       DEF KeyUpdateLock, At, Goto
  <2>4. CASE RenegotiateLock(t)
    BY <2>4, ThreadsAssumption, Zenon
       DEF RenegotiateLock, At, Goto
  <2>5. CASE AlertLock(t)
    BY <2>5, ThreadsAssumption, Zenon
       DEF AlertLock, At, Goto
  <2> QED
    BY <1>7, <2>1, <2>2, <2>3, <2>4, <2>5, Zenon DEF Locking
<1>8. ASSUME NEW t \in Threads, Closing(t) PROVE WriteInv'
  BY <1>8, ThreadsAssumption, ZenonT(60)
     DEF Closing, CloseCheck, Goto, Return, At, CloseNotifyLock, CloseNotifyDone, CloseNet
<1>9. ASSUME NEW t \in Threads, Interrupter(t) PROVE WriteInv'
  <2>1. CASE InterrupterCancelled(t)
    BY <2>1, ThreadsAssumption, Zenon
       DEF InterrupterCancelled
  <2>2. CASE InterrupterDone(t)
    BY <2>2, ThreadsAssumption, Zenon
       DEF InterrupterDone
  <2> QED
    BY <1>9, <2>1, <2>2, Zenon DEF Interrupter
<1>10. ASSUME NEW t \in Threads,
           HsRead(t) \/ HsReadBad(t) \/ HsAbort(t) \/ ReadApp(t) \/ ReadPeerAlert(t)
     PROVE WriteInv'
  <2>1. CASE HsRead(t)
    BY <2>1, ThreadsAssumption, ScriptFacts, Zenon
       DEF HsRead, AtScript, At
  <2>2. CASE HsReadBad(t)
    BY <2>2, ThreadsAssumption, ScriptFacts, ZenonT(60)
       DEF HsReadBad, AtScript, Goto, At
  <2>3. CASE HsAbort(t)
    BY <2>3, ThreadsAssumption, ScriptFacts, Zenon
       DEF HsAbort, At, Goto, Renegotiating
  <2>4. CASE ReadApp(t)
    BY <2>4, ThreadsAssumption, ScriptFacts, Zenon
       DEF ReadApp, Receive, Return, At
  <2>5. CASE ReadPeerAlert(t)
    BY <2>5, ThreadsAssumption, ScriptFacts
       DEF ReadPeerAlert, Receive, Return, At
  <2> QED
    BY <1>10, <2>1, <2>2, <2>3, <2>4, <2>5, Zenon
<1>11. ASSUME NEW t \in Threads,
           ReadBad(t) \/ ReadOversize(t) \/ ReadKeyUpdate(t) \/ ReadHelloRequest(t)
     PROVE WriteInv'
  <2>1. CASE ReadBad(t)
    BY <2>1, ThreadsAssumption, ScriptFacts, Zenon
       DEF ReadBad, Goto, Receive, At
  <2>2. CASE ReadOversize(t)
    BY <2>2, ThreadsAssumption, ScriptFacts, Zenon
       DEF ReadOversize, Goto, Receive, At
  <2>3. CASE ReadKeyUpdate(t)
    BY <2>3, ThreadsAssumption, ScriptFacts, ZenonT(60)
       DEF ReadKeyUpdate, Goto, Receive, At
  <2>4. CASE ReadHelloRequest(t)
    BY <2>4, ThreadsAssumption, ScriptFacts, Zenon
       DEF ReadHelloRequest, Goto, MayRenegotiate, Receive, At
  <2> QED
    BY <1>11, <2>1, <2>2, <2>3, <2>4, Zenon
<1>12. ASSUME NEW t \in Threads, Cancel(t) PROVE WriteInv'
  BY <1>12, ThreadsAssumption, Zenon
     DEF Cancel, At
<1>13. ASSUME NEW t \in Threads, NEW b \in BOOLEAN,
           HsWriteNet(t, b) \/ WriteNet(t, b) \/ KeyUpdateNet(t, b)
     PROVE WriteInv'
  <2>1. CASE HsWriteNet(t, b)
    BY <2>1, ThreadsAssumption, Zenon
       DEF HsWriteNet, At, Goto, WriteRecord, Emit, NetWrite
  <2>2. CASE WriteNet(t, b)
    BY <2>2, ThreadsAssumption, Zenon
       DEF WriteNet, At, Return, WriteRecord, Emit, NetWrite
  <2>3. CASE KeyUpdateNet(t, b)
    BY <2>3, ThreadsAssumption, Zenon
       DEF KeyUpdateNet, At, Goto, WriteRecord, Emit, NetWrite
  <2> QED
    BY <1>13, <2>1, <2>2, <2>3, Zenon
<1>14. ASSUME NEW t \in Threads, NEW b \in BOOLEAN,
           AlertNet(t, b) \/ OversizeAlertNet(t, b) \/ CloseNotifyNet(t, b)
     PROVE WriteInv'
  <2>1. CASE AlertNet(t, b)
    BY <2>1, ThreadsAssumption, Zenon
       DEF AlertNet, AfterAlert, At, SendAlertLocked, WriteRecord, Emit, NetWrite, Goto,
        Return
  <2>2. CASE OversizeAlertNet(t, b)
    BY <2>2, ThreadsAssumption, Zenon
       DEF OversizeAlertNet, AfterAlert, At, SendAlertLocked, WriteRecord, Emit, NetWrite,
        Goto, Return
  <2>3. CASE CloseNotifyNet(t, b)
    BY <2>3, ThreadsAssumption, Zenon
       DEF CloseNotifyNet, At, Goto, WriteRecord, Emit, NetWrite
  <2> QED
    BY <1>14, <2>1, <2>2, <2>3, Zenon
<1>15. ASSUME NEW t \in Threads, NEW b \in BOOLEAN, Flushes(t, b) PROVE WriteInv'
  BY <1>15, ThreadsAssumption, ZenonT(60)
     DEF Flushes, HsFlushNet, FlushNet, NetWrite, Emit, Goto, At, HsFailFlushNet
<1>16. ASSUME NEW t \in Threads, NEW b \in BOOLEAN, ReadFails(t, b) PROVE WriteInv'
  BY <1>16, ThreadsAssumption, ScriptFacts, ZenonT(60)
     DEF ReadFails, ReadFail, Return, At, HsReadFail, AtScript, Goto
<1>17. CASE NetBreak
  BY <1>17, Zenon DEF NetBreak
<1> HIDE DEF WriteInv, BufferInv, OutcomeInv, PastHandshakeInv, Running, MutexOwners,
        Renegotiating, MayRenegotiate, AlertLabels, HsLabels, InLabels, OutLabels, goVars,
        hsVars, locks, recVars, closeVars
<1> QED
  BY <1>1, <1>2, <1>3, <1>4, <1>5, <1>6, <1>7, <1>8, <1>9, <1>10, <1>11, <1>12, <1>13, Zenon,
        <1>14, <1>15, <1>16, <1>17
     DEF Next, Local, Calls, Handshaking, Scripted, Locking, Closing, Interrupter, Receives,
         Writes, Flushes, ReadFails

-----------------------------------------------------------------------------
(* Locks, handshakes and close-notify; the theorems.                       *)

\* Lock and Unlock are paired on every path.
LEMMA MutexStep ==
    ASSUME pc \in [Threads -> Labels], MutexOwners, Next
    PROVE  MutexOwners'
<1> USE DEF MutexOwners, AlertLabels, HsLabels, InLabels, OutLabels, goVars, locks
<1>1. ASSUME NEW t \in Threads, Calls(t) PROVE MutexOwners'
  <2>1. CASE CallHandshake(t)
    BY <2>1, ThreadsAssumption, Zenon
       DEF CallHandshake, Call, Enter, At
  <2>2. CASE CallWrite(t)
    BY <2>2, ThreadsAssumption, ZenonT(60)
       DEF CallWrite, Call, Enter, Return, At
  <2>3. CASE CallRead(t)
    BY <2>3, ThreadsAssumption, Zenon
       DEF CallRead, Call, Enter, At
  <2>4. CASE CallClose(t)
    BY <2>4, ThreadsAssumption, ZenonT(60)
       DEF CallClose, Call, Enter, Return, At
  <2>5. CASE CallCloseWrite(t)
    BY <2>5, ThreadsAssumption, Zenon
       DEF CallCloseWrite, Call, Enter, At
  <2>6. CASE SetWriteDeadline(t)
    BY <2>6, ThreadsAssumption, Zenon
       DEF SetWriteDeadline, Call, Return, At
  <2> QED
    BY <1>1, <2>1, <2>2, <2>3, <2>4, <2>5, <2>6, Zenon DEF Calls
<1>2. ASSUME NEW t \in Threads, Handshaking(t) PROVE MutexOwners'
  <2>1. CASE HandshakeEnter(t)
    BY <2>1, ThreadsAssumption, ZenonT(60)
       DEF HandshakeEnter, AfterHandshake, At, Goto, Return
  <2>2. CASE HandshakeLock(t)
    BY <2>2, ThreadsAssumption
       DEF HandshakeLock, At, Goto
  <2>3. CASE HandshakeInLock(t)
    BY <2>3, ThreadsAssumption, Zenon
       DEF HandshakeInLock, At, Goto
  <2>4. CASE HandshakeExit(t)
    BY <2>4, ThreadsAssumption
       DEF HandshakeExit, AfterHandshake, At, Goto, Return
  <2>5. CASE HandshakeWait(t)
    BY <2>5, ThreadsAssumption, Zenon
       DEF HandshakeWait, At, Return
  <2> QED
    BY <1>2, <2>1, <2>2, <2>3, <2>4, <2>5, Zenon DEF Handshaking
<1>3. ASSUME NEW t \in Threads, Scripted(t) PROVE MutexOwners'
  <2>1. CASE HsWrite(t)
    BY <2>1, ThreadsAssumption, Zenon
       DEF HsWrite, AtScript, Goto, At
  <2>2. CASE HsBuffer(t)
    BY <2>2, ThreadsAssumption, Zenon
       DEF HsBuffer, AtScript, At
  <2>3. CASE HsFlush(t)
    BY <2>3, ThreadsAssumption, ZenonT(60)
       DEF HsFlush, AtScript, Goto, At
  <2>4. CASE HsComplete(t)
    BY <2>4, ThreadsAssumption, Zenon
       DEF HsComplete, AtScript, Goto, At
  <2>5. CASE HsDone(t)
    BY <2>5, ThreadsAssumption, ZenonT(60)
       DEF HsDone, At, Goto, Renegotiating
  <2>6. CASE HsFail(t)
    BY <2>6, ThreadsAssumption
       DEF HsFail, At, Goto, Renegotiating, Return
  <2> QED
    BY <1>3, <2>1, <2>2, <2>3, <2>4, <2>5, <2>6, Zenon DEF Scripted
<1>4. ASSUME NEW t \in Threads, Locking(t) PROVE MutexOwners'
  <2>1. CASE WriteLock(t)
    BY <2>1, ThreadsAssumption
       DEF WriteLock, At, Goto, Return
  <2>2. CASE ReadLock(t)
    BY <2>2, ThreadsAssumption, Zenon
       DEF ReadLock, At, Goto
  <2>3. CASE KeyUpdateLock(t)
    BY <2>3, ThreadsAssumption, Zenon
       DEF KeyUpdateLock, At, Goto
  <2>4. CASE RenegotiateLock(t)
    BY <2>4, ThreadsAssumption, Zenon
       DEF RenegotiateLock, At, Goto
  <2>5. CASE AlertLock(t)
    BY <2>5, ThreadsAssumption, Zenon
       DEF AlertLock, At, Goto
  <2> QED
    BY <1>4, <2>1, <2>2, <2>3, <2>4, <2>5, Zenon DEF Locking
<1>5. ASSUME NEW t \in Threads, Closing(t) PROVE MutexOwners'
  <2>1. CASE CloseCheck(t)
    BY <2>1, ThreadsAssumption
       DEF CloseCheck, At, Goto, Return
  <2>2. CASE CloseNotifyLock(t)
    BY <2>2, ThreadsAssumption, Zenon
       DEF CloseNotifyLock, At, Goto
  <2>3. CASE CloseNotifyDone(t)
    BY <2>3, ThreadsAssumption
       DEF CloseNotifyDone, At, Return
  <2>4. CASE CloseNet(t)
    BY <2>4, ThreadsAssumption, Zenon
       DEF CloseNet, At, Return
  <2> QED
    BY <1>5, <2>1, <2>2, <2>3, <2>4, Zenon DEF Closing
<1>6. ASSUME NEW t \in Threads, Interrupter(t) PROVE MutexOwners'
  <2>1. CASE InterrupterCancelled(t)
    BY <2>1, ThreadsAssumption, Zenon
       DEF InterrupterCancelled
  <2>2. CASE InterrupterDone(t)
    BY <2>2, ThreadsAssumption, Zenon
       DEF InterrupterDone
  <2> QED
    BY <1>6, <2>1, <2>2, Zenon DEF Interrupter
<1>7. ASSUME NEW t \in Threads,
           HsRead(t) \/ HsReadBad(t) \/ HsAbort(t) \/ ReadApp(t) \/ ReadPeerAlert(t)
     PROVE MutexOwners'
  <2>1. CASE HsRead(t)
    BY <2>1, ThreadsAssumption, Zenon
       DEF HsRead, AtScript, At
  <2>2. CASE HsReadBad(t)
    BY <2>2, ThreadsAssumption
       DEF HsReadBad, AtScript, Goto, At
  <2>3. CASE HsAbort(t)
    BY <2>3, ThreadsAssumption, ZenonT(60)
       DEF HsAbort, At, Goto, Renegotiating
  <2>4. CASE ReadApp(t)
    BY <2>4, ThreadsAssumption
       DEF ReadApp, Receive, Return, At
  <2>5. CASE ReadPeerAlert(t)
    BY <2>5, ThreadsAssumption, ZenonT(60)
       DEF ReadPeerAlert, Receive, Return, At
  <2> QED
    BY <1>7, <2>1, <2>2, <2>3, <2>4, <2>5, Zenon
<1>8. ASSUME NEW t \in Threads,
           ReadBad(t) \/ ReadOversize(t) \/ ReadKeyUpdate(t) \/ ReadHelloRequest(t)
     PROVE MutexOwners'
  <2>1. CASE ReadBad(t)
    BY <2>1, ThreadsAssumption, ZenonT(60)
       DEF ReadBad, Goto, Receive, At
  <2>2. CASE ReadOversize(t)
    BY <2>2, ThreadsAssumption, Zenon
       DEF ReadOversize, Goto, Receive, At
  <2>3. CASE ReadKeyUpdate(t)
    BY <2>3, ThreadsAssumption, ZenonT(60)
       DEF ReadKeyUpdate, Goto, Receive, At
  <2>4. CASE ReadHelloRequest(t)
    BY <2>4, ThreadsAssumption, Zenon
       DEF ReadHelloRequest, Goto, MayRenegotiate, Receive, At
  <2> QED
    BY <1>8, <2>1, <2>2, <2>3, <2>4, Zenon
<1>9. ASSUME NEW t \in Threads, Cancel(t) PROVE MutexOwners'
  BY <1>9, ThreadsAssumption, Zenon
     DEF Cancel, At
<1>10. ASSUME NEW t \in Threads, NEW b \in BOOLEAN,
           HsWriteNet(t, b) \/ WriteNet(t, b) \/ KeyUpdateNet(t, b)
     PROVE MutexOwners'
  <2>1. CASE HsWriteNet(t, b)
    BY <2>1, ThreadsAssumption, Zenon
       DEF HsWriteNet, At, Goto, WriteRecord, Emit, NetWrite
  <2>2. CASE WriteNet(t, b)
    BY <2>2, ThreadsAssumption, Zenon
       DEF WriteNet, At, Return, WriteRecord, Emit, NetWrite
  <2>3. CASE KeyUpdateNet(t, b)
    BY <2>3, ThreadsAssumption, Zenon
       DEF KeyUpdateNet, At, Goto, WriteRecord, Emit, NetWrite
  <2> QED
    BY <1>10, <2>1, <2>2, <2>3, Zenon
<1>11. ASSUME NEW t \in Threads, NEW b \in BOOLEAN,
           AlertNet(t, b) \/ OversizeAlertNet(t, b) \/ CloseNotifyNet(t, b)
     PROVE MutexOwners'
  <2>1. CASE AlertNet(t, b)
    BY <2>1, ThreadsAssumption
       DEF AlertNet, AfterAlert, At, SendAlertLocked, WriteRecord, Emit, NetWrite, Goto,
        Return
  <2>2. CASE OversizeAlertNet(t, b)
    BY <2>2, ThreadsAssumption
       DEF OversizeAlertNet, AfterAlert, At, SendAlertLocked, WriteRecord, Emit, NetWrite,
        Goto, Return
  <2>3. CASE CloseNotifyNet(t, b)
    BY <2>3, ThreadsAssumption, Zenon
       DEF CloseNotifyNet, At, Goto, WriteRecord, Emit, NetWrite
  <2> QED
    BY <1>11, <2>1, <2>2, <2>3, Zenon
<1>12. ASSUME NEW t \in Threads, NEW b \in BOOLEAN, Flushes(t, b) PROVE MutexOwners'
  <2>1. CASE HsFlushNet(t, b)
    BY <2>1, ThreadsAssumption, Zenon
       DEF HsFlushNet, At, FlushNet, Goto, Emit, NetWrite
  <2>2. CASE HsFailFlushNet(t, b)
    BY <2>2, ThreadsAssumption, Zenon
       DEF HsFailFlushNet, At, FlushNet, Emit, NetWrite
  <2> QED
    BY <1>12, <2>1, <2>2, Zenon DEF Flushes
<1>13. ASSUME NEW t \in Threads, NEW b \in BOOLEAN, ReadFails(t, b) PROVE MutexOwners'
  <2>1. CASE ReadFail(t, b)
    BY <2>1, ThreadsAssumption, Zenon
       DEF ReadFail, At, Return
  <2>2. CASE HsReadFail(t, b)
    BY <2>2, ThreadsAssumption, Zenon
       DEF HsReadFail, AtScript, Goto, At
  <2> QED
    BY <1>13, <2>1, <2>2, Zenon DEF ReadFails
<1>14. CASE NetBreak
  BY <1>14, Zenon DEF NetBreak
<1> HIDE DEF MutexOwners, AlertLabels, HsLabels, InLabels, OutLabels, goVars, locks
<1> QED
  BY <1>1, <1>2, <1>3, <1>4, <1>5, <1>6, <1>7, <1>8, <1>9, <1>10, <1>11, <1>12, <1>13, <1>14, Zenon
     DEF Next, Local, Calls, Handshaking, Scripted, Locking, Closing, Interrupter, Receives,
         Writes, Flushes, ReadFails

\* The owner of handshakeMutex leaves a consistent outcome behind.
LEMMA OutcomeStep ==
    ASSUME pc \in [Threads -> Labels], handshakes \in Nat, MutexOwners, OutcomeInv, PastHandshakeInv, Next
    PROVE  OutcomeInv'
<1> USE DEF OutcomeInv, Running, PastHandshakeInv, MutexOwners, Renegotiating, AlertLabels,
        HsLabels, InLabels, OutLabels, goVars, hsVars, locks
<1>1. ASSUME NEW t \in Threads, Calls(t) PROVE OutcomeInv'
  <2>1. CASE CallHandshake(t)
    BY <2>1, ThreadsAssumption, Zenon
       DEF CallHandshake, Call, Enter, At
  <2>2. CASE CallWrite(t)
    BY <2>2, ThreadsAssumption, ZenonT(60)
       DEF CallWrite, Call, Enter, Return, At
  <2>3. CASE CallRead(t)
    BY <2>3, ThreadsAssumption, Zenon
       DEF CallRead, Call, Enter, At
  <2>4. CASE CallClose(t)
    BY <2>4, ThreadsAssumption, ZenonT(60)
       DEF CallClose, Call, Enter, Return, At
  <2>5. CASE CallCloseWrite(t)
    BY <2>5, ThreadsAssumption, Zenon
       DEF CallCloseWrite, Call, Enter, At
  <2>6. CASE SetWriteDeadline(t)
    BY <2>6, ThreadsAssumption, Zenon
       DEF SetWriteDeadline, Call, Return, At
  <2> QED
    BY <1>1, <2>1, <2>2, <2>3, <2>4, <2>5, <2>6, Zenon DEF Calls
<1>2. ASSUME NEW t \in Threads, Handshaking(t) PROVE OutcomeInv'
  <2>1. CASE HandshakeEnter(t)
    BY <2>1, ThreadsAssumption, ZenonT(60)
       DEF HandshakeEnter, AfterHandshake, At, Goto, Return
  <2>2. CASE HandshakeLock(t)
    BY <2>2, ThreadsAssumption
       DEF HandshakeLock, At, Goto
  <2>3. CASE HandshakeInLock(t)
    BY <2>3, ThreadsAssumption, Zenon
       DEF HandshakeInLock, At, Goto
  <2>4. CASE HandshakeExit(t)
    BY <2>4, ThreadsAssumption, ZenonT(60)
       DEF HandshakeExit, AfterHandshake, At, Goto, Return
  <2>5. CASE HandshakeWait(t)
    BY <2>5, ThreadsAssumption, Zenon
       DEF HandshakeWait, At, Return
  <2> QED
    BY <1>2, <2>1, <2>2, <2>3, <2>4, <2>5, Zenon DEF Handshaking
<1>3. ASSUME NEW t \in Threads, Scripted(t) PROVE OutcomeInv'
  <2>1. CASE HsWrite(t)
    BY <2>1, ThreadsAssumption, Zenon
       DEF HsWrite, AtScript, Goto, At
  <2>2. CASE HsBuffer(t)
    BY <2>2, ThreadsAssumption, Zenon
       DEF HsBuffer, AtScript, At
  <2>3. CASE HsFlush(t)
    BY <2>3, ThreadsAssumption, ZenonT(60)
       DEF HsFlush, AtScript, Goto, At
  <2>4. CASE HsComplete(t)
    BY <2>4, ThreadsAssumption, Zenon
       DEF HsComplete, AtScript, Goto, At
  <2>5. CASE HsDone(t)
    BY <2>5, ThreadsAssumption
       DEF HsDone, At, Goto, Renegotiating
  <2>6. CASE HsFail(t)
    BY <2>6, ThreadsAssumption
       DEF HsFail, At, Goto, Renegotiating, Return
  <2> QED
    BY <1>3, <2>1, <2>2, <2>3, <2>4, <2>5, <2>6, Zenon DEF Scripted
<1>4. ASSUME NEW t \in Threads, Locking(t) PROVE OutcomeInv'
  <2>1. CASE WriteLock(t)
    BY <2>1, ThreadsAssumption, ZenonT(60)
       DEF WriteLock, At, Goto, Return
  <2>2. CASE ReadLock(t)
    BY <2>2, ThreadsAssumption, Zenon
       DEF ReadLock, At, Goto
  <2>3. CASE KeyUpdateLock(t)
    BY <2>3, ThreadsAssumption, Zenon
       DEF KeyUpdateLock, At, Goto
  <2>4. CASE RenegotiateLock(t)
    BY <2>4, ThreadsAssumption, Zenon
       DEF RenegotiateLock, At, Goto
  <2>5. CASE AlertLock(t)
    BY <2>5, ThreadsAssumption, Zenon
       DEF AlertLock, At, Goto
  <2> QED
    BY <1>4, <2>1, <2>2, <2>3, <2>4, <2>5, Zenon DEF Locking
<1>5. ASSUME NEW t \in Threads, Closing(t) PROVE OutcomeInv'
  <2>1. CASE CloseCheck(t)
    BY <2>1, ThreadsAssumption, ZenonT(60)
       DEF CloseCheck, At, Goto, Return
  <2>2. CASE CloseNotifyLock(t)
    BY <2>2, ThreadsAssumption, Zenon
       DEF CloseNotifyLock, At, Goto
  <2>3. CASE CloseNotifyDone(t)
    BY <2>3, ThreadsAssumption, ZenonT(60)
       DEF CloseNotifyDone, At, Return
  <2>4. CASE CloseNet(t)
    BY <2>4, ThreadsAssumption, Zenon
       DEF CloseNet, At, Return
  <2> QED
    BY <1>5, <2>1, <2>2, <2>3, <2>4, Zenon DEF Closing
<1>6. ASSUME NEW t \in Threads, Interrupter(t) PROVE OutcomeInv'
  <2>1. CASE InterrupterCancelled(t)
    BY <2>1, ThreadsAssumption, Zenon
       DEF InterrupterCancelled
  <2>2. CASE InterrupterDone(t)
    BY <2>2, ThreadsAssumption, Zenon
       DEF InterrupterDone
  <2> QED
    BY <1>6, <2>1, <2>2, Zenon DEF Interrupter
<1>7. ASSUME NEW t \in Threads,
           HsRead(t) \/ HsReadBad(t) \/ HsAbort(t) \/ ReadApp(t) \/ ReadPeerAlert(t)
     PROVE OutcomeInv'
  <2>1. CASE HsRead(t)
    BY <2>1, ThreadsAssumption, Zenon
       DEF HsRead, AtScript, At
  <2>2. CASE HsReadBad(t)
    BY <2>2, ThreadsAssumption, ZenonT(60)
       DEF HsReadBad, AtScript, Goto, At
  <2>3. CASE HsAbort(t)
    BY <2>3, ThreadsAssumption, ZenonT(60)
       DEF HsAbort, At, Goto, Renegotiating
  <2>4. CASE ReadApp(t)
    BY <2>4, ThreadsAssumption, ZenonT(60)
       DEF ReadApp, Receive, Return, At
  <2>5. CASE ReadPeerAlert(t)
    BY <2>5, ThreadsAssumption
       DEF ReadPeerAlert, Receive, Return, At
  <2> QED
    BY <1>7, <2>1, <2>2, <2>3, <2>4, <2>5, Zenon
<1>8. ASSUME NEW t \in Threads,
           ReadBad(t) \/ ReadOversize(t) \/ ReadKeyUpdate(t) \/ ReadHelloRequest(t)
     PROVE OutcomeInv'
  <2>1. CASE ReadBad(t)
    BY <2>1, ThreadsAssumption
       DEF ReadBad, Goto, Receive, At
  <2>2. CASE ReadOversize(t)
    BY <2>2, ThreadsAssumption, Zenon
       DEF ReadOversize, Goto, Receive, At
  <2>3. CASE ReadKeyUpdate(t)
    BY <2>3, ThreadsAssumption, ZenonT(60)
       DEF ReadKeyUpdate, Goto, Receive, At
  <2>4. CASE ReadHelloRequest(t)
    BY <2>4, ThreadsAssumption, ZenonT(60)
       DEF ReadHelloRequest, Goto, MayRenegotiate, Receive, At
  <2> QED
    BY <1>8, <2>1, <2>2, <2>3, <2>4, Zenon
<1>9. ASSUME NEW t \in Threads, Cancel(t) PROVE OutcomeInv'
  BY <1>9, ThreadsAssumption, Zenon
     DEF Cancel, At
<1>10. ASSUME NEW t \in Threads, NEW b \in BOOLEAN,
           HsWriteNet(t, b) \/ WriteNet(t, b) \/ KeyUpdateNet(t, b)
     PROVE OutcomeInv'
  <2>1. CASE HsWriteNet(t, b)
    BY <2>1, ThreadsAssumption, Zenon
       DEF HsWriteNet, At, Goto, WriteRecord, Emit, NetWrite
  <2>2. CASE WriteNet(t, b)
    BY <2>2, ThreadsAssumption, Zenon
       DEF WriteNet, At, Return, WriteRecord, Emit, NetWrite
  <2>3. CASE KeyUpdateNet(t, b)
    BY <2>3, ThreadsAssumption, Zenon
       DEF KeyUpdateNet, At, Goto, WriteRecord, Emit, NetWrite
  <2> QED
    BY <1>10, <2>1, <2>2, <2>3, Zenon
<1>11. ASSUME NEW t \in Threads, NEW b \in BOOLEAN,
           AlertNet(t, b) \/ OversizeAlertNet(t, b) \/ CloseNotifyNet(t, b)
     PROVE OutcomeInv'
  <2>1. CASE AlertNet(t, b)
    BY <2>1, ThreadsAssumption, ZenonT(60)
       DEF AlertNet, AfterAlert, At, SendAlertLocked, WriteRecord, Emit, NetWrite, Goto,
        Return
  <2>2. CASE OversizeAlertNet(t, b)
    BY <2>2, ThreadsAssumption, ZenonT(60)
       DEF OversizeAlertNet, AfterAlert, At, SendAlertLocked, WriteRecord, Emit, NetWrite,
        Goto, Return
  <2>3. CASE CloseNotifyNet(t, b)
    BY <2>3, ThreadsAssumption, Zenon
       DEF CloseNotifyNet, At, Goto, WriteRecord, Emit, NetWrite
  <2> QED
    BY <1>11, <2>1, <2>2, <2>3, Zenon
<1>12. ASSUME NEW t \in Threads, NEW b \in BOOLEAN, Flushes(t, b) PROVE OutcomeInv'
  <2>1. CASE HsFlushNet(t, b)
    BY <2>1, ThreadsAssumption, Zenon
       DEF HsFlushNet, At, FlushNet, Goto, Emit, NetWrite
  <2>2. CASE HsFailFlushNet(t, b)
    BY <2>2, ThreadsAssumption, Zenon
       DEF HsFailFlushNet, At, FlushNet, Emit, NetWrite
  <2> QED
    BY <1>12, <2>1, <2>2, Zenon DEF Flushes
<1>13. ASSUME NEW t \in Threads, NEW b \in BOOLEAN, ReadFails(t, b) PROVE OutcomeInv'
  <2>1. CASE ReadFail(t, b)
    BY <2>1, ThreadsAssumption, Zenon
       DEF ReadFail, At, Return
  <2>2. CASE HsReadFail(t, b)
    BY <2>2, ThreadsAssumption, Zenon
       DEF HsReadFail, AtScript, Goto, At
  <2> QED
    BY <1>13, <2>1, <2>2, Zenon DEF ReadFails
<1>14. CASE NetBreak
  BY <1>14, Zenon DEF NetBreak
<1> HIDE DEF OutcomeInv, Running, PastHandshakeInv, MutexOwners, Renegotiating, AlertLabels,
        HsLabels, InLabels, OutLabels, goVars, hsVars, locks
<1> QED
  BY <1>1, <1>2, <1>3, <1>4, <1>5, <1>6, <1>7, <1>8, <1>9, <1>10, <1>11, <1>12, <1>13, <1>14, Zenon
     DEF Next, Local, Calls, Handshaking, Scripted, Locking, Closing, Interrupter, Receives,
         Writes, Flushes, ReadFails

\* No goroutine gets past its handshake before one has succeeded.
LEMMA PastHandshakeStep ==
    ASSUME pc \in [Threads -> Labels], ret \in [Threads -> Results], handshakes \in Nat,
           handshakeMutex \in Threads \cup {NoThread}, MutexOwners, OutcomeInv, PastHandshakeInv, Next
    PROVE  PastHandshakeInv'
<1> USE DEF OutcomeInv, Running, PastHandshakeInv, MutexOwners, Renegotiating,
        MayRenegotiate, AlertLabels, HsLabels, InLabels, OutLabels, goVars, hsVars, locks
<1>1. ASSUME NEW t \in Threads, Calls(t) PROVE PastHandshakeInv'
  <2>1. CASE CallHandshake(t)
    BY <2>1, ThreadsAssumption, PeerKindsAssumption, Zenon
       DEF CallHandshake, Call, Enter, At
  <2>2. CASE CallWrite(t)
    BY <2>2, ThreadsAssumption, PeerKindsAssumption, ZenonT(60)
       DEF CallWrite, Call, Enter, Return, At
  <2>3. CASE CallRead(t)
    BY <2>3, ThreadsAssumption, PeerKindsAssumption, Zenon
       DEF CallRead, Call, Enter, At
  <2>4. CASE CallClose(t)
    BY <2>4, ThreadsAssumption, PeerKindsAssumption, ZenonT(60)
       DEF CallClose, Call, Enter, Return, At
  <2>5. CASE CallCloseWrite(t)
    BY <2>5, ThreadsAssumption, PeerKindsAssumption, Zenon
       DEF CallCloseWrite, Call, Enter, At
  <2>6. CASE SetWriteDeadline(t)
    BY <2>6, ThreadsAssumption, PeerKindsAssumption, Zenon
       DEF SetWriteDeadline, Call, Return, At
  <2> QED
    BY <1>1, <2>1, <2>2, <2>3, <2>4, <2>5, <2>6, Zenon DEF Calls
<1>2. ASSUME NEW t \in Threads, Handshaking(t) PROVE PastHandshakeInv'
  <2>1. CASE HandshakeEnter(t)
    BY <2>1, ThreadsAssumption, PeerKindsAssumption
       DEF HandshakeEnter, AfterHandshake, At, Goto, Return
  <2>2. CASE HandshakeLock(t)
    BY <2>2, ThreadsAssumption, PeerKindsAssumption, ZenonT(60)
       DEF HandshakeLock, At, Goto
  <2>3. CASE HandshakeInLock(t)
    BY <2>3, ThreadsAssumption, PeerKindsAssumption, Zenon
       DEF HandshakeInLock, At, Goto
  <2>4. CASE HandshakeExit(t)
    BY <2>4, ThreadsAssumption, PeerKindsAssumption, ZenonT(60)
       DEF HandshakeExit, AfterHandshake, At, Goto, Return
  <2>5. CASE HandshakeWait(t)
    BY <2>5, ThreadsAssumption, PeerKindsAssumption, Zenon
       DEF HandshakeWait, At, Return
  <2> QED
    BY <1>2, <2>1, <2>2, <2>3, <2>4, <2>5, Zenon DEF Handshaking
<1>3. ASSUME NEW t \in Threads, Scripted(t) PROVE PastHandshakeInv'
  <2>1. CASE HsWrite(t)
    BY <2>1, ThreadsAssumption, PeerKindsAssumption, Zenon
       DEF HsWrite, AtScript, Goto, At
  <2>2. CASE HsBuffer(t)
    BY <2>2, ThreadsAssumption, PeerKindsAssumption, Zenon
       DEF HsBuffer, AtScript, At
  <2>3. CASE HsFlush(t)
    BY <2>3, ThreadsAssumption, PeerKindsAssumption, ZenonT(60)
       DEF HsFlush, AtScript, Goto, At
  <2>4. CASE HsComplete(t)
    BY <2>4, ThreadsAssumption, PeerKindsAssumption, Zenon
       DEF HsComplete, AtScript, Goto, At
  <2>5. CASE HsDone(t)
    BY <2>5, ThreadsAssumption, PeerKindsAssumption
       DEF HsDone, At, Goto, Renegotiating
  <2>6. CASE HsFail(t)
    BY <2>6, ThreadsAssumption, PeerKindsAssumption, ZenonT(60)
       DEF HsFail, At, Goto, Renegotiating, Return
  <2> QED
    BY <1>3, <2>1, <2>2, <2>3, <2>4, <2>5, <2>6, Zenon DEF Scripted
<1>4. ASSUME NEW t \in Threads, Locking(t) PROVE PastHandshakeInv'
  <2>1. CASE WriteLock(t)
    BY <2>1, ThreadsAssumption, PeerKindsAssumption, ZenonT(60)
       DEF WriteLock, At, Goto, Return
  <2>2. CASE ReadLock(t)
    BY <2>2, ThreadsAssumption, PeerKindsAssumption, Zenon
       DEF ReadLock, At, Goto
  <2>3. CASE KeyUpdateLock(t)
    BY <2>3, ThreadsAssumption, PeerKindsAssumption, Zenon
       DEF KeyUpdateLock, At, Goto
  <2>4. CASE RenegotiateLock(t)
    BY <2>4, ThreadsAssumption, PeerKindsAssumption, Zenon
       DEF RenegotiateLock, At, Goto
  <2>5. CASE AlertLock(t)
    BY <2>5, ThreadsAssumption, PeerKindsAssumption, Zenon
       DEF AlertLock, At, Goto
  <2> QED
    BY <1>4, <2>1, <2>2, <2>3, <2>4, <2>5, Zenon DEF Locking
<1>5. ASSUME NEW t \in Threads, Closing(t) PROVE PastHandshakeInv'
  <2>1. CASE CloseCheck(t)
    BY <2>1, ThreadsAssumption, PeerKindsAssumption, ZenonT(60)
       DEF CloseCheck, At, Goto, Return
  <2>2. CASE CloseNotifyLock(t)
    BY <2>2, ThreadsAssumption, PeerKindsAssumption, Zenon
       DEF CloseNotifyLock, At, Goto
  <2>3. CASE CloseNotifyDone(t)
    BY <2>3, ThreadsAssumption, PeerKindsAssumption, ZenonT(60)
       DEF CloseNotifyDone, At, Return
  <2>4. CASE CloseNet(t)
    BY <2>4, ThreadsAssumption, PeerKindsAssumption, Zenon
       DEF CloseNet, At, Return
  <2> QED
    BY <1>5, <2>1, <2>2, <2>3, <2>4, Zenon DEF Closing
<1>6. ASSUME NEW t \in Threads, Interrupter(t) PROVE PastHandshakeInv'
  <2>1. CASE InterrupterCancelled(t)
    BY <2>1, ThreadsAssumption, PeerKindsAssumption, Zenon
       DEF InterrupterCancelled
  <2>2. CASE InterrupterDone(t)
    BY <2>2, ThreadsAssumption, PeerKindsAssumption, Zenon
       DEF InterrupterDone
  <2> QED
    BY <1>6, <2>1, <2>2, Zenon DEF Interrupter
<1>7. ASSUME NEW t \in Threads,
           HsRead(t) \/ HsReadBad(t) \/ HsAbort(t) \/ ReadApp(t) \/ ReadPeerAlert(t)
     PROVE PastHandshakeInv'
  <2>1. CASE HsRead(t)
    BY <2>1, ThreadsAssumption, PeerKindsAssumption, Zenon
       DEF HsRead, AtScript, At
  <2>2. CASE HsReadBad(t)
    BY <2>2, ThreadsAssumption, PeerKindsAssumption
       DEF HsReadBad, AtScript, Goto, At
  <2>3. CASE HsAbort(t)
    BY <2>3, ThreadsAssumption, PeerKindsAssumption, ZenonT(60)
       DEF HsAbort, At, Goto, Renegotiating
  <2>4. CASE ReadApp(t)
    BY <2>4, ThreadsAssumption, PeerKindsAssumption, Zenon
       DEF ReadApp, Receive, Return, At
  <2>5. CASE ReadPeerAlert(t)
    BY <2>5, ThreadsAssumption, PeerKindsAssumption, Zenon
       DEF ReadPeerAlert, Receive, Return, At
  <2> QED
    BY <1>7, <2>1, <2>2, <2>3, <2>4, <2>5, Zenon
<1>8. ASSUME NEW t \in Threads,
           ReadBad(t) \/ ReadOversize(t) \/ ReadKeyUpdate(t) \/ ReadHelloRequest(t)
     PROVE PastHandshakeInv'
  <2>1. CASE ReadBad(t)
    BY <2>1, ThreadsAssumption, PeerKindsAssumption, Zenon
       DEF ReadBad, Goto, Receive, At
  <2>2. CASE ReadOversize(t)
    BY <2>2, ThreadsAssumption, PeerKindsAssumption, Zenon
       DEF ReadOversize, Goto, Receive, At
  <2>3. CASE ReadKeyUpdate(t)
    BY <2>3, ThreadsAssumption, PeerKindsAssumption, Zenon
       DEF ReadKeyUpdate, Goto, Receive, At
  <2>4. CASE ReadHelloRequest(t)
    BY <2>4, ThreadsAssumption, PeerKindsAssumption, Zenon
       DEF ReadHelloRequest, Goto, MayRenegotiate, Receive, At
  <2> QED
    BY <1>8, <2>1, <2>2, <2>3, <2>4, Zenon
<1>9. ASSUME NEW t \in Threads, Cancel(t) PROVE PastHandshakeInv'
  BY <1>9, ThreadsAssumption, PeerKindsAssumption, Zenon
     DEF Cancel, At
<1>10. ASSUME NEW t \in Threads, NEW b \in BOOLEAN,
           HsWriteNet(t, b) \/ WriteNet(t, b) \/ KeyUpdateNet(t, b)
     PROVE PastHandshakeInv'
  <2>1. CASE HsWriteNet(t, b)
    BY <2>1, ThreadsAssumption, PeerKindsAssumption, Zenon
       DEF HsWriteNet, At, Goto, WriteRecord, Emit, NetWrite
  <2>2. CASE WriteNet(t, b)
    BY <2>2, ThreadsAssumption, PeerKindsAssumption, Zenon
       DEF WriteNet, At, Return, WriteRecord, Emit, NetWrite
  <2>3. CASE KeyUpdateNet(t, b)
    BY <2>3, ThreadsAssumption, PeerKindsAssumption, Zenon
       DEF KeyUpdateNet, At, Goto, WriteRecord, Emit, NetWrite
  <2> QED
    BY <1>10, <2>1, <2>2, <2>3, Zenon
<1>11. ASSUME NEW t \in Threads, NEW b \in BOOLEAN,
           AlertNet(t, b) \/ OversizeAlertNet(t, b) \/ CloseNotifyNet(t, b)
     PROVE PastHandshakeInv'
  <2>1. CASE AlertNet(t, b)
    BY <2>1, ThreadsAssumption, PeerKindsAssumption, ZenonT(60)
       DEF AlertNet, AfterAlert, At, SendAlertLocked, WriteRecord, Emit, NetWrite, Goto,
        Return
  <2>2. CASE OversizeAlertNet(t, b)
    BY <2>2, ThreadsAssumption, PeerKindsAssumption, ZenonT(60)
       DEF OversizeAlertNet, AfterAlert, At, SendAlertLocked, WriteRecord, Emit, NetWrite,
        Goto, Return
  <2>3. CASE CloseNotifyNet(t, b)
    BY <2>3, ThreadsAssumption, PeerKindsAssumption, Zenon
       DEF CloseNotifyNet, At, Goto, WriteRecord, Emit, NetWrite
  <2> QED
    BY <1>11, <2>1, <2>2, <2>3, Zenon
<1>12. ASSUME NEW t \in Threads, NEW b \in BOOLEAN, Flushes(t, b) PROVE PastHandshakeInv'
  <2>1. CASE HsFlushNet(t, b)
    BY <2>1, ThreadsAssumption, PeerKindsAssumption, Zenon
       DEF HsFlushNet, At, FlushNet, Goto, Emit, NetWrite
  <2>2. CASE HsFailFlushNet(t, b)
    BY <2>2, ThreadsAssumption, PeerKindsAssumption, Zenon
       DEF HsFailFlushNet, At, FlushNet, Emit, NetWrite
  <2> QED
    BY <1>12, <2>1, <2>2, Zenon DEF Flushes
<1>13. ASSUME NEW t \in Threads, NEW b \in BOOLEAN, ReadFails(t, b) PROVE PastHandshakeInv'
  <2>1. CASE ReadFail(t, b)
    BY <2>1, ThreadsAssumption, PeerKindsAssumption, Zenon
       DEF ReadFail, At, Return
  <2>2. CASE HsReadFail(t, b)
    BY <2>2, ThreadsAssumption, PeerKindsAssumption, Zenon
       DEF HsReadFail, AtScript, Goto, At
  <2> QED
    BY <1>13, <2>1, <2>2, Zenon DEF ReadFails
<1>14. CASE NetBreak
  BY <1>14, Zenon DEF NetBreak
<1> HIDE DEF OutcomeInv, Running, PastHandshakeInv, MutexOwners, Renegotiating,
        MayRenegotiate, AlertLabels, HsLabels, InLabels, OutLabels, goVars, hsVars, locks
<1> QED
  BY <1>1, <1>2, <1>3, <1>4, <1>5, <1>6, <1>7, <1>8, <1>9, <1>10, <1>11, <1>12, <1>13, <1>14, Zenon
     DEF Next, Local, Calls, Handshaking, Scripted, Locking, Closing, Interrupter, Receives,
         Writes, Flushes, ReadFails

\* Only HsDone counts a handshake, and only of a goroutine that may renegotiate.
LEMMA RenegotiationStep ==
    ASSUME pc \in [Threads -> Labels], handshakes \in Nat, MutexOwners, PastHandshakeInv, RenegotiationBound, Next
    PROVE  RenegotiationBound'
<1> USE DEF RenegotiationBound, PastHandshakeInv, MutexOwners, MayRenegotiate, HsLabels,
        hsVars
<1>1. ASSUME NEW t \in Threads, Calls(t) PROVE RenegotiationBound'
  BY <1>1, Zenon
     DEF Calls, CallHandshake, Call, Enter, At, CallWrite, Return, CallRead, CallClose,
        CallCloseWrite, SetWriteDeadline
<1>2. ASSUME NEW t \in Threads, Handshaking(t) PROVE RenegotiationBound'
  BY <1>2, Zenon
     DEF Handshaking, HandshakeEnter, AfterHandshake, Goto, Return, At, HandshakeLock,
        HandshakeInLock, HandshakeExit, HandshakeWait
<1>3. ASSUME NEW t \in Threads, Scripted(t) PROVE RenegotiationBound'
  <2>1. CASE HsWrite(t)
    BY <2>1, Zenon
       DEF HsWrite, AtScript, Goto, At
  <2>2. CASE HsBuffer(t)
    BY <2>2, Zenon
       DEF HsBuffer, AtScript, At
  <2>3. CASE HsFlush(t)
    BY <2>3, Zenon
       DEF HsFlush, AtScript, Goto, At
  <2>4. CASE HsComplete(t)
    BY <2>4, Zenon
       DEF HsComplete, AtScript, Goto, At
  <2>5. CASE HsDone(t)
    BY <2>5
       DEF HsDone, At, Goto, Renegotiating
  <2>6. CASE HsFail(t)
    BY <2>6, Zenon
       DEF HsFail, At, Goto, Renegotiating, Return
  <2> QED
    BY <1>3, <2>1, <2>2, <2>3, <2>4, <2>5, <2>6, Zenon DEF Scripted
<1>4. ASSUME NEW t \in Threads, Locking(t) PROVE RenegotiationBound'
  BY <1>4, Zenon
     DEF Locking, WriteLock, Goto, Return, At, ReadLock, KeyUpdateLock, RenegotiateLock,
        AlertLock
<1>5. ASSUME NEW t \in Threads, Closing(t) PROVE RenegotiationBound'
  BY <1>5, Zenon
     DEF Closing, CloseCheck, Goto, Return, At, CloseNotifyLock, CloseNotifyDone, CloseNet
<1>6. ASSUME NEW t \in Threads, Interrupter(t) PROVE RenegotiationBound'
  BY <1>6, Zenon
     DEF Interrupter, InterrupterCancelled, At, InterrupterDone
<1>7. ASSUME NEW t \in Threads,
           HsRead(t) \/ HsReadBad(t) \/ HsAbort(t) \/ ReadApp(t) \/ ReadPeerAlert(t)
     PROVE RenegotiationBound'
  BY <1>7, Zenon
     DEF HsRead, AtScript, At, HsReadBad, Goto, HsAbort, Renegotiating, ReadApp, Receive,
        Return, ReadPeerAlert
<1>8. ASSUME NEW t \in Threads,
           ReadBad(t) \/ ReadOversize(t) \/ ReadKeyUpdate(t) \/ ReadHelloRequest(t)
     PROVE RenegotiationBound'
  BY <1>8, Zenon
     DEF ReadBad, Receive, Goto, At, ReadOversize, ReadKeyUpdate, ReadHelloRequest,
        MayRenegotiate
<1>9. ASSUME NEW t \in Threads, Cancel(t) PROVE RenegotiationBound'
  BY <1>9, Zenon
     DEF Cancel, At
<1>10. ASSUME NEW t \in Threads, NEW b \in BOOLEAN,
           HsWriteNet(t, b) \/ WriteNet(t, b) \/ KeyUpdateNet(t, b)
     PROVE RenegotiationBound'
  BY <1>10, Zenon
     DEF HsWriteNet, WriteRecord, NetWrite, Emit, Goto, At, WriteNet, Return, KeyUpdateNet
<1>11. ASSUME NEW t \in Threads, NEW b \in BOOLEAN,
           AlertNet(t, b) \/ OversizeAlertNet(t, b) \/ CloseNotifyNet(t, b)
     PROVE RenegotiationBound'
  BY <1>11, Zenon
     DEF AlertNet, SendAlertLocked, WriteRecord, NetWrite, Emit, AfterAlert, Goto, Return,
        At, OversizeAlertNet, CloseNotifyNet
<1>12. ASSUME NEW t \in Threads, NEW b \in BOOLEAN, Flushes(t, b) PROVE RenegotiationBound'
  BY <1>12, Zenon
     DEF Flushes, HsFlushNet, FlushNet, NetWrite, Emit, Goto, At, HsFailFlushNet
<1>13. ASSUME NEW t \in Threads, NEW b \in BOOLEAN, ReadFails(t, b) PROVE RenegotiationBound'
  BY <1>13, Zenon
     DEF ReadFails, ReadFail, Return, At, HsReadFail, AtScript, Goto
<1>14. CASE NetBreak
  BY <1>14, Zenon DEF NetBreak
<1> HIDE DEF RenegotiationBound, PastHandshakeInv, MutexOwners, MayRenegotiate, HsLabels,
        hsVars
<1> QED
  BY <1>1, <1>2, <1>3, <1>4, <1>5, <1>6, <1>7, <1>8, <1>9, <1>10, <1>11, <1>12, <1>13, <1>14, Zenon
     DEF Next, Local, Calls, Handshaking, Scripted, Locking, Closing, Interrupter, Receives,
         Writes, Flushes, ReadFails

\* Only the owner of c.out sends application data, and it has seen
\* closeNotifySent false.
LEMMA CloseNotifyStep ==
    ASSUME pc \in [Threads -> Labels], MutexOwners, WriteInv, CloseNotifyInv, Next
    PROVE  CloseNotifyInv'
<1> USE DEF CloseNotifyInv, NoAppAfterCloseNotify, WriteInv, MutexOwners, OutLabels, goVars,
        locks, recVars, closeVars, wireVars
<1>1. ASSUME NEW t \in Threads, Calls(t) PROVE CloseNotifyInv'
  BY <1>1, ThreadsAssumption, Zenon
     DEF Calls, CallHandshake, Call, Enter, At, CallWrite, Return, CallRead, CallClose,
        CallCloseWrite, SetWriteDeadline
<1>2. ASSUME NEW t \in Threads, Handshaking(t) PROVE CloseNotifyInv'
  BY <1>2, ThreadsAssumption, Zenon
     DEF Handshaking, HandshakeEnter, AfterHandshake, Goto, Return, At, HandshakeLock,
        HandshakeInLock, HandshakeExit, HandshakeWait
<1>3. ASSUME NEW t \in Threads, Scripted(t) PROVE CloseNotifyInv'
  BY <1>3, ThreadsAssumption, Zenon
     DEF Scripted, HsWrite, AtScript, Goto, At, HsBuffer, HsFlush, HsComplete, HsDone,
        Renegotiating, HsFail, Return
<1>4. ASSUME NEW t \in Threads, Locking(t) PROVE CloseNotifyInv'
  BY <1>4, ThreadsAssumption, Zenon
     DEF Locking, WriteLock, Goto, Return, At, ReadLock, KeyUpdateLock, RenegotiateLock,
        AlertLock
<1>5. ASSUME NEW t \in Threads, Closing(t) PROVE CloseNotifyInv'
  BY <1>5, ThreadsAssumption, Zenon
     DEF Closing, CloseCheck, Goto, Return, At, CloseNotifyLock, CloseNotifyDone, CloseNet
<1>6. ASSUME NEW t \in Threads, Interrupter(t) PROVE CloseNotifyInv'
  BY <1>6, ThreadsAssumption, Zenon
     DEF Interrupter, InterrupterCancelled, At, InterrupterDone
<1>7. ASSUME NEW t \in Threads,
           HsRead(t) \/ HsReadBad(t) \/ HsAbort(t) \/ ReadApp(t) \/ ReadPeerAlert(t)
     PROVE CloseNotifyInv'
  BY <1>7, ThreadsAssumption, Zenon
     DEF HsRead, AtScript, At, HsReadBad, Goto, HsAbort, Renegotiating, ReadApp, Receive,
        Return, ReadPeerAlert
<1>8. ASSUME NEW t \in Threads,
           ReadBad(t) \/ ReadOversize(t) \/ ReadKeyUpdate(t) \/ ReadHelloRequest(t)
     PROVE CloseNotifyInv'
  BY <1>8, ThreadsAssumption, Zenon
     DEF ReadBad, Receive, Goto, At, ReadOversize, ReadKeyUpdate, ReadHelloRequest,
        MayRenegotiate
<1>9. ASSUME NEW t \in Threads, Cancel(t) PROVE CloseNotifyInv'
  BY <1>9, ThreadsAssumption, Zenon
     DEF Cancel, At
<1>10. ASSUME NEW t \in Threads, NEW b \in BOOLEAN,
           HsWriteNet(t, b) \/ WriteNet(t, b) \/ KeyUpdateNet(t, b)
     PROVE CloseNotifyInv'
  <2>1. CASE HsWriteNet(t, b)
    BY <2>1, ThreadsAssumption
       DEF HsWriteNet, At, Goto, WriteRecord, Emit, NetWrite
  <2>2. CASE WriteNet(t, b)
    BY <2>2, ThreadsAssumption
       DEF WriteNet, At, Return, WriteRecord, Emit, NetWrite
  <2>3. CASE KeyUpdateNet(t, b)
    BY <2>3, ThreadsAssumption
       DEF KeyUpdateNet, At, Goto, WriteRecord, Emit, NetWrite
  <2> QED
    BY <1>10, <2>1, <2>2, <2>3, Zenon
<1>11. ASSUME NEW t \in Threads, NEW b \in BOOLEAN,
           AlertNet(t, b) \/ OversizeAlertNet(t, b) \/ CloseNotifyNet(t, b)
     PROVE CloseNotifyInv'
  <2>1. CASE AlertNet(t, b)
    BY <2>1, ThreadsAssumption
       DEF AlertNet, AfterAlert, At, SendAlertLocked, WriteRecord, Emit, NetWrite, Goto,
        Return
  <2>2. CASE OversizeAlertNet(t, b)
    BY <2>2, ThreadsAssumption
       DEF OversizeAlertNet, AfterAlert, At, SendAlertLocked, WriteRecord, Emit, NetWrite,
        Goto, Return
  <2>3. CASE CloseNotifyNet(t, b)
    BY <2>3, ThreadsAssumption
       DEF CloseNotifyNet, At, Goto, WriteRecord, Emit, NetWrite
  <2> QED
    BY <1>11, <2>1, <2>2, <2>3, Zenon
<1>12. ASSUME NEW t \in Threads, NEW b \in BOOLEAN, Flushes(t, b) PROVE CloseNotifyInv'
  <2>1. CASE HsFlushNet(t, b)
    BY <2>1, ThreadsAssumption
       DEF HsFlushNet, At, FlushNet, Goto, Emit, NetWrite
  <2>2. CASE HsFailFlushNet(t, b)
    BY <2>2, ThreadsAssumption
       DEF HsFailFlushNet, At, FlushNet, Emit, NetWrite
  <2> QED
    BY <1>12, <2>1, <2>2, Zenon DEF Flushes
<1>13. ASSUME NEW t \in Threads, NEW b \in BOOLEAN, ReadFails(t, b) PROVE CloseNotifyInv'
  BY <1>13, ThreadsAssumption, Zenon
     DEF ReadFails, ReadFail, Return, At, HsReadFail, AtScript, Goto
<1>14. CASE NetBreak
  BY <1>14, Zenon DEF NetBreak
<1> HIDE DEF CloseNotifyInv, NoAppAfterCloseNotify, WriteInv, MutexOwners, OutLabels,
        goVars, locks, recVars, closeVars, wireVars
<1> QED
  BY <1>1, <1>2, <1>3, <1>4, <1>5, <1>6, <1>7, <1>8, <1>9, <1>10, <1>11, <1>12, <1>13, <1>14, Zenon
     DEF Next, Local, Calls, Handshaking, Scripted, Locking, Closing, Interrupter, Receives,
         Writes, Flushes, ReadFails

\* The inductive invariant: IInv holds in every reachable state.
THEOREM Inductive == Spec => []IInv
<1>1. Init => IInv
  <2> SUFFICES ASSUME Init PROVE IInv
    BY Zenon
  <2>1. TypeOK
    BY InitType, Zenon
  <2>2. MutexOwners /\ OutcomeInv /\ PastHandshakeInv
    BY ThreadsAssumption
       DEF Init, MutexOwners, OutcomeInv, PastHandshakeInv, Running, HsLabels, AlertLabels,
           InLabels, OutLabels
  <2>3. RenegotiationBound /\ BufferInv /\ WriteInv
    BY DEF Init, RenegotiationBound, BufferInv, WellFormed, WriteInv
  <2>4. CloseNotifyInv
    BY Zenon DEF Init, CloseNotifyInv, NoAppAfterCloseNotify
  <2> QED
    BY <2>1, <2>2, <2>3, <2>4, Zenon DEF IInv
<1>2. IInv /\ Next => IInv'
  <2> SUFFICES ASSUME IInv, Next PROVE IInv'
    BY Zenon
  <2>1. TypeOK'
    BY TypeStep, Zenon DEF IInv
  <2>2. /\ pc \in [Threads -> Labels] /\ ret \in [Threads -> Results] /\ handshakes \in Nat
        /\ handshakeMutex \in Threads \cup {NoThread}
        /\ todo \in Seq(Steps) /\ sendBuf \subseteq Kinds
    BY Zenon DEF IInv, TypeOK, GoroutineTypeOK, HandshakeTypeOK, RecordTypeOK
  <2>3. MutexOwners' /\ OutcomeInv' /\ PastHandshakeInv' /\ RenegotiationBound'
    BY <2>2, MutexStep, OutcomeStep, PastHandshakeStep, RenegotiationStep, Zenon DEF IInv
  <2>4. BufferInv' /\ WriteInv' /\ CloseNotifyInv'
    BY <2>2, BufferStep, WriteStep, CloseNotifyStep, Zenon DEF IInv
  <2> QED
    BY <2>1, <2>3, <2>4, Zenon DEF IInv
<1>3. IInv /\ UNCHANGED vars => IInv'
  <2> SUFFICES ASSUME IInv, UNCHANGED vars PROVE IInv'
    BY Zenon
  <2> USE DEF vars, goVars, hsVars, locks, recVars, closeVars, wireVars
  <2>1. TypeOK'
    BY StutterType, Zenon DEF IInv
  <2>2. MutexOwners' /\ OutcomeInv'
    BY Zenon DEF IInv, MutexOwners, OutcomeInv
  <2>3. PastHandshakeInv' /\ RenegotiationBound'
    BY Zenon DEF IInv, PastHandshakeInv, MayRenegotiate, RenegotiationBound
  <2>4. BufferInv' /\ WriteInv'
    BY Zenon DEF IInv, BufferInv, WriteInv, Renegotiating
  <2>5. CloseNotifyInv'
    BY Zenon DEF IInv, CloseNotifyInv, NoAppAfterCloseNotify
  <2> QED
    BY <2>1, <2>2, <2>3, <2>4, <2>5, Zenon DEF IInv
<1> QED
  BY <1>1, <1>2, <1>3, PTL DEF Spec

\* Every mutex of a Conn is owned exactly between its Lock and its Unlock.
THEOREM MutexesOwned == Spec => []MutexOwners
  BY Inductive, PTL DEF IInv

\* The two lock orders of handshakeContext and handleRenegotiation never meet.
THEOREM LockOrdersNeverMeet == Spec => []NoLockCycle
<1>1. IInv => NoLockCycle
  BY DEF IInv, TypeOK, HandshakeTypeOK, OutcomeInv, PastHandshakeInv, NoLockCycle
<1> QED
  BY <1>1, Inductive, PTL

\* isHandshakeComplete implies handshakeErr == nil with handshakeMutex free.
THEOREM CompleteHasNoError == Spec => []CompleteImpliesNoError
<1>1. IInv => CompleteImpliesNoError
  BY Zenon DEF IInv, OutcomeInv, CompleteImpliesNoError
<1> QED
  BY <1>1, Inductive, PTL

\* Write sends application data only in its phase.
THEOREM AppDataOnlyInPhase == Spec => []AppDataInPhase
<1>1. IInv => AppDataInPhase
  BY Zenon DEF IInv, WriteInv, AppDataInPhase
<1> QED
  BY <1>1, Inductive, PTL

\* No application data follows the close_notify.
THEOREM AppBeforeCloseNotify == Spec => []NoAppAfterCloseNotify
<1>1. IInv => NoAppAfterCloseNotify
  BY Zenon DEF IInv, CloseNotifyInv
<1> QED
  BY <1>1, Inductive, PTL

\* RenegotiationSupport bounds the number of handshakes.
THEOREM RenegotiationIsBounded == Spec => []RenegotiationBound
<1>1. IInv => RenegotiationBound
  BY Zenon DEF IInv
<1> QED
  BY <1>1, Inductive, PTL

-----------------------------------------------------------------------------
(* How a Conn ends: the error of c.out, and what the close_notify and the  *)
(* alerts leave behind.  What is said of the last two needs a Conn that    *)
(* does not renegotiate.  The inductive invariants here build on IInv.     *)

\* No handshake follows the first.
OneHandshake == Renegotiation = "never" \/ ~IsClient \/ IsTLS13

\* It then stays complete, and alerts are sent by it or after it.
OnceInv ==
    /\ handshakes > 0 => isHandshakeComplete /\ ~handshakeErr
    /\ \A t \in Threads : pc[t] \in AlertLabels /\ handshakeMutex # t => handshakes > 0
    /\ AlertNotStranded

\* closeNotify runs after the handshake, hence outside of its buffer.
NotifiedInv ==
    /\ closeNotifySent => isHandshakeComplete /\ (closeNotifyErr \/ "close_notify" \in wire)
    /\ "close_notify" \notin sendBuf \cup flushBuf
    /\ \A t \in Threads :
         /\ pc[t] \in {"cn_lock", "cn_net", "cn_done"} => isHandshakeComplete
         /\ pc[t] = "cn_net" => ~closeNotifySent
         /\ pc[t] = "cn_done" => closeNotifyErr \/ "close_notify" \in wire

\* The deadline that closeNotify leaves in the past stays there.
PastDeadlineInv ==
    /\ closeNotifySent => writeDeadline = "past"
    /\ NothingAfterCloseNotify

-----------------------------------------------------------------------------
(* Preservation, one step per action.                                      *)

\* Every write to c.out.err is made by the owner of c.out.
LEMMA OutErrStep ==
    ASSUME "oversize" \notin PeerKinds, pc \in [Threads -> Labels], outErr \in BOOLEAN,
           MutexOwners, WriteInv, CloseNotifyInv, OutErrInv, Next
    PROVE  OutErrInv'
<1> USE DEF OutErrInv, NoAppAfterAlert, CloseNotifyInv, WriteInv, MutexOwners, OutLabels,
        goVars, locks, recVars, wireVars
<1>1. ASSUME NEW t \in Threads, Calls(t) PROVE OutErrInv'
  <2> HIDE DEF MutexOwners, WriteInv, CloseNotifyInv
  <2>1. CASE CallHandshake(t)
    BY <2>1, ThreadsAssumption, Zenon DEF CallHandshake, Call, Enter, At
  <2>2. CASE CallWrite(t)
    BY <2>2, ThreadsAssumption, Zenon DEF CallWrite, Call, Enter, Return, At
  <2>3. CASE CallRead(t)
    BY <2>3, ThreadsAssumption, Zenon DEF CallRead, Call, Enter, At
  <2>4. CASE CallClose(t)
    BY <2>4, ThreadsAssumption, Zenon DEF CallClose, Call, Enter, Return, At
  <2>5. CASE CallCloseWrite(t)
    BY <2>5, ThreadsAssumption, Zenon DEF CallCloseWrite, Call, Enter, At
  <2>6. CASE SetWriteDeadline(t)
    BY <2>6, ThreadsAssumption, Zenon DEF SetWriteDeadline, Call, Return, At
  <2> HIDE DEF OutErrInv
  <2> QED
    BY <1>1, <2>1, <2>2, <2>3, <2>4, <2>5, <2>6, Zenon DEF Calls
<1>2. ASSUME NEW t \in Threads, Handshaking(t) PROVE OutErrInv'
  <2> HIDE DEF MutexOwners, WriteInv, CloseNotifyInv
  <2>1. CASE HandshakeEnter(t)
    BY <2>1, ThreadsAssumption, Zenon DEF HandshakeEnter, AfterHandshake, Goto, Return, At
  <2>2. CASE HandshakeLock(t)
    BY <2>2, ThreadsAssumption, Zenon DEF HandshakeLock, Goto, At
  <2>3. CASE HandshakeInLock(t)
    BY <2>3, ThreadsAssumption, Zenon DEF HandshakeInLock, Goto, At
  <2>4. CASE HandshakeExit(t)
    BY <2>4, ThreadsAssumption, Zenon DEF HandshakeExit, AfterHandshake, Goto, Return, At
  <2>5. CASE HandshakeWait(t)
    BY <2>5, ThreadsAssumption, Zenon DEF HandshakeWait, Return, At
  <2> HIDE DEF OutErrInv
  <2> QED
    BY <1>2, <2>1, <2>2, <2>3, <2>4, <2>5, Zenon DEF Handshaking
<1>3. ASSUME NEW t \in Threads, Scripted(t) PROVE OutErrInv'
  <2>1. CASE HsWrite(t)
    BY <2>1, ThreadsAssumption, Zenon DEF HsWrite, AtScript, Goto, At
  <2>2. CASE HsBuffer(t)
    BY <2>2, ThreadsAssumption, Zenon DEF HsBuffer, AtScript, At
  <2>3. CASE HsFlush(t)
    BY <2>3, ThreadsAssumption, Zenon DEF HsFlush, AtScript, Goto, At
  <2>4. CASE HsComplete(t)
    BY <2>4, ThreadsAssumption, Zenon DEF HsComplete, AtScript, Goto, At
  <2>5. CASE HsDone(t)
    BY <2>5, ThreadsAssumption, Zenon DEF HsDone, At, Renegotiating, Goto
  <2>6. CASE HsFail(t)
    BY <2>6, ThreadsAssumption, Zenon DEF HsFail, At, Renegotiating, Goto, Return
  <2> QED
    BY <1>3, <2>1, <2>2, <2>3, <2>4, <2>5, <2>6, Zenon DEF Scripted
<1>4. ASSUME NEW t \in Threads, Locking(t) PROVE OutErrInv'
  <2>1. CASE WriteLock(t)
    BY <2>1, ThreadsAssumption, Zenon DEF WriteLock, At, Return, Goto
  <2>2. CASE ReadLock(t)
    BY <2>2, ThreadsAssumption, Zenon DEF ReadLock, At, Goto
  <2>3. CASE KeyUpdateLock(t)
    BY <2>3, ThreadsAssumption, Zenon DEF KeyUpdateLock, At, Goto
  <2>4. CASE RenegotiateLock(t)
    BY <2>4, ThreadsAssumption, Zenon DEF RenegotiateLock, At, Goto
  <2>5. CASE AlertLock(t)
    BY <2>5, ThreadsAssumption, Zenon DEF AlertLock, At, Goto
  <2> QED
    BY <1>4, <2>1, <2>2, <2>3, <2>4, <2>5, Zenon DEF Locking
<1>5. ASSUME NEW t \in Threads, Closing(t) PROVE OutErrInv'
  BY <1>5, ThreadsAssumption
     DEF Closing, CloseCheck, Goto, Return, At, CloseNotifyLock, CloseNotifyDone, CloseNet
<1>6. ASSUME NEW t \in Threads, InterrupterCancelled(t) PROVE OutErrInv'
  BY <1>6, ThreadsAssumption, Zenon
     DEF InterrupterCancelled, At
<1>7. ASSUME NEW t \in Threads, InterrupterDone(t) PROVE OutErrInv'
  BY <1>7, ThreadsAssumption, Zenon
     DEF InterrupterDone, At
<1>8. ASSUME NEW t \in Threads,
           HsRead(t) \/ HsReadBad(t) \/ HsAbort(t) \/ ReadApp(t) \/ ReadPeerAlert(t)
     PROVE OutErrInv'
  <2>1. CASE HsRead(t)
    BY <2>1, ThreadsAssumption, Zenon DEF HsRead, AtScript, At
  <2>2. CASE HsReadBad(t)
    BY <2>2, ThreadsAssumption, Zenon DEF HsReadBad, AtScript, Goto, At
  <2>3. CASE HsAbort(t)
    BY <2>3, ThreadsAssumption, Zenon DEF HsAbort, At, Renegotiating, Goto
  <2>4. CASE ReadApp(t)
    BY <2>4, ThreadsAssumption, Zenon DEF ReadApp, Receive, Return, At
  <2>5. CASE ReadPeerAlert(t)
    BY <2>5, ThreadsAssumption DEF ReadPeerAlert, Receive, Return, At
  <2> QED
    BY <1>8, <2>1, <2>2, <2>3, <2>4, <2>5, Zenon
<1>9. ASSUME NEW t \in Threads,
           ReadBad(t) \/ ReadOversize(t) \/ ReadKeyUpdate(t) \/ ReadHelloRequest(t)
     PROVE OutErrInv'
  <2>1. CASE ReadBad(t)
    BY <2>1, ThreadsAssumption DEF ReadBad, Receive, Goto, At
  <2>2. CASE ReadOversize(t)
    BY <2>2, ThreadsAssumption, Zenon DEF ReadOversize, Receive, Goto, At
  <2>3. CASE ReadKeyUpdate(t)
    BY <2>3, ThreadsAssumption, Zenon DEF ReadKeyUpdate, Receive, Goto, At
  <2>4. CASE ReadHelloRequest(t)
    BY <2>4, ThreadsAssumption, Zenon DEF ReadHelloRequest, Receive, Goto, MayRenegotiate, At
  <2> QED
    BY <1>9, <2>1, <2>2, <2>3, <2>4, Zenon
<1>10. ASSUME NEW t \in Threads, Cancel(t) PROVE OutErrInv'
  BY <1>10, ThreadsAssumption, Zenon
     DEF Cancel, At
<1>11. ASSUME NEW t \in Threads, NEW b \in BOOLEAN,
           HsWriteNet(t, b) \/ WriteNet(t, b) \/ KeyUpdateNet(t, b)
     PROVE OutErrInv'
  <2>1. CASE HsWriteNet(t, b)
    BY <2>1, ThreadsAssumption DEF HsWriteNet, At, WriteRecord, Goto, NetWrite, Emit
  <2>2. CASE WriteNet(t, b)
    BY <2>2, ThreadsAssumption DEF WriteNet, At, WriteRecord, Return, NetWrite, Emit
  <2>3. CASE KeyUpdateNet(t, b)
    BY <2>3, ThreadsAssumption DEF KeyUpdateNet, At, WriteRecord, Goto, NetWrite, Emit
  <2> QED
    BY <1>11, <2>1, <2>2, <2>3, Zenon
<1>12. ASSUME NEW t \in Threads, NEW b \in BOOLEAN,
           AlertNet(t, b) \/ OversizeAlertNet(t, b) \/ CloseNotifyNet(t, b)
     PROVE OutErrInv'
  <2>1. CASE AlertNet(t, b)
    BY <2>1, ThreadsAssumption
       DEF AlertNet, At, SendAlertLocked, AfterAlert, WriteRecord, Goto, Return, NetWrite, Emit
  <2>2. CASE OversizeAlertNet(t, b)
    BY <2>2, ThreadsAssumption, Zenon
       DEF OversizeAlertNet, At, SendAlertLocked, AfterAlert, WriteRecord, Goto, Return, NetWrite, Emit
  <2>3. CASE CloseNotifyNet(t, b)
    BY <2>3, ThreadsAssumption DEF CloseNotifyNet, At, WriteRecord, Goto, NetWrite, Emit
  <2> QED
    BY <1>12, <2>1, <2>2, <2>3, Zenon
<1>13. ASSUME NEW t \in Threads, NEW b \in BOOLEAN, Flushes(t, b) PROVE OutErrInv'
  BY <1>13, ThreadsAssumption
     DEF Flushes, HsFlushNet, FlushNet, NetWrite, Emit, Goto, At, HsFailFlushNet
<1>14. ASSUME NEW t \in Threads, NEW b \in BOOLEAN, ReadFails(t, b) PROVE OutErrInv'
  <2>1. CASE ReadFail(t, b)
    BY <2>1, ThreadsAssumption, Zenon DEF ReadFail, At, Return
  <2>2. CASE HsReadFail(t, b)
    BY <2>2, ThreadsAssumption, Zenon DEF HsReadFail, AtScript, Goto, At
  <2> QED
    BY <1>14, <2>1, <2>2, Zenon DEF ReadFails
<1>15. CASE NetBreak
  BY <1>15, Zenon DEF NetBreak
<1> HIDE DEF OutErrInv, NoAppAfterAlert, CloseNotifyInv, WriteInv, MutexOwners, OutLabels,
        goVars, locks, recVars, wireVars
<1> QED
  BY <1>1, <1>2, <1>3, <1>4, <1>5, <1>6, <1>7, <1>8, <1>9, <1>10, <1>11, <1>12, <1>13, Zenon,
        <1>14, <1>15
     DEF Next, Local, Calls, Handshaking, Scripted, Locking, Closing, Interrupter, Receives,
         Writes, Flushes, ReadFails

\* A Write stores nil in c.out.err only where it was nil.
LEMMA OutErrKept ==
    ASSUME OutErrInv, outErr, Next
    PROVE  outErr'
<1> USE DEF OutErrInv, recVars
<1>1. ASSUME NEW t \in Threads, Calls(t) PROVE outErr'
  BY <1>1, Zenon
     DEF Calls, CallHandshake, Call, Enter, At, CallWrite, Return, CallRead, CallClose,
        CallCloseWrite, SetWriteDeadline
<1>2. ASSUME NEW t \in Threads, Handshaking(t) PROVE outErr'
  BY <1>2, Zenon
     DEF Handshaking, HandshakeEnter, AfterHandshake, Goto, Return, At, HandshakeLock,
        HandshakeInLock, HandshakeExit, HandshakeWait
<1>3. ASSUME NEW t \in Threads, Scripted(t) PROVE outErr'
  BY <1>3, Zenon
     DEF Scripted, HsWrite, AtScript, Goto, At, HsBuffer, HsFlush, HsComplete, HsDone,
        Renegotiating, HsFail, Return
<1>4. ASSUME NEW t \in Threads, Locking(t) PROVE outErr'
  BY <1>4, Zenon
     DEF Locking, WriteLock, Goto, Return, At, ReadLock, KeyUpdateLock, RenegotiateLock,
        AlertLock
<1>5. ASSUME NEW t \in Threads, Closing(t) PROVE outErr'
  BY <1>5, Zenon
     DEF Closing, CloseCheck, Goto, Return, At, CloseNotifyLock, CloseNotifyDone, CloseNet
<1>6. ASSUME NEW t \in Threads, Interrupter(t) PROVE outErr'
  BY <1>6, Zenon
     DEF Interrupter, InterrupterCancelled, At, InterrupterDone
<1>7. ASSUME NEW t \in Threads, Receives(t) PROVE outErr'
  BY <1>7, Zenon
     DEF Receives, HsRead, AtScript, At, HsReadBad, Goto, HsAbort, Renegotiating, ReadApp,
        Receive, Return, ReadPeerAlert, ReadBad, ReadOversize, ReadKeyUpdate,
        ReadHelloRequest, MayRenegotiate
<1>8. ASSUME NEW t \in Threads, Cancel(t) PROVE outErr'
  BY <1>8, Zenon
     DEF Cancel, At
<1>9. ASSUME NEW t \in Threads, NEW b \in BOOLEAN, Writes(t, b) PROVE outErr'
  BY <1>9, Zenon
     DEF Writes, HsWriteNet, WriteRecord, NetWrite, Emit, Goto, At, WriteNet, Return,
        KeyUpdateNet, AlertNet, SendAlertLocked, AfterAlert, OversizeAlertNet,
        CloseNotifyNet
<1>10. ASSUME NEW t \in Threads, NEW b \in BOOLEAN, Flushes(t, b) PROVE outErr'
  BY <1>10, Zenon
     DEF Flushes, HsFlushNet, FlushNet, NetWrite, Emit, Goto, At, HsFailFlushNet
<1>11. ASSUME NEW t \in Threads, NEW b \in BOOLEAN, ReadFails(t, b) PROVE outErr'
  BY <1>11, Zenon
     DEF ReadFails, ReadFail, Return, At, HsReadFail, AtScript, Goto
<1>12. CASE NetBreak
  BY <1>12, Zenon DEF NetBreak
<1> HIDE DEF OutErrInv, recVars
<1> QED
  BY <1>1, <1>2, <1>3, <1>4, <1>5, <1>6, <1>7, <1>8, <1>9, <1>10, <1>11, <1>12, Zenon
     DEF Next, Local, Calls, Handshaking, Scripted, Locking, Closing, Interrupter, Receives,
         Writes, Flushes, ReadFails

\* A Conn that does not renegotiate stays complete, and strands no alert.
LEMMA OnceStep ==
    ASSUME OneHandshake, TypeOK, MutexOwners, OutcomeInv, PastHandshakeInv, OnceInv, Next
    PROVE  OnceInv'
<1>0. /\ pc \in [Threads -> Labels] /\ handshakes \in Nat /\ MutexOwners
      /\ \A t \in Threads : pc[t] # "rn_lock" /\ (handshakeMutex = t => handshakes = 0)
      /\ \A t \in Threads : pc[t] = "hs_done" => isHandshakeComplete
      /\ \A t \in Threads : pc[t] \in {"rd_loop", "ku_lock", "ku_net"} => handshakes > 0
  BY DEF TypeOK, GoroutineTypeOK, HandshakeTypeOK, OutcomeInv, PastHandshakeInv, OneHandshake,
         MayRenegotiate
<1>13. ASSUME UNCHANGED <<handshakes, isHandshakeComplete, handshakeErr, handshakeMutex>>,
              "alert" \in sendBuf' => "alert" \in sendBuf,
              \A u \in Threads : pc'[u] \in AlertLabels => pc'[u] = pc[u] \/ handshakes > 0
       PROVE  OnceInv'
  BY <1>13, Zenon DEF OnceInv, AlertNotStranded
<1> USE DEF MutexOwners, OnceInv, AlertNotStranded, AlertLabels, HsLabels, InLabels, goVars,
        hsVars, locks, recVars
<1>1. ASSUME NEW t \in Threads, Calls(t) PROVE OnceInv'
  <2>1. CASE CallHandshake(t)
    BY <2>1, <1>0, ThreadsAssumption, Zenon
       DEF CallHandshake, Call, Enter, At
  <2>2. CASE CallWrite(t)
    BY <2>2, <1>0, ThreadsAssumption, Zenon
       DEF CallWrite, Call, Enter, Return, At
  <2>3. CASE CallRead(t)
    BY <2>3, <1>0, ThreadsAssumption, Zenon
       DEF CallRead, Call, Enter, At
  <2>4. CASE CallClose(t)
    BY <2>4, <1>0, ThreadsAssumption, Zenon
       DEF CallClose, Call, Enter, Return, At
  <2>5. CASE CallCloseWrite(t)
    BY <2>5, <1>0, ThreadsAssumption, Zenon
       DEF CallCloseWrite, Call, Enter, At
  <2>6. CASE SetWriteDeadline(t)
    BY <2>6, <1>0, ThreadsAssumption, Zenon
       DEF SetWriteDeadline, Call, Return, At
  <2> QED
    BY <1>1, <2>1, <2>2, <2>3, <2>4, <2>5, <2>6, Zenon DEF Calls
<1>2. ASSUME NEW t \in Threads, Handshaking(t) PROVE OnceInv'
  <2>1. CASE HandshakeEnter(t)
    BY <2>1, <1>0, ThreadsAssumption, Zenon
       DEF HandshakeEnter, AfterHandshake, At, Goto, Return
  <2>2. CASE HandshakeLock(t)
    BY <2>2, <1>0, ThreadsAssumption, Zenon
       DEF HandshakeLock, At, Goto
  <2>3. CASE HandshakeInLock(t)
    BY <2>3, <1>0, ThreadsAssumption, Zenon
       DEF HandshakeInLock, At, Goto
  <2>4. CASE HandshakeExit(t)
    BY <2>4, <1>0, ThreadsAssumption, Zenon
       DEF HandshakeExit, AfterHandshake, At, Goto, Return
  <2>5. CASE HandshakeWait(t)
    BY <2>5, <1>0, ThreadsAssumption, Zenon
       DEF HandshakeWait, At, Return
  <2> QED
    BY <1>2, <2>1, <2>2, <2>3, <2>4, <2>5, Zenon DEF Handshaking
<1>3. ASSUME NEW t \in Threads, Scripted(t) PROVE OnceInv'
  <2>1. CASE HsWrite(t)
    BY <2>1, <1>0, ThreadsAssumption, Zenon
       DEF HsWrite, AtScript, Goto, At
  <2>2. CASE HsBuffer(t)
    BY <2>2, <1>0, ThreadsAssumption, Zenon
       DEF HsBuffer, AtScript, At
  <2>3. CASE HsFlush(t)
    BY <2>3, <1>0, ThreadsAssumption, Zenon
       DEF HsFlush, AtScript, Goto, At
  <2>4. CASE HsComplete(t)
    BY <2>4, <1>0, ThreadsAssumption, Zenon
       DEF HsComplete, AtScript, Goto, At
  <2>5. CASE HsDone(t)
    BY <2>5, <1>0, ThreadsAssumption, Zenon
       DEF HsDone, At, Goto, Renegotiating
  <2>6. CASE HsFail(t)
    BY <2>6, <1>0, ThreadsAssumption
       DEF HsFail, At, Goto, Renegotiating, Return
  <2> QED
    BY <1>3, <2>1, <2>2, <2>3, <2>4, <2>5, <2>6, Zenon DEF Scripted
<1>4. ASSUME NEW t \in Threads, Locking(t) PROVE OnceInv'
  <2>1. CASE WriteLock(t)
    BY <2>1, <1>0, ThreadsAssumption, Zenon
       DEF WriteLock, At, Goto, Return
  <2>2. CASE ReadLock(t)
    BY <2>2, <1>0, ThreadsAssumption, Zenon
       DEF ReadLock, At, Goto
  <2>3. CASE KeyUpdateLock(t)
    BY <2>3, <1>0, ThreadsAssumption, Zenon
       DEF KeyUpdateLock, At, Goto
  <2>4. CASE RenegotiateLock(t)
    BY <2>4, <1>0, ThreadsAssumption, Zenon
       DEF RenegotiateLock, At, Goto
  <2>5. CASE AlertLock(t)
    BY <2>5, <1>0, ThreadsAssumption, Zenon
       DEF AlertLock, At, Goto
  <2> QED
    BY <1>4, <2>1, <2>2, <2>3, <2>4, <2>5, Zenon DEF Locking
<1>5. ASSUME NEW t \in Threads, Closing(t) PROVE OnceInv'
  <2>1. CASE CloseCheck(t)
    BY <2>1, <1>0, ThreadsAssumption, Zenon
       DEF CloseCheck, At, Goto, Return
  <2>2. CASE CloseNotifyLock(t)
    BY <2>2, <1>0, ThreadsAssumption, Zenon
       DEF CloseNotifyLock, At, Goto
  <2>3. CASE CloseNotifyDone(t)
    BY <2>3, <1>0, ThreadsAssumption, Zenon
       DEF CloseNotifyDone, At, Return
  <2>4. CASE CloseNet(t)
    BY <2>4, <1>0, ThreadsAssumption, Zenon
       DEF CloseNet, At, Return
  <2> QED
    BY <1>5, <2>1, <2>2, <2>3, <2>4, Zenon DEF Closing
<1>6. ASSUME NEW t \in Threads, Interrupter(t) PROVE OnceInv'
  <2>1. CASE InterrupterCancelled(t)
    BY <2>1, <1>0, ThreadsAssumption, Zenon
       DEF InterrupterCancelled
  <2>2. CASE InterrupterDone(t)
    BY <2>2, <1>0, ThreadsAssumption, Zenon
       DEF InterrupterDone
  <2> QED
    BY <1>6, <2>1, <2>2, Zenon DEF Interrupter
<1>7. ASSUME NEW t \in Threads, Receives(t) PROVE OnceInv'
  <2>1. CASE HsRead(t)
    BY <2>1, <1>0, ThreadsAssumption, Zenon
       DEF HsRead, AtScript, At
  <2>2. CASE HsReadBad(t)
    BY <2>2, <1>0, ThreadsAssumption, Zenon
       DEF HsReadBad, AtScript, Goto, At
  <2>3. CASE HsAbort(t)
    BY <2>3, <1>0, ThreadsAssumption, Zenon
       DEF HsAbort, At, Goto, Renegotiating
  <2>4. CASE ReadApp(t)
    BY <2>4, <1>0, ThreadsAssumption, Zenon
       DEF ReadApp, Receive, Return, At
  <2>5. CASE ReadPeerAlert(t)
    <3>1. /\ UNCHANGED <<handshakes, isHandshakeComplete, handshakeErr, handshakeMutex>>
          /\ UNCHANGED sendBuf
      BY <2>5, Zenon DEF ReadPeerAlert, Receive
    <3>2. \A u \in Threads : pc'[u] \in AlertLabels => pc'[u] = pc[u] \/ handshakes > 0
      BY <2>5, <1>0, Zenon DEF ReadPeerAlert, Return
    <3> QED
      BY <3>1, <3>2, <1>13, Zenon
  <2>6. CASE ReadBad(t)
    <3>1. /\ UNCHANGED <<handshakes, isHandshakeComplete, handshakeErr, handshakeMutex>>
          /\ UNCHANGED sendBuf
      BY <2>6, Zenon DEF ReadBad, Receive
    <3>2. \A u \in Threads : pc'[u] \in AlertLabels => pc'[u] = pc[u] \/ handshakes > 0
      BY <2>6, <1>0, Zenon DEF ReadBad, Receive, Goto, At
    <3> QED
      BY <3>1, <3>2, <1>13, Zenon
  <2>7. CASE ReadOversize(t)
    BY <2>7, <1>0, ThreadsAssumption, Zenon
       DEF ReadOversize, Goto, Receive, At
  <2>8. CASE ReadKeyUpdate(t)
    BY <2>8, <1>0, ThreadsAssumption, Zenon
       DEF ReadKeyUpdate, Goto, Receive, At
  <2>9. CASE ReadHelloRequest(t)
    BY <2>9, <1>0, ThreadsAssumption, Zenon
       DEF ReadHelloRequest, Goto, Receive, At
  <2> QED
    BY <1>7, <2>1, <2>2, <2>3, <2>4, <2>5, <2>6, <2>7, <2>8, <2>9, Zenon DEF Receives
<1>8. ASSUME NEW t \in Threads, Cancel(t) PROVE OnceInv'
  BY <1>8, <1>0, ThreadsAssumption, Zenon
     DEF Cancel
<1>9. ASSUME NEW t \in Threads, NEW b \in BOOLEAN, Writes(t, b) PROVE OnceInv'
  <2>1. CASE HsWriteNet(t, b)
    BY <2>1, <1>0, ThreadsAssumption, Zenon
       DEF HsWriteNet, At, Goto, WriteRecord, Emit, NetWrite
  <2>2. CASE WriteNet(t, b)
    <3>1. UNCHANGED <<handshakes, isHandshakeComplete, handshakeErr, handshakeMutex>>
      BY <2>2, Zenon DEF WriteNet
    <3>2. WriteRecord("app", b)
      BY <2>2, Zenon DEF WriteNet
    <3>3. "alert" \in sendBuf' => "alert" \in sendBuf
      <4> HIDE DEF MutexOwners, OnceInv, AlertNotStranded
      <4> QED
        BY <3>2 DEF WriteRecord
    <3>4. \A u \in Threads : pc'[u] \in AlertLabels => pc'[u] = pc[u] \/ handshakes > 0
      BY <2>2, <1>0, Zenon DEF WriteNet, Return
    <3> QED
      BY <3>1, <3>3, <3>4, <1>13, Zenon
  <2>3. CASE KeyUpdateNet(t, b)
    BY <2>3, <1>0, ThreadsAssumption, Zenon
       DEF KeyUpdateNet, At, Goto, WriteRecord, Emit, NetWrite
  <2>4. CASE AlertNet(t, b)
    BY <2>4, <1>0, ThreadsAssumption, Zenon
       DEF AlertNet, AfterAlert, At, SendAlertLocked, WriteRecord, Emit, NetWrite, Goto,
        Return
  <2>5. CASE OversizeAlertNet(t, b)
    BY <2>5, <1>0, ThreadsAssumption, Zenon
       DEF OversizeAlertNet, AfterAlert, At, SendAlertLocked, WriteRecord, Emit, NetWrite,
        Goto, Return
  <2>6. CASE CloseNotifyNet(t, b)
    <3>1. UNCHANGED <<handshakes, isHandshakeComplete, handshakeErr, handshakeMutex>>
      BY <2>6, Zenon DEF CloseNotifyNet
    <3>2. WriteRecord("close_notify", b)
      BY <2>6, Zenon DEF CloseNotifyNet
    <3>3. "alert" \in sendBuf' => "alert" \in sendBuf
      <4> HIDE DEF MutexOwners, OnceInv, AlertNotStranded
      <4> QED
        BY <3>2 DEF WriteRecord
    <3>4. \A u \in Threads : pc'[u] \in AlertLabels => pc'[u] = pc[u] \/ handshakes > 0
      BY <2>6, <1>0, Zenon DEF CloseNotifyNet, Goto
    <3> QED
      BY <3>1, <3>3, <3>4, <1>13, Zenon
  <2> QED
    BY <1>9, <2>1, <2>2, <2>3, <2>4, <2>5, <2>6, Zenon DEF Writes
<1>10. ASSUME NEW t \in Threads, NEW b \in BOOLEAN, Flushes(t, b) PROVE OnceInv'
  <2>1. CASE HsFlushNet(t, b)
    BY <2>1, <1>0, ThreadsAssumption, Zenon
       DEF HsFlushNet, At, FlushNet, Goto, Emit, NetWrite
  <2>2. CASE HsFailFlushNet(t, b)
    BY <2>2, <1>0, ThreadsAssumption, Zenon
       DEF HsFailFlushNet, At, FlushNet, Emit, NetWrite
  <2> QED
    BY <1>10, <2>1, <2>2, Zenon DEF Flushes
<1>11. ASSUME NEW t \in Threads, NEW b \in BOOLEAN, ReadFails(t, b) PROVE OnceInv'
  <2>1. CASE ReadFail(t, b)
    BY <2>1, <1>0, ThreadsAssumption, Zenon
       DEF ReadFail, At, Return
  <2>2. CASE HsReadFail(t, b)
    BY <2>2, <1>0, ThreadsAssumption, Zenon
       DEF HsReadFail, AtScript, Goto, At
  <2> QED
    BY <1>11, <2>1, <2>2, Zenon DEF ReadFails
<1>12. CASE NetBreak
  BY <1>12, <1>0, ThreadsAssumption, Zenon DEF NetBreak
<1> HIDE DEF MutexOwners, OnceInv, AlertNotStranded, AlertLabels, HsLabels, InLabels,
        goVars, hsVars, locks, recVars
<1> QED
  BY <1>1, <1>2, <1>3, <1>4, <1>5, <1>6, <1>7, <1>8, <1>9, <1>10, <1>11, <1>12,
        Zenon DEF Next, Local

\* closeNotify then reports what became of the close_notify.
LEMMA NotifiedStep ==
    ASSUME OneHandshake, TypeOK, MutexOwners, PastHandshakeInv, BufferInv, NotifiedInv, Next
    PROVE  NotifiedInv'
<1>0. /\ pc \in [Threads -> Labels] /\ CloseTypeOK /\ MutexOwners
      /\ \A t \in Threads : pc[t] # "rn_lock"
      /\ isHandshakeComplete => ~buffering
  BY Zenon DEF TypeOK, GoroutineTypeOK, PastHandshakeInv, OneHandshake, MayRenegotiate, BufferInv
<1>13. ASSUME NEW k, NEW ok, WriteRecord(k, ok), k # "close_notify"
       PROVE  /\ "close_notify" \in wire => "close_notify" \in wire'
              /\ "close_notify" \in sendBuf' => "close_notify" \in sendBuf
  BY <1>13, Zenon DEF WriteRecord, Emit, wireVars
<1>14. ASSUME UNCHANGED <<closeNotifySent, closeNotifyErr, isHandshakeComplete, flushBuf>>,
              "close_notify" \in wire => "close_notify" \in wire',
              "close_notify" \in sendBuf' => "close_notify" \in sendBuf,
              \A u \in Threads : pc'[u] \in {"cn_lock", "cn_net", "cn_done"} => pc'[u] = pc[u]
       PROVE  NotifiedInv'
  BY <1>14, Zenon DEF NotifiedInv
<1> USE DEF MutexOwners, NotifiedInv, OutLabels, goVars, hsVars, locks, recVars, closeVars,
        wireVars
<1>1. ASSUME NEW t \in Threads, Calls(t) PROVE NotifiedInv'
  <2>1. CASE CallHandshake(t)
    BY <2>1, <1>0, ThreadsAssumption, Zenon
       DEF CallHandshake, Call, Enter, At
  <2>2. CASE CallWrite(t)
    BY <2>2, <1>0, ThreadsAssumption, Zenon
       DEF CallWrite, Call, Enter, Return, At
  <2>3. CASE CallRead(t)
    BY <2>3, <1>0, ThreadsAssumption, Zenon
       DEF CallRead, Call, Enter, At
  <2>4. CASE CallClose(t)
    BY <2>4, <1>0, ThreadsAssumption, Zenon
       DEF CallClose, Call, Enter, Return, At
  <2>5. CASE CallCloseWrite(t)
    BY <2>5, <1>0, ThreadsAssumption, Zenon
       DEF CallCloseWrite, Call, Enter, At
  <2>6. CASE SetWriteDeadline(t)
    BY <2>6, <1>0, ThreadsAssumption, Zenon
       DEF SetWriteDeadline, Call, Return, At
  <2> QED
    BY <1>1, <2>1, <2>2, <2>3, <2>4, <2>5, <2>6, Zenon DEF Calls
<1>2. ASSUME NEW t \in Threads, Handshaking(t) PROVE NotifiedInv'
  <2>1. CASE HandshakeEnter(t)
    BY <2>1, <1>0, ThreadsAssumption, Zenon
       DEF HandshakeEnter, AfterHandshake, At, Goto, Return
  <2>2. CASE HandshakeLock(t)
    BY <2>2, <1>0, ThreadsAssumption, Zenon
       DEF HandshakeLock, At, Goto
  <2>3. CASE HandshakeInLock(t)
    BY <2>3, <1>0, ThreadsAssumption, Zenon
       DEF HandshakeInLock, At, Goto
  <2>4. CASE HandshakeExit(t)
    BY <2>4, <1>0, ThreadsAssumption, Zenon
       DEF HandshakeExit, AfterHandshake, At, Goto, Return
  <2>5. CASE HandshakeWait(t)
    BY <2>5, <1>0, ThreadsAssumption, Zenon
       DEF HandshakeWait, At, Return
  <2> QED
    BY <1>2, <2>1, <2>2, <2>3, <2>4, <2>5, Zenon DEF Handshaking
<1>3. ASSUME NEW t \in Threads, Scripted(t) PROVE NotifiedInv'
  <2>1. CASE HsWrite(t)
    BY <2>1, <1>0, ThreadsAssumption, Zenon
       DEF HsWrite, AtScript, Goto, At
  <2>2. CASE HsBuffer(t)
    BY <2>2, <1>0, ThreadsAssumption, Zenon
       DEF HsBuffer, AtScript, At
  <2>3. CASE HsFlush(t)
    BY <2>3, <1>0, ThreadsAssumption, Zenon
       DEF HsFlush, AtScript, Goto, At
  <2>4. CASE HsComplete(t)
    BY <2>4, <1>0, ThreadsAssumption, Zenon
       DEF HsComplete, AtScript, Goto, At
  <2>5. CASE HsDone(t)
    BY <2>5, <1>0, ThreadsAssumption, Zenon
       DEF HsDone, At, Goto, Renegotiating
  <2>6. CASE HsFail(t)
    BY <2>6, <1>0, ThreadsAssumption, Zenon
       DEF HsFail, At, Goto, Renegotiating, Return
  <2> QED
    BY <1>3, <2>1, <2>2, <2>3, <2>4, <2>5, <2>6, Zenon DEF Scripted
<1>4. ASSUME NEW t \in Threads, Locking(t) PROVE NotifiedInv'
  <2>1. CASE WriteLock(t)
    BY <2>1, <1>0, ThreadsAssumption, Zenon
       DEF WriteLock, At, Goto, Return
  <2>2. CASE ReadLock(t)
    BY <2>2, <1>0, ThreadsAssumption, Zenon
       DEF ReadLock, At, Goto
  <2>3. CASE KeyUpdateLock(t)
    BY <2>3, <1>0, ThreadsAssumption, Zenon
       DEF KeyUpdateLock, At, Goto
  <2>4. CASE RenegotiateLock(t)
    BY <2>4, <1>0, ThreadsAssumption, Zenon
       DEF RenegotiateLock, At, Goto
  <2>5. CASE AlertLock(t)
    BY <2>5, <1>0, ThreadsAssumption, Zenon
       DEF AlertLock, At, Goto
  <2> QED
    BY <1>4, <2>1, <2>2, <2>3, <2>4, <2>5, Zenon DEF Locking
<1>5. ASSUME NEW t \in Threads, Closing(t) PROVE NotifiedInv'
  <2>1. CASE CloseCheck(t)
    BY <2>1, <1>0, ThreadsAssumption, Zenon
       DEF CloseCheck, At, Goto, Return
  <2>2. CASE CloseNotifyLock(t)
    BY <2>2, <1>0, ThreadsAssumption, Zenon
       DEF CloseNotifyLock, At, Goto
  <2>3. CASE CloseNotifyDone(t)
    BY <2>3, <1>0, ThreadsAssumption, Zenon
       DEF CloseNotifyDone, At, Return
  <2>4. CASE CloseNet(t)
    BY <2>4, <1>0, ThreadsAssumption, Zenon
       DEF CloseNet, At, Return
  <2> QED
    BY <1>5, <2>1, <2>2, <2>3, <2>4, Zenon DEF Closing
<1>6. ASSUME NEW t \in Threads, Interrupter(t) PROVE NotifiedInv'
  <2>1. CASE InterrupterCancelled(t)
    BY <2>1, <1>0, ThreadsAssumption, Zenon
       DEF InterrupterCancelled
  <2>2. CASE InterrupterDone(t)
    BY <2>2, <1>0, ThreadsAssumption, Zenon
       DEF InterrupterDone
  <2> QED
    BY <1>6, <2>1, <2>2, Zenon DEF Interrupter
<1>7. ASSUME NEW t \in Threads, Receives(t) PROVE NotifiedInv'
  <2>1. CASE HsRead(t)
    BY <2>1, <1>0, ThreadsAssumption, Zenon
       DEF HsRead, AtScript, At
  <2>2. CASE HsReadBad(t)
    BY <2>2, <1>0, ThreadsAssumption, Zenon
       DEF HsReadBad, AtScript, Goto, At
  <2>3. CASE HsAbort(t)
    BY <2>3, <1>0, ThreadsAssumption, Zenon
       DEF HsAbort, At, Goto, Renegotiating
  <2>4. CASE ReadApp(t)
    BY <2>4, <1>0, ThreadsAssumption, Zenon
       DEF ReadApp, Receive, Return, At
  <2>5. CASE ReadPeerAlert(t)
    <3>1. /\ UNCHANGED <<closeNotifySent, closeNotifyErr, isHandshakeComplete, flushBuf>>
          /\ UNCHANGED <<wire, sendBuf>>
      BY <2>5, Zenon DEF ReadPeerAlert, Receive
    <3>2. \A u \in Threads : pc'[u] \in {"cn_lock", "cn_net", "cn_done"} => pc'[u] = pc[u]
      BY <2>5, <1>0, Zenon DEF ReadPeerAlert, Return
    <3> QED
      BY <3>1, <3>2, <1>14, Zenon
  <2>6. CASE ReadBad(t)
    <3>1. /\ UNCHANGED <<closeNotifySent, closeNotifyErr, isHandshakeComplete, flushBuf>>
          /\ UNCHANGED <<wire, sendBuf>>
      BY <2>6, Zenon DEF ReadBad, Receive
    <3>2. \A u \in Threads : pc'[u] \in {"cn_lock", "cn_net", "cn_done"} => pc'[u] = pc[u]
      BY <2>6, <1>0, Zenon DEF ReadBad, Goto
    <3> QED
      BY <3>1, <3>2, <1>14, Zenon
  <2>7. CASE ReadOversize(t)
    BY <2>7, <1>0, ThreadsAssumption, Zenon
       DEF ReadOversize, Goto, Receive, At
  <2>8. CASE ReadKeyUpdate(t)
    BY <2>8, <1>0, ThreadsAssumption, Zenon
       DEF ReadKeyUpdate, Goto, Receive, At
  <2>9. CASE ReadHelloRequest(t)
    BY <2>9, <1>0, ThreadsAssumption, Zenon
       DEF ReadHelloRequest, Goto, Receive, At
  <2> QED
    BY <1>7, <2>1, <2>2, <2>3, <2>4, <2>5, <2>6, <2>7, <2>8, <2>9, Zenon DEF Receives
<1>8. ASSUME NEW t \in Threads, Cancel(t) PROVE NotifiedInv'
  BY <1>8, <1>0, ThreadsAssumption, Zenon
     DEF Cancel
<1>9. ASSUME NEW t \in Threads, NEW b \in BOOLEAN, Writes(t, b) PROVE NotifiedInv'
  <2>1. CASE HsWriteNet(t, b)
    <3>1. /\ UNCHANGED <<closeNotifySent, closeNotifyErr, isHandshakeComplete, flushBuf>>
          /\ WriteRecord("hs", b)
      BY <2>1, Zenon DEF HsWriteNet
    <3>2. \A u \in Threads : pc'[u] \in {"cn_lock", "cn_net", "cn_done"} => pc'[u] = pc[u]
      BY <2>1, <1>0, Zenon DEF HsWriteNet, Goto
    <3> QED
      BY <3>1, <3>2, <1>13, <1>14, Zenon
  <2>2. CASE WriteNet(t, b)
    <3>1. /\ UNCHANGED <<closeNotifySent, closeNotifyErr, isHandshakeComplete, flushBuf>>
          /\ WriteRecord("app", b)
      BY <2>2, Zenon DEF WriteNet
    <3>2. \A u \in Threads : pc'[u] \in {"cn_lock", "cn_net", "cn_done"} => pc'[u] = pc[u]
      BY <2>2, <1>0, Zenon DEF WriteNet, Return
    <3> QED
      BY <3>1, <3>2, <1>13, <1>14, Zenon
  <2>3. CASE KeyUpdateNet(t, b)
    <3>1. /\ UNCHANGED <<closeNotifySent, closeNotifyErr, isHandshakeComplete, flushBuf>>
          /\ WriteRecord("hs", b)
      BY <2>3, Zenon DEF KeyUpdateNet
    <3>2. \A u \in Threads : pc'[u] \in {"cn_lock", "cn_net", "cn_done"} => pc'[u] = pc[u]
      BY <2>3, <1>0, Zenon DEF KeyUpdateNet, Goto
    <3> QED
      BY <3>1, <3>2, <1>13, <1>14, Zenon
  <2>4. CASE AlertNet(t, b)
    <3>1. /\ UNCHANGED <<closeNotifySent, closeNotifyErr, isHandshakeComplete, flushBuf>>
          /\ WriteRecord("alert", b)
      BY <2>4, Zenon DEF AlertNet, SendAlertLocked
    <3>2. \A u \in Threads : pc'[u] \in {"cn_lock", "cn_net", "cn_done"} => pc'[u] = pc[u]
      BY <2>4, <1>0, Zenon DEF AlertNet, AfterAlert, Goto, Return
    <3> QED
      BY <3>1, <3>2, <1>13, <1>14, Zenon
  <2>5. CASE OversizeAlertNet(t, b)
    <3>1. /\ UNCHANGED <<closeNotifySent, closeNotifyErr, isHandshakeComplete, flushBuf>>
          /\ WriteRecord("alert", b)
      BY <2>5, Zenon DEF OversizeAlertNet, SendAlertLocked
    <3>2. \A u \in Threads : pc'[u] \in {"cn_lock", "cn_net", "cn_done"} => pc'[u] = pc[u]
      BY <2>5, <1>0, Zenon DEF OversizeAlertNet, AfterAlert, Goto, Return
    <3> QED
      BY <3>1, <3>2, <1>13, <1>14, Zenon
  <2>6. CASE CloseNotifyNet(t, b)
    BY <2>6, <1>0, ThreadsAssumption, Zenon
       DEF CloseNotifyNet, At, Goto, WriteRecord, Emit, NetWrite
  <2> QED
    BY <1>9, <2>1, <2>2, <2>3, <2>4, <2>5, <2>6, Zenon DEF Writes
<1>10. ASSUME NEW t \in Threads, NEW b \in BOOLEAN, Flushes(t, b) PROVE NotifiedInv'
  <2>1. CASE HsFlushNet(t, b)
    BY <2>1, <1>0, ThreadsAssumption, Zenon
       DEF HsFlushNet, At, FlushNet, Goto, Emit, NetWrite
  <2>2. CASE HsFailFlushNet(t, b)
    BY <2>2, <1>0, ThreadsAssumption, Zenon
       DEF HsFailFlushNet, At, FlushNet, Emit, NetWrite
  <2> QED
    BY <1>10, <2>1, <2>2, Zenon DEF Flushes
<1>11. ASSUME NEW t \in Threads, NEW b \in BOOLEAN, ReadFails(t, b) PROVE NotifiedInv'
  <2>1. CASE ReadFail(t, b)
    BY <2>1, <1>0, ThreadsAssumption, Zenon
       DEF ReadFail, At, Return
  <2>2. CASE HsReadFail(t, b)
    BY <2>2, <1>0, ThreadsAssumption, Zenon
       DEF HsReadFail, AtScript, Goto, At
  <2> QED
    BY <1>11, <2>1, <2>2, Zenon DEF ReadFails
<1>12. CASE NetBreak
  BY <1>12, <1>0, ThreadsAssumption, Zenon DEF NetBreak
<1> HIDE DEF MutexOwners, NotifiedInv, OutLabels, goVars, hsVars, locks, recVars, closeVars,
        wireVars
<1> QED
  BY <1>1, <1>2, <1>3, <1>4, <1>5, <1>6, <1>7, <1>8, <1>9, <1>10, <1>11, <1>12,
        Zenon DEF Next, Local

\* Unless the application moves the deadline, nothing is written after the close_notify.
LEMMA PastDeadlineStep ==
    ASSUME \A t \in Threads : "setwritedeadline" \notin Ops[t] /\ pc[t] # "ov_net",
           TypeOK, MutexOwners, OutcomeInv, CloseNotifyInv, NotifiedInv, PastDeadlineInv, Next
    PROVE  PastDeadlineInv'
<1>0. /\ pc \in [Threads -> Labels]
      /\ \A t \in Threads : "setwritedeadline" \notin Ops[t] /\ pc[t] # "ov_net"
  BY Zenon DEF TypeOK, GoroutineTypeOK
<1>12. ASSUME NEW t \in Threads, "close_notify" \in wire
      PROVE  /\ pc[t] \in OutLabels \ {"cn_done"} => writeDeadline = "past"
             /\ pc[t] \notin {"hs_flush", "hs_fail_flush"}
  <2>1. closeNotifySent \/ \E u \in Threads : pc[u] = "cn_done"
    BY <1>12, Zenon DEF CloseNotifyInv
  <2>2. isHandshakeComplete
    BY <2>1, Zenon DEF NotifiedInv
  <2>3. pc[t] \notin {"hs_flush", "hs_fail_flush"}
    BY <2>2, Zenon DEF OutcomeInv, Running, MutexOwners, HsLabels
  <2>4. ASSUME pc[t] \in OutLabels \ {"cn_done"} PROVE closeNotifySent
    BY <2>1, <2>4, Zenon DEF MutexOwners, OutLabels
  <2> QED
    BY <2>3, <2>4, Zenon DEF PastDeadlineInv
<1>13. ASSUME NEW t \in Threads, NEW k, NEW ok, WriteRecord(k, ok),
              pc[t] \in OutLabels \ {"cn_done"}, UNCHANGED <<closeNotifySent, writeDeadline>>
       PROVE  PastDeadlineInv'
  <2>1. "close_notify" \in wire => ~NetWrite(TRUE)
    BY <1>12, <1>13, Zenon DEF NetWrite
  <2>2. "close_notify" \in wire \/ ~ok => UNCHANGED order
    BY <1>13, <2>1, Zenon DEF WriteRecord, wireVars
  <2>3. ASSUME NEW j \in Kinds, <<"close_notify", j>> \in order' PROVE <<"close_notify", j>> \in order
    <3>1. order' \in {order, order \cup (wire \X {k})}
      BY <1>13, Zenon DEF WriteRecord, Emit, wireVars
    <3>2. <<"close_notify", j>> \in wire \X {k} => "close_notify" \in wire
      BY InProduct, Zenon
    <3> QED
      BY <2>2, <2>3, <3>1, <3>2, Zenon
  <2> QED
    BY <1>13, <2>3, Zenon DEF PastDeadlineInv, NothingAfterCloseNotify
<1>14. ASSUME NEW t \in Threads, NEW ok, FlushNet(ok), pc[t] \in {"hs_flush", "hs_fail_flush"},
              UNCHANGED <<closeNotifySent, writeDeadline>>
       PROVE  PastDeadlineInv'
  <2>1. "close_notify" \notin wire
    BY <1>12, <1>14, Zenon
  <2>2. ASSUME NEW j \in Kinds, <<"close_notify", j>> \in order' PROVE <<"close_notify", j>> \in order
    <3>1. order' \in {order, order \cup (wire \X flushBuf)}
      BY <1>14, Zenon DEF FlushNet, Emit, wireVars
    <3>2. <<"close_notify", j>> \in wire \X flushBuf => "close_notify" \in wire
      BY InProduct, Zenon
    <3> QED
      BY <2>1, <2>2, <3>1, <3>2, Zenon
  <2> QED
    BY <1>14, <2>2, Zenon DEF PastDeadlineInv, NothingAfterCloseNotify
<1> USE DEF PastDeadlineInv, NothingAfterCloseNotify, goVars, locks, recVars, closeVars,
        netVars, wireVars
<1>1. ASSUME NEW t \in Threads, Calls(t) PROVE PastDeadlineInv'
  <2>1. CASE CallHandshake(t)
    BY <2>1, <1>0, Zenon
       DEF CallHandshake, Call, Enter, At
  <2>2. CASE CallWrite(t)
    BY <2>2, <1>0, Zenon
       DEF CallWrite, Call, Enter, Return, At
  <2>3. CASE CallRead(t)
    BY <2>3, <1>0, Zenon
       DEF CallRead, Call, Enter, At
  <2>4. CASE CallClose(t)
    BY <2>4, <1>0, Zenon
       DEF CallClose, Call, Enter, Return, At
  <2>5. CASE CallCloseWrite(t)
    BY <2>5, <1>0, Zenon
       DEF CallCloseWrite, Call, Enter, At
  <2>6. CASE SetWriteDeadline(t)
    BY <2>6, <1>0, Zenon
       DEF SetWriteDeadline, Call, Return, At
  <2> QED
    BY <1>1, <2>1, <2>2, <2>3, <2>4, <2>5, <2>6, Zenon DEF Calls
<1>2. ASSUME NEW t \in Threads, Handshaking(t) PROVE PastDeadlineInv'
  <2>1. CASE HandshakeEnter(t)
    BY <2>1, <1>0, Zenon
       DEF HandshakeEnter, AfterHandshake, At, Goto, Return
  <2>2. CASE HandshakeLock(t)
    BY <2>2, <1>0, Zenon
       DEF HandshakeLock, At, Goto
  <2>3. CASE HandshakeInLock(t)
    BY <2>3, <1>0, Zenon
       DEF HandshakeInLock, At, Goto
  <2>4. CASE HandshakeExit(t)
    BY <2>4, <1>0, Zenon
       DEF HandshakeExit, AfterHandshake, At, Goto, Return
  <2>5. CASE HandshakeWait(t)
    BY <2>5, <1>0, Zenon
       DEF HandshakeWait, At, Return
  <2> QED
    BY <1>2, <2>1, <2>2, <2>3, <2>4, <2>5, Zenon DEF Handshaking
<1>3. ASSUME NEW t \in Threads, Scripted(t) PROVE PastDeadlineInv'
  <2>1. CASE HsWrite(t)
    BY <2>1, <1>0, Zenon
       DEF HsWrite, AtScript, Goto, At
  <2>2. CASE HsBuffer(t)
    BY <2>2, <1>0, Zenon
       DEF HsBuffer, AtScript, At
  <2>3. CASE HsFlush(t)
    BY <2>3, <1>0, Zenon
       DEF HsFlush, AtScript, Goto, At
  <2>4. CASE HsComplete(t)
    BY <2>4, <1>0, Zenon
       DEF HsComplete, AtScript, Goto, At
  <2>5. CASE HsDone(t)
    BY <2>5, <1>0, Zenon
       DEF HsDone, At, Goto, Renegotiating
  <2>6. CASE HsFail(t)
    BY <2>6, <1>0, Zenon
       DEF HsFail, At, Goto, Renegotiating, Return
  <2> QED
    BY <1>3, <2>1, <2>2, <2>3, <2>4, <2>5, <2>6, Zenon DEF Scripted
<1>4. ASSUME NEW t \in Threads, Locking(t) PROVE PastDeadlineInv'
  <2>1. CASE WriteLock(t)
    BY <2>1, <1>0, Zenon
       DEF WriteLock, At, Goto, Return
  <2>2. CASE ReadLock(t)
    BY <2>2, <1>0, Zenon
       DEF ReadLock, At, Goto
  <2>3. CASE KeyUpdateLock(t)
    BY <2>3, <1>0, Zenon
       DEF KeyUpdateLock, At, Goto
  <2>4. CASE RenegotiateLock(t)
    BY <2>4, <1>0, Zenon
       DEF RenegotiateLock, At, Goto
  <2>5. CASE AlertLock(t)
    BY <2>5, <1>0, Zenon
       DEF AlertLock, At, Goto
  <2> QED
    BY <1>4, <2>1, <2>2, <2>3, <2>4, <2>5, Zenon DEF Locking
<1>5. ASSUME NEW t \in Threads, Closing(t) PROVE PastDeadlineInv'
  <2>1. CASE CloseCheck(t)
    BY <2>1, <1>0, Zenon
       DEF CloseCheck, At, Goto, Return
  <2>2. CASE CloseNotifyLock(t)
    BY <2>2, <1>0, Zenon
       DEF CloseNotifyLock, At, Goto
  <2>3. CASE CloseNotifyDone(t)
    BY <2>3, <1>0, Zenon
       DEF CloseNotifyDone, At, Return
  <2>4. CASE CloseNet(t)
    BY <2>4, <1>0, Zenon
       DEF CloseNet, At, Return
  <2> QED
    BY <1>5, <2>1, <2>2, <2>3, <2>4, Zenon DEF Closing
<1>6. ASSUME NEW t \in Threads, Interrupter(t) PROVE PastDeadlineInv'
  <2>1. CASE InterrupterCancelled(t)
    BY <2>1, <1>0, Zenon
       DEF InterrupterCancelled
  <2>2. CASE InterrupterDone(t)
    BY <2>2, <1>0, Zenon
       DEF InterrupterDone
  <2> QED
    BY <1>6, <2>1, <2>2, Zenon DEF Interrupter
<1>7. ASSUME NEW t \in Threads, Receives(t) PROVE PastDeadlineInv'
  <2>1. CASE HsRead(t)
    BY <2>1, <1>0, Zenon
       DEF HsRead, AtScript, At
  <2>2. CASE HsReadBad(t)
    BY <2>2, <1>0, Zenon
       DEF HsReadBad, AtScript, Goto, At
  <2>3. CASE HsAbort(t)
    BY <2>3, <1>0, Zenon
       DEF HsAbort, At, Goto, Renegotiating
  <2>4. CASE ReadApp(t)
    BY <2>4, <1>0, Zenon
       DEF ReadApp, Receive, Return, At
  <2>5. CASE ReadPeerAlert(t)
    <3>1. UNCHANGED <<closeVars, netVars, wireVars>>
      BY <2>5, Zenon DEF ReadPeerAlert, Receive
    <3> QED
      BY <3>1, Zenon
  <2>6. CASE ReadBad(t)
    <3>1. UNCHANGED <<closeVars, netVars, wireVars>>
      BY <2>6, Zenon DEF ReadBad, Receive
    <3> QED
      BY <3>1, Zenon
  <2>7. CASE ReadOversize(t)
    BY <2>7, <1>0, Zenon
       DEF ReadOversize, Goto, Receive, At
  <2>8. CASE ReadKeyUpdate(t)
    BY <2>8, <1>0, Zenon
       DEF ReadKeyUpdate, Goto, Receive, At
  <2>9. CASE ReadHelloRequest(t)
    BY <2>9, <1>0, Zenon
       DEF ReadHelloRequest, Goto, Receive, At
  <2> QED
    BY <1>7, <2>1, <2>2, <2>3, <2>4, <2>5, <2>6, <2>7, <2>8, <2>9, Zenon DEF Receives
<1>8. ASSUME NEW t \in Threads, Cancel(t) PROVE PastDeadlineInv'
  BY <1>8, <1>0, Zenon
     DEF Cancel
<1>9. ASSUME NEW t \in Threads, NEW b \in BOOLEAN, Writes(t, b) PROVE PastDeadlineInv'
  <2>1. CASE HsWriteNet(t, b)
    BY <2>1, <1>13, Zenon DEF OutLabels, HsWriteNet, At
  <2>2. CASE WriteNet(t, b)
    BY <2>2, <1>13, Zenon DEF OutLabels, WriteNet, At
  <2>3. CASE KeyUpdateNet(t, b)
    BY <2>3, <1>13, Zenon DEF OutLabels, KeyUpdateNet, At
  <2>4. CASE AlertNet(t, b)
    BY <2>4, <1>13, Zenon DEF OutLabels, AlertNet, At, SendAlertLocked
  <2>5. CASE OversizeAlertNet(t, b)
    BY <2>5, <1>0, <1>12, Zenon
       DEF OutLabels, OversizeAlertNet, AfterAlert, At, SendAlertLocked, WriteRecord, Emit, NetWrite,
        Goto, Return
  <2>6. CASE CloseNotifyNet(t, b)
    BY <2>6, <1>13, Zenon DEF OutLabels, CloseNotifyNet, At
  <2> QED
    BY <1>9, <2>1, <2>2, <2>3, <2>4, <2>5, <2>6, Zenon DEF Writes
<1>10. ASSUME NEW t \in Threads, NEW b \in BOOLEAN, Flushes(t, b) PROVE PastDeadlineInv'
  <2>1. CASE HsFlushNet(t, b)
    BY <2>1, <1>14, Zenon DEF HsFlushNet, At
  <2>2. CASE HsFailFlushNet(t, b)
    BY <2>2, <1>14, Zenon DEF HsFailFlushNet, At
  <2> QED
    BY <1>10, <2>1, <2>2, Zenon DEF Flushes
<1>11. ASSUME NEW t \in Threads, NEW b \in BOOLEAN, ReadFails(t, b) PROVE PastDeadlineInv'
  <2>1. CASE ReadFail(t, b)
    BY <2>1, <1>0, Zenon
       DEF ReadFail, At, Return
  <2>2. CASE HsReadFail(t, b)
    BY <2>2, <1>0, Zenon
       DEF HsReadFail, AtScript, Goto, At
  <2> QED
    BY <1>11, <2>1, <2>2, Zenon DEF ReadFails
<1>15. CASE NetBreak
  BY <1>15, <1>0, Zenon DEF NetBreak
<1> HIDE DEF PastDeadlineInv, NothingAfterCloseNotify, goVars, locks, recVars, closeVars,
        netVars, wireVars
<1> QED
  BY <1>1, <1>2, <1>3, <1>4, <1>5, <1>6, <1>7, <1>8, <1>9, <1>10, <1>11, <1>15,
        Zenon DEF Next, Local

-----------------------------------------------------------------------------
(* The error of c.out, when no oversized handshake message arrives.        *)

\* OutErrInv holds in every reachable state.
LEMMA OutErrInductive ==
    ASSUME "oversize" \notin PeerKinds
    PROVE  Spec => []OutErrInv
<1>1. Init => OutErrInv
  BY Zenon DEF Init, OutErrInv, NoAppAfterAlert
<1>2. IInv /\ OutErrInv /\ [Next]_vars => OutErrInv'
  <2> SUFFICES ASSUME IInv, OutErrInv, [Next]_vars PROVE OutErrInv'
    BY Zenon
  <2>1. CASE Next
    <3>1. /\ pc \in [Threads -> Labels]
          /\ MutexOwners /\ WriteInv /\ CloseNotifyInv
      BY Zenon DEF IInv, TypeOK, GoroutineTypeOK
    <3>2. outErr \in BOOLEAN
      BY Zenon DEF IInv, TypeOK, FlagsTypeOK
    <3> QED
      BY <2>1, <3>1, <3>2, OutErrStep, Zenon
  <2>2. CASE UNCHANGED vars
    BY <2>2, Zenon DEF OutErrInv, NoAppAfterAlert, vars, goVars, recVars, wireVars
  <2> QED
    BY <2>1, <2>2, Zenon
<1> QED
  BY <1>1, <1>2, Inductive, PTL DEF Spec

\* Without oversized messages no application data follows a fatal alert.
THEOREM AppBeforeAlert ==
    ASSUME "oversize" \notin PeerKinds
    PROVE  Spec => []NoAppAfterAlert
<1>1. OutErrInv => NoAppAfterAlert
  BY Zenon DEF OutErrInv
<1> QED
  BY <1>1, OutErrInductive, PTL

\* Without oversized messages c.out.err is permanent: the nil that Write stores
\* after a successful record never replaces an error.
THEOREM OutErrPermanent ==
    ASSUME "oversize" \notin PeerKinds
    PROVE  Spec => OutErrSticky
<1>1. OutErrInv /\ [Next]_vars => [outErr => outErr']_vars
  BY OutErrKept, Zenon
<1> QED
  BY <1>1, OutErrInductive, PTL DEF Spec, OutErrSticky

-----------------------------------------------------------------------------
(* The interrupter, the alerts and the close_notify.                       *)

\* The interrupter runs only while its handshake does.
LEMMA ScopeInductive == Spec => []ScopeInv
<1>1. Init => ScopeInv
  BY ThreadsAssumption, Zenon DEF Init, ScopeInv, AlertLabels, HsLabels
<1>2. IInv /\ ScopeInv /\ [Next]_vars => ScopeInv'
  <2>1. CASE UNCHANGED vars
    BY <2>1, Zenon DEF vars, goVars, hsVars, locks, netVars, ctxVars, ScopeInv
  <2> QED
    BY <2>1, ScopeStep, Zenon DEF IInv
<1> QED
  BY <1>1, <1>2, Inductive, PTL DEF Spec

\* HandshakeContext returns the error of its context only with the connection
\* closed, and its interrupter is gone when it returns: it cannot close the
\* connection under a later call.
THEOREM InterrupterEnds == Spec => []InterrupterScoped
<1>1. ScopeInv => InterrupterScoped
  BY Zenon DEF ScopeInv, InterrupterScoped
<1> QED
  BY <1>1, ScopeInductive, PTL

\* With one handshake only, alerts leave before anything can keep them back.
LEMMA OnceInductive ==
    ASSUME OneHandshake
    PROVE  Spec => []OnceInv
<1>1. Init => OnceInv
  BY DEF Init, OnceInv, AlertNotStranded, AlertLabels
<1>2. IInv /\ OnceInv /\ [Next]_vars => OnceInv'
  <2>1. CASE UNCHANGED vars
    BY <2>1, Zenon DEF vars, goVars, hsVars, locks, recVars, OnceInv, AlertNotStranded
  <2> QED
    BY <2>1, OnceStep, Zenon DEF IInv
<1> QED
  BY <1>1, <1>2, Inductive, PTL DEF Spec

\* handshakeContext flushes the alert of a handshake that failed.  A failed
\* renegotiation does not, which is why the theorem is about the others.
THEOREM AlertsFlushed ==
    ASSUME OneHandshake
    PROVE  Spec => []AlertNotStranded
<1>1. OnceInv => AlertNotStranded
  BY Zenon DEF OnceInv
<1> QED
  BY <1>1, OnceInductive, PTL

\* With one handshake only, a closeNotify that reports no error has written its record.
LEMMA NotifiedInductive ==
    ASSUME OneHandshake
    PROVE  Spec => []NotifiedInv
<1>1. Init => NotifiedInv
  BY Zenon DEF Init, NotifiedInv
<1>2. IInv /\ NotifiedInv /\ [Next]_vars => NotifiedInv'
  <2>1. CASE UNCHANGED vars
    BY <2>1, Zenon DEF vars, goVars, hsVars, recVars, closeVars, wireVars, NotifiedInv
  <2> QED
    BY <2>1, NotifiedStep, Zenon DEF IInv
<1> QED
  BY <1>1, <1>2, Inductive, PTL DEF Spec

\* A closeNotify that reports success has put its record on the wire, when no
\* renegotiation can be buffering under it.
THEOREM CloseNotifyReported ==
    ASSUME OneHandshake
    PROVE  Spec => []CloseNotifyOrError
<1>1. NotifiedInv => CloseNotifyOrError
  BY Zenon DEF NotifiedInv, CloseNotifyOrError
<1> QED
  BY <1>1, NotifiedInductive, PTL

\* Nothing follows the close_notify on the wire, as the comment of closeNotify has
\* it, if no renegotiation buffers it, no oversized message is answered without
\* c.out, and the application does not move the deadline set by closeNotify.
THEOREM CloseNotifyIsLast ==
    ASSUME OneHandshake, "oversize" \notin PeerKinds,
           \A t \in Threads : "setwritedeadline" \notin Ops[t]
    PROVE  Spec => []NothingAfterCloseNotify
<1>1. Init => PastDeadlineInv
  BY Zenon DEF Init, PastDeadlineInv, NothingAfterCloseNotify
<1>2. IInv /\ OutErrInv /\ NotifiedInv /\ PastDeadlineInv /\ [Next]_vars => PastDeadlineInv'
  <2>1. CASE UNCHANGED vars
    BY <2>1, Zenon DEF vars, closeVars, netVars, wireVars, PastDeadlineInv, NothingAfterCloseNotify
  <2> QED
    BY <2>1, PastDeadlineStep, Zenon DEF IInv, OutErrInv
<1>3. Spec => []OutErrInv
  BY OutErrInductive, Zenon
<1>4. Spec => []NotifiedInv
  BY NotifiedInductive, Zenon
<1>5. PastDeadlineInv => NothingAfterCloseNotify
  BY Zenon DEF PastDeadlineInv
<1> QED
  BY <1>1, <1>2, <1>3, <1>4, <1>5, Inductive, PTL DEF Spec

=============================================================================
