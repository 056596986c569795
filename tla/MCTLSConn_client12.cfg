SPECIFICATION Spec
CONSTANTS
    t1 = t1  t2 = t2  t3 = t3  NoThread = NoThread
    Threads = {t1, t2, t3}
    Ops <- ReadersAndWriter
    Cancellable = {}
    IsTLS13 = FALSE
    IsClient = TRUE
    Renegotiation = "once"
    PeerKinds = {"app", "bad", "fatal", "oversize", "hello_request"}
    MaxCalls = 1
    MaxPeerRecords = 3
INVARIANTS
    IInv
    NoLockCycle
    AppDataInPhase
    NoAppAfterCloseNotify
CHECK_DEADLOCK FALSE
