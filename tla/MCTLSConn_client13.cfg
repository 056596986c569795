SPECIFICATION Spec
CONSTANTS
    t1 = t1  t2 = t2  t3 = t3  NoThread = NoThread
    Threads = {t1, t2, t3}
    Ops <- HandshakeReadWrite
    Cancellable = {t1}
    IsTLS13 = TRUE
    IsClient = TRUE
    Renegotiation = "never"
    PeerKinds = {"app", "bad", "key_update"}
    MaxCalls = 2
    MaxPeerRecords = 1
INVARIANTS
    NoAppAfterAlert
    NothingAfterCloseNotify
    InterrupterScoped
    AlertNotStranded
    CloseNotifyOrError

    
CHECK_DEADLOCK FALSE
