SPECIFICATION FairSpec
CONSTANTS
    t1 = t1  t2 = t2  t3 = t3  NoThread = NoThread
    Threads = {t1, t2, t3}
    Ops <- HandshakeReadWrite
    Cancellable = {t1}
    IsTLS13 = TRUE
    IsClient = FALSE
    Renegotiation = "never"
    PeerKinds = {"app", "close_notify"}
    MaxCalls = 1
    MaxPeerRecords = 1
PROPERTIES
    ClosedConnUnblocks
    CancelReturns
    
CHECK_DEADLOCK FALSE
