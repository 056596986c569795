SPECIFICATION FairSpec
CONSTANTS
    s1 = s1  s2 = s2  admin = admin  NoThread = NoThread
    b1 = b1  b2 = b2  b3 = b3  b4 = b4  Base = b1  NoConfig = NoConfig
    Threads = {s1, s2, admin}
    Ops <- ServersAndAdmin
    Configs = {b1, b2, b3, b4}
    ForClient = {b2, b3, b4}
    Born = {b1, b2, b4}
    Disabled = {b1}
    UserKey = {b2}
    IsTLS13 = FALSE
    Rotation = 1
    Lifetime = 2
    MaxTicketAge = 1
    MaxCalls = 1
    MaxTime = 1
INVARIANTS
    ReadLocksPaired
PROPERTIES
    LegacyNeverReplaces
    CallsReturn
CHECK_DEADLOCK FALSE
