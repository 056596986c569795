SPECIFICATION FairSpec
CONSTANTS
    s1 = s1  s2 = s2  admin = admin  NoThread = NoThread
    b1 = b1  b2 = b2  b3 = b3  b4 = b4  Base = b1  NoConfig = NoConfig
    Threads = {s1, admin}
    Ops <- ServerAndSetter
    Configs = {b1, b2}
    ForClient = {b2}
    Born = {b1, b2}
    Disabled = {b2}
    UserKey = {}
    IsTLS13 = FALSE
    Rotation = 2
    Lifetime = 3
    MaxTicketAge = 1
    MaxCalls = 1
    MaxTime = 0
PROPERTIES
    CallsReturn
CHECK_DEADLOCK FALSE
