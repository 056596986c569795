SPECIFICATION Spec
CONSTANTS
    s1 = s1  s2 = s2  admin = admin  NoThread = NoThread
    b1 = b1  b2 = b2  b3 = b3  b4 = b4  Base = b1  NoConfig = NoConfig
    Threads = {s1, s2}
    Ops <- TwoServers
    Configs = {b1}
    ForClient = {}
    Born = {b1}
    Disabled = {}
    UserKey = {}
    IsTLS13 = FALSE
    Rotation = 2
    Lifetime = 3
    MaxTicketAge = 1
    MaxCalls = 2
    MaxTime = 5
INVARIANTS
    KeysSpaced
    TicketSurvives
    KeysExpireSoon
    SecretsExpire
SYMMETRY Servers
CHECK_DEADLOCK FALSE
