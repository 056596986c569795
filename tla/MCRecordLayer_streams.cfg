\* Instance of RecordLayer.
SPECIFICATION FairSpec
CONSTANTS
    Versions = {"1.2", "1.3"}
    maxUselessRecords = 1
    MaxSeq = 2
    MaxFragments = 2
    MaxWrites = 1
    MaxPeer = 3
    MaxTickets = 2
INVARIANTS
    ReadInOrder
    DisagreeOnlyAfterLoss
PROPERTIES
    ImplementsStreams
    
CHECK_DEADLOCK FALSE
