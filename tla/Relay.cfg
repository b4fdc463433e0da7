SPECIFICATION FairSpec
CONSTANTS
    s1 = s1
    s2 = s2
    c1 = c1
    c2 = c2
    None = None
    Senders <- TwoSenders
    Sockets <- TwoSockets
    MaxSent = 1
    MaxDrops = 1
INVARIANT TypeOK
PROPERTIES
    PendingArrives
    
    ImplementsMailbox
CHECK_DEADLOCK FALSE
