SPECIFICATION FairSpec
CONSTANTS
    alice = alice
    bob = bob
    b1 = b1
    b2 = b2
    w1 = w1
    w2 = w2
    w3 = w3
    e1 = e1
    e2 = e2
    None = None
    Submitters = {w1}
    Validators = {w2, w3}
    Stages <- ChainStages
    Required <- ChainRequired
    Principals <- ChainPrincipals
    Authorized <- ChainAuthorized
    Votes <- CompletingVotes
    EntryIds = {None}
    Bindings <- TwoBindings
    MaxEntries = 2
    MaxFailures = 1
INVARIANT ConsumedAtMostOnce
PROPERTY TimeoutSettles
