SPECIFICATION Spec
CONSTANTS
    alice = alice
    bob = bob
    b1 = b1
    b2 = b2
    w1 = w1
    w2 = w2
    w3 = w3
    e1 = e1
    e2 = e2
    None = None
    Submitters = {w1, w2}
    Validators = {w1, w2}
    Stages <- ChainStages
    Required <- ChainRequired
    Principals <- ChainPrincipals
    Authorized <- ChainAuthorized
    Votes <- RacingVotes
    EntryIds = {None}
    Bindings <- TwoBindings
    MaxEntries = 3
    MaxFailures = 1
SYMMETRY Symmetry
INVARIANTS
    TypeOK
    ReleasedOnApproval
    AllowIsEndorsed
PROPERTY ImplementsContract
