SPECIFICATION FairSpec
CONSTANTS
    a1 = a1
    a2 = a2
    alice = alice
    NoOwner = NoOwner
    NoCred = NoCred
    Agents <- MCAgents
    Owners <- MCOwners
    Policies <- MCPolicies
    TTL = 1
    Overlap = 0
    OrphanThreshold = 0
    MaxCrashes = 1
INVARIANTS
    TypeOK
    FileAgrees
    DecommissionIsFinal
    ApprovedBeforeService
PROPERTIES
    CredentialRenewed
    SilentIsOrphaned
CHECK_DEADLOCK FALSE
