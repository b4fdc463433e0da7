SPECIFICATION Spec
CONSTANTS
    q1 = q1
    q2 = q2
    a1 = a1
    a2 = a2
    a3 = a3
    h1 = h1
    None = None
    Requests <- MCRequests
    Approvers <- MCApprovers
    Hosts <- MCHosts
    Escalators <- MCEscalators
    RequiredApprovals = 2
    RequiredDenials = 1
    FatigueThreshold = 1
    FatigueWindow = 1
INVARIANTS
    TypeOK
    AllowIsBacked
    DenialPrevails
    VotesAreHonoured
    FatigueBounded
SYMMETRY MCSymmetry
CHECK_DEADLOCK FALSE
