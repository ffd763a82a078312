SPECIFICATION Spec
CONSTANTS
    Concurrency = 1
    MaxPorts = 2
    Requests <- MCRequests
    Networks <- MCNetworks
    Explained = {0, 80}
INVARIANTS
    TypeOK
    ResultsComplete
    ErrorsAreNoEvidence
    RealityReachesThePolicy
    GreenIsEarned
    OverrulesAreReported
    AdoptedPolicyFits
    ExitIsExplained
PROPERTIES
    Ends
CHECK_DEADLOCK FALSE
