SPECIFICATION Spec
CONSTANTS
    Iface <- MCIface
    DNATTarget <- MCDNATTarget
    SetList <- MCSetList
    Rule <- MCRule
    MatchRule <- MCMatchRule
    Inputs <- MCInputs
    MaxJumpDepth = 2
INVARIANTS
    TypeOK
    DecidingHitDecides
    AcceptAccountsForEveryBase
    NothingEscapes
    HitsInPriorityOrder
    UniqueNamesKeepTable
PROPERTIES
    GotoNeverResumes
    ImplementsHookSpec
    Terminates
