SPECIFICATION Spec
CONSTANTS
    Iface <- MCIface
    DNATTarget <- MCDNATTarget
    SetList <- MCSetList
    Rule <- MCRule
    MatchRule <- MCMatchRule
    Inputs <- SharedName
    MaxJumpDepth = 2
INVARIANT WalkStaysInTable
