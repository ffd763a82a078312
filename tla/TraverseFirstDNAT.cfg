SPECIFICATION Spec
CONSTANTS
    Iface <- MCIface
    DNATTarget <- MCDNATTarget
    SetList <- MCSetList
    Rule <- MCRule
    MatchRule <- MCMatchRule
    Inputs <- Hooked
    MaxJumpDepth = 2
INVARIANT FirstDNATWins
