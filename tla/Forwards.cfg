SPECIFICATION Spec
CONSTANTS
    MaxJumpDepth = 2
    MCPortSets <- SetsHere
    Rulesets <- MCRulesets
    Packets <- MCPackets
INVARIANTS
    TypeOK
    NoForwardIsSilent
    OneRowPerPort
