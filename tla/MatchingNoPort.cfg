SPECIFICATION Spec
CONSTANTS
    Inputs <- NoPortInputs
    PortSets <- MCPortSets
INVARIANTS
    NoPortKeepsThePort
