SPECIFICATION Spec
CONSTANTS
    Inputs <- MCInputs
    PortSets <- MCPortSets
INVARIANTS
    TypeOK
    DecisionsAreTheAuthors
    UnknownHasACause
    SkippingIsHarmless
    DoesWhatIsWritten
    RereadAsCollected
    NeverPanics
    ExplainAgrees
