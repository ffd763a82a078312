SPECIFICATION Spec
CONSTANTS
    Inputs <- MCInputs
    HookResult <- MCHookResult
    Forwarded <- MCForwarded
    SrcOf <- MCSrcOf
    Unmap <- MCUnmap
INVARIANTS
    TypeOK
    BlindIsUnknown
    SocketExposureIsReported
    FilteredIsProven
PROPERTIES
    EveryRowIsJudged
