SPECIFICATION Spec
CONSTANTS
    Inputs <- KeptRow
    HookResult <- MCHookResult
    Forwarded <- MCForwarded
    SrcOf <- MCSrcOf
    Unmap <- MCUnmap
INVARIANTS
    ForwardIsReported
