SPECIFICATION Spec
CONSTANTS
    Concurrency = 1
    MaxPorts = 2
    Requests <- MCRequests
    Networks <- MCNetworks
    Explained = {0, 80}
INVARIANTS
    SecondaryAddressCounts
CHECK_DEADLOCK FALSE
