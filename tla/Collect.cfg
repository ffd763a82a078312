SPECIFICATION MCSpec
CONSTANTS
    Tables <- MCTables
    Chains <- MCChains
    Sets <- MCSets
    TableOf <- MCTableOf
    FamilyOf <- MCFamilyOf
    MaxTx = 2
    Sysctls = {"ip_forward"}
    Devices = {"eth0"}
    ForwardingOf <- MCForwardingOf
    Listeners = {"tcp"}
    OwnerOf <- MCOwnerOf
    Legacy = {"iptables-legacy"}
    Containers = {"web"}
    MaxEvents = 2
INVARIANTS
    TypeOK
    NothingMissingSilently
    UntouchedIsExact
    BlindOnlyWhenRefused
    EveryRefusalBlinds
    AbsenceIsTold
CHECK_DEADLOCK FALSE
