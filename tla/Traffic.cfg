SPECIFICATION Spec
CONSTANTS
    Iface = {"eth", "vpn"}
    TypeOf <- MCTypeOf
    MayReset = {"eth"}
    MayVanish = {"eth"}
    Overrides <- MCOverrides
    MaxCount <- MCMaxCount
    MaxMoved <- MCMaxCount
INVARIANTS
    TypeOK
    RecordsAreTrue
    NothingMissed
    OneSelection
    SharesAddUp
