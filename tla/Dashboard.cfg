SPECIFICATION FairSpec
CONSTANTS
    Iface = {"vpn"}
    TypeOf <- MCTypeOf
    Retentions = {1, 2}
    MaxQueue = 1
    MaxSetBacks = 1
INVARIANTS
    TypeOK
    HistoryBounded
    ClearHolds
PROPERTIES
    ViewSettles
