SPECIFICATION Spec
CONSTANTS
    NIface = 3
    MinCycles = 3
    Advantage = 2
    HoldDown = 3
    Unhealthy = 1
    MaxScore = 3
    Records <- MCRecords
INVARIANTS
    TypeOK
    SwitchIffConfirmed
    HoldDownIsQuiet
