SPECIFICATION Spec
CONSTANTS
    NIface = 3
    MinCycles = 1
    Advantage = 2
    HoldDown = 1
    Unhealthy = 1
    MaxScore = 3
    Physical <- MCPhysical
    Original <- MCOriginal
    RouteMetric <- NoRouteMetric
    AutoMetrics <- MCAutoMetrics
    Links <- VpnStaysUp
    HealthMaps <- MCHealthMaps
    Selections <- MCSelections
    Faults = {"read", "apply", "restore", "timeout", "crash"}
    MaxMoves = 1
INVARIANTS
    TypeOK
    AtMostOneSaved
    LedgerIsRight
    OnlyPhysicalTouched
    RestoredIsTrue
PROPERTIES
    FailbackFirst
    ImplementsSession
