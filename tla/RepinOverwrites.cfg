SPECIFICATION Spec
CONSTANTS
    NIface = 3
    MinCycles = 1
    Advantage = 2
    HoldDown = 1
    Unhealthy = 1
    MaxScore = 3
    Physical <- MCPhysical
    Original <- MCOriginal
    RouteMetric <- NoRouteMetric
    AutoMetrics <- MCAutoMetrics
    Links <- MCLinks
    HealthMaps <- MCHealthMaps
    Selections <- MCSelections
    Faults = {}
    MaxMoves = 1
INVARIANTS
    SavedIsOriginal
