SPECIFICATION Spec
CONSTANTS
    NIface = 3
    MinCycles = 2
    Advantage = 2
    HoldDown = 1
    Unhealthy = 1
    MaxScore = 3
    Physical <- MCPhysical
    Original <- MCOriginal
    RouteMetric <- StaticRoute
    AutoMetrics <- MCAutoMetrics
    Links <- MCLinks
    HealthMaps <- MCHealthMaps
    Selections <- MCSelections
    Faults = {}
    MaxMoves = 1
PROPERTIES
    PlanBeatsOthers
