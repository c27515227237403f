SPECIFICATION Spec
CONSTANTS
    NIface = 3
    MinCycles = 1
    Advantage = 2
    HoldDown = 1
    Unhealthy = 1
    MaxScore = 3
    Physical <- MCPhysical
    Original <- MCOriginal
    RouteMetric <- NoRouteMetric
    AutoMetrics <- FixedMetrics
    Links <- MCLinks
    HealthMaps <- EthernetDead
    Selections <- EverySelected
    Faults = {"restore"}
    MaxMoves = 1
PROPERTIES
    DisableReportsTruth
