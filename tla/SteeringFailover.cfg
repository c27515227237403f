SPECIFICATION FairSpec
CONSTANTS
    NIface = 4
    MinCycles = 3
    Advantage = 2
    HoldDown = 2
    Unhealthy = 1
    MaxScore = 3
    Physical <- FourPhysical
    Original <- FourOriginal
    RouteMetric <- FourRouteMetrics
    AutoMetrics <- FourMetrics
    Links <- FourLinks
    HealthMaps <- FourHealth
    Selections <- FourSelected
    Faults = {}
    MaxMoves = 0
PROPERTIES
    FailsOver
    
