SPECIFICATION FairSpec
CONSTANTS
    NIface = 2
    Physical = {2}
    Kind <- MCKind
    TargetOrder <- MCTargetOrder
    Links <- MCLinks
    Overrides <- MCOverrides
    Answers <- MCAnswers
    MayFail = {"dns"}
    MayRaise = {"web"}
INVARIANTS
    TypeOK
    NoGhosts
    InternetDecides
    OutageIsHarmless
PROPERTIES
    DeselectedFades
    EnabledIsMeasured
