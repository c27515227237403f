SPECIFICATION Spec
CONSTANTS
    wifi = wifi
    mobile = mobile
    Link <- MCLink
    NoLink = NoLink
    HoldDown = 1
    Margin = 8
    WindowSize = 1
    c1 = c1
    c2 = c2
    Configs <- MCConfigs
    NoConfig = NoConfig
    States <- MCStates
    Samples <- MCSamples
SYMMETRY Symmetry
INVARIANTS
    TypeOK
    OneLeftOver
    LinksFollow
    ProbesFollow
    SelectionFollows
    HoldDownSinceSwitch
