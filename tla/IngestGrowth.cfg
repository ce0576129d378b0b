\* One message or three, samples due every tick, a window of two samples.
CONSTANTS
    net_v4 = net_v4   net_v6 = net_v6
    NoRoute = NoRoute
    BadPrefix = BadPrefix
    NotJson = NotJson
    NoValue = NoValue
    PrefixOf <- TextsOfPrefixes
    Prefix <- TwoPrefixes
    PrefixV4 <- OneV4
    PrefixV6 <- OneV6
    Peer <- TwoPeers
    Asns = {1, 2}
    Timestamps = {7}
    LoadedTables <- TwoTables
    Messages <- FiveTexts
    AsnLimit = 8
    MessageLimits = {1, 3}
    StopOnKeypress = TRUE
    SizeLimit = 8
    PlateauEnabled = TRUE
    WindowSamples = 2
    Threshold = 2
    MinRuntime = 2
    RateUnit = 2
    MaxInterval = 2
    StatsInterval = 1
    StatsOutputSettings = {TRUE, FALSE}
SPECIFICATION GrowthSpec
INVARIANTS SeenCoversTable PlateauIsTold
PROPERTIES ImplementsGrowthStats LinesAreCurrent
\* The process ends.
CHECK_DEADLOCK FALSE
