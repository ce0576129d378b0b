\* The shipped configuration: plateau detection enabled, no statistics output, no limit.
CONSTANTS
    net_v4 = net_v4   net_v6 = net_v6
    NoRoute = NoRoute
    BadPrefix = BadPrefix
    NotJson = NotJson
    NoValue = NoValue
    PrefixOf <- TextsOfPrefixes
    Prefix <- TwoPrefixes
    PrefixV4 <- OneV4
    PrefixV6 <- OneV6
    Peer <- TwoPeers
    Asns = {1, 2}
    Timestamps = {7}
    LoadedTables <- TwoTables
    Messages <- OneText
    AsnLimit = 8
    MessageLimits = {0}
    StopOnKeypress = FALSE
    SizeLimit = 2
    PlateauEnabled = TRUE
    WindowSamples = 2
    Threshold = 2
    MinRuntime = 2
    RateUnit = 2
    MaxInterval = 2
    StatsInterval = 1
    StatsOutputSettings = {FALSE}
SPECIFICATION GrowthFairSpec
PROPERTIES PlateauIsReported
\* The process ends.
CHECK_DEADLOCK FALSE
