\* Malformed prefixes.
CONSTANTS
    net_a = net_a   net_b = net_b
    NoRoute = NoRoute
    BadPrefix = BadPrefix
    NotJson = NotJson
    NoValue = NoValue
    PrefixOf <- TextsOfPrefixes
    Prefix <- TwoPrefixes
    Peer <- TwoPeers
    Asns = {1, 2}
    Timestamps = {0, 7}
    LoadedTables <- TwoTables
    Messages <- AllTexts
    AsnLimit = 8
    MessageLimits = {0}
    StopOnKeypress = FALSE
    SizeLimit = 1
SPECIFICATION Spec
PROPERTIES MalformedIgnored
\* The process ends.
CHECK_DEADLOCK FALSE
