\* Any number of messages of ten kinds, malformed prefixes among them, or at most
\* two; signal and key press at any time; counters modulo 3.
CONSTANTS
    net_a = net_a   net_b = net_b
    NoRoute = NoRoute
    BadPrefix = BadPrefix
    NotJson = NotJson
    NoValue = NoValue
    PrefixOf <- TextsOfPrefixes
    Prefix <- TwoPrefixes
    Peer <- TwoPeers
    Asns = {1, 2}
    Timestamps = {0, 7}
    LoadedTables <- TwoTables
    Messages <- AllTexts
    AsnLimit = 8
    MessageLimits = {0, 2}
    StopOnKeypress = TRUE
    SizeLimit = 3
SPECIFICATION FairSpec
INVARIANTS MessageAppliedWhole SavedIsWhole EventsAccounted
PROPERTIES SignalFreezesTable StopEnds
\* The process ends.
CHECK_DEADLOCK FALSE
