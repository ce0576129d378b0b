\* Three prefixes, a window of two samples, samples up to two ticks apart.
CONSTANTS
    v4a = v4a   v4b = v4b   v6a = v6a   asn_a = asn_a
    PrefixV4 <- TwoV4
    PrefixV6 <- OneV6
    Asns <- OneAsn
    PlateauEnabled = TRUE
    WindowSamples = 2
    Threshold = 2
    MinRuntime = 2
    RateUnit = 2
    MaxInterval = 2
    SizeLimit = 1
SPECIFICATION FairSpec
INVARIANTS WindowSumIsExact GrowthAddsUp
PROPERTIES PlateauIsSlowGrowth QuietIsDetected
