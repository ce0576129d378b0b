\* One prefix, four peers that can be exchanged, three origins, two timestamps: every
\* tie and every majority among up to four observations, every packed-removal
\* position, every switch of the winner.
CONSTANTS
    v4a = v4a
    p1 = p1   p2 = p2   p3 = p3   p4 = p4
    NoRoute = NoRoute
    PrefixV4 <- FamilyV4
    PrefixV6 <- NoFamily
    PeerIds <- FourPeers
    Asns <- ThreeAsns
    Timestamps = {7, 8}
SPECIFICATION Spec
INVARIANTS RecordsCoherent SelectionsBest AggregatedInSync
PROPERTIES SwitchHasCause ImplementsRoutingTable RebuildFindsNothing
SYMMETRY PeersAlike
