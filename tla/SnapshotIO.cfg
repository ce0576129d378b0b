\* Two prefixes of both families, two peers, two ids, two timestamps.
CONSTANTS
    v4a = v4a   v6a = v6a
    peer_a = peer_a   peer_b = peer_b   peer_c = peer_c
    NoRoute = NoRoute
    PrefixV4 <- FamilyV4
    PrefixV6 <- FamilyV6
    Asns = {5}
    Timestamps = {1, 2}
    Peers <- TwoPeers
    Splitting <- NoPeers
    PeerIds = {1, 2}
    PeerIdLimit = 16
    LastFreeId = 2
    PrefixRank <- Rank
SPECIFICATION SnapshotSpec
INVARIANT RowsHavePeers
PROPERTIES RestartRestoresRoutes PartialLoadIsPartial ImplementsTableByPeer
SYMMETRY PeersAlike
