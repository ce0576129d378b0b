\* One prefix, two peers and one whose name splits its line, four ids.
CONSTANTS
    v4a = v4a   v6a = v6a
    peer_a = peer_a   peer_b = peer_b   peer_c = peer_c
    NoRoute = NoRoute
    PrefixV4 <- FamilyV4
    PrefixV6 <- FamilyNone
    Asns = {5}
    Timestamps = {1, 2}
    Peers <- ThreePeers
    Splitting <- SplittingPeer
    PeerIds = {1, 2, 3, 4}
    PeerIdLimit = 16
    LastFreeId = 4
    PrefixRank <- RankV4
SPECIFICATION SnapshotSpec
INVARIANTS CompleteFileLoads MapsAreInverse
PROPERTIES RejectedFileIsKept IdsAreStable
SYMMETRY PeersAlike
