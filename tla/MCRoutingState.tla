--------------------------- MODULE MCRoutingState ---------------------------
(* Small instances of RoutingState for TLC. *)
EXTENDS RoutingState, TLC

CONSTANTS v4a, p1, p2, p3, p4

FamilyV4 == {v4a}
NoFamily == {}

FourPeers == {p1, p2, p3, p4}

\* 0 is the value selected_asn starts from, so it is one of the ASNs.
ThreeAsns == {0, 1, 2}

\* Ids are only compared for being equal: they can be exchanged.
PeersAlike == Permutations(FourPeers)

=============================================================================
