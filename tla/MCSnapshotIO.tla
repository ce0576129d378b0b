---------------------------- MODULE MCSnapshotIO ----------------------------
(* Small instances of SnapshotIO for TLC. *)
EXTENDS SnapshotIO, TLC

CONSTANTS v4a, v6a, peer_a, peer_b, peer_c

FamilyV4 == {v4a}
FamilyV6 == {v6a}
FamilyNone == {}
TwoPeers == {peer_a, peer_b}
SplittingPeer == {peer_c}
ThreePeers == TwoPeers \cup SplittingPeer
NoPeers == {}

Rank == [prefix \in {v4a, v6a} |-> IF prefix = v4a THEN 1 ELSE 2]
RankV4 == [prefix \in {v4a} |-> 1]

\* Everything that is ordered in a save or a load goes by ids and prefixes: peers whose
\* names are alike can be exchanged.
PeersAlike == Permutations(TwoPeers)

=============================================================================
