----------------------------- MODULE PeerRegistry -----------------------------
(***************************************************************************)
(* PeerRegistry of peer_registry.h/.cpp: peer identities and the compact   *)
(* ids that stand for them in the routing state.                           *)
(***************************************************************************)
EXTENDS Naturals, FiniteSets, HashMap

CONSTANTS
    Peers,        \* the peer identities (PeerInfo)
    PeerIdLimit,  \* 2^32: ids are taken modulo this
    LastFreeId    \* bound: no id above this one is ever used

ASSUME PeersAssumption == IsFiniteSet(Peers)
ASSUME IdsAssumption   == /\ PeerIdLimit \in Nat /\ LastFreeId \in Nat
                          /\ LastFreeId + 1 < PeerIdLimit

VARIABLES by_info, by_id, next_peer_id

registryVars == <<by_info, by_id, next_peer_id>>

\* The ids a snapshot may bring back.
UsableIds == 1 .. LastFreeId

RegistryInit ==
    /\ by_info = EmptyMap
    /\ by_id = EmptyMap
    /\ next_peer_id = 1

Known(peer) == peer \in DOMAIN by_info

\* What get_or_add returns.
IdOf(peer) == IF Known(peer) THEN by_info[peer] ELSE next_peer_id

GetKnown(peer) ==
    /\ Known(peer)
    /\ UNCHANGED registryVars

\* Mutant: the id is used without counting on.
AddPeerSameId(peer) ==
    /\ ~Known(peer)
    /\ next_peer_id <= LastFreeId
    /\ by_info' = Put(by_info, peer, next_peer_id)
    /\ by_id' = Put(by_id, next_peer_id, peer)
    /\ UNCHANGED next_peer_id

AddPeer(peer) ==
    /\ ~Known(peer)
    /\ next_peer_id <= LastFreeId
    /\ next_peer_id' = (next_peer_id + 1) % PeerIdLimit
    /\ by_info' = Put(by_info, peer, next_peer_id)
    /\ by_id' = Put(by_id, next_peer_id, peer)

GetOrAdd(peer) == GetKnown(peer) \/ AddPeer(peer)

ContainsId(peer_id) == peer_id \in DOMAIN by_id

\* When this is false insert_with_id throws and changes nothing.
Insertable(peer_id, peer) == ~ContainsId(peer_id) /\ ~Known(peer)

\* Mutant: restored ids are not counted.
NextIdNotMoved(peer_id) == next_peer_id

NextIdAfter(peer_id) ==
    IF peer_id >= next_peer_id THEN (peer_id + 1) % PeerIdLimit ELSE next_peer_id

InsertWithId(peer_id, peer) ==
    /\ Insertable(peer_id, peer)
    /\ by_id' = Put(by_id, peer_id, peer)
    /\ by_info' = Put(by_info, peer, peer_id)
    /\ next_peer_id' = NextIdAfter(peer_id)

ClearRegistry ==
    /\ by_info' = EmptyMap
    /\ by_id' = EmptyMap
    /\ next_peer_id' = 1

RegistryNext ==
    \/ \E peer \in Peers : GetOrAdd(peer)
    \/ \E peer_id \in UsableIds, peer \in Peers : InsertWithId(peer_id, peer)
    \/ ClearRegistry

RegistrySpec == RegistryInit /\ [][RegistryNext]_registryVars

-----------------------------------------------------------------------------
(* Properties.                                                             *)

\* Both maps hold ids and identities of their types, the counter an id.
RegistryTypeOK ==
    /\ DOMAIN by_info \subseteq Peers
    /\ by_info \in [DOMAIN by_info -> UsableIds]
    /\ DOMAIN by_id \subseteq UsableIds
    /\ by_id \in [DOMAIN by_id -> Peers]
    /\ next_peer_id \in 1 .. LastFreeId + 1

\* The two maps are inverses of each other: no two peers share an id and none has
\* two, however additions and insertions are mixed (get_or_add overwrites by_id_
\* without looking, insert_with_id looks first).
MapsAreInverse ==
    /\ \A peer \in DOMAIN by_info : ContainsId(by_info[peer]) /\ by_id[by_info[peer]] = peer
    /\ \A peer_id \in DOMAIN by_id : Known(by_id[peer_id]) /\ by_info[by_id[peer_id]] = peer_id

\* The next id to be handed out is above every id in use, those restored from a
\* snapshot with gaps included, as long as the ids have not run up to 2^32 - 1.
NextIdIsFresh == \A peer_id \in DOMAIN by_id : peer_id < next_peer_id

\* A peer keeps its id until the registry is cleared: an id cached by the ingest
\* loop or stored in an observation never starts to mean another peer.
IdsAreStable ==
    [][\/ DOMAIN by_id' = {}
       \/ \A peer_id \in DOMAIN by_id :
              peer_id \in DOMAIN by_id' /\ by_id'[peer_id] = by_id[peer_id]]_registryVars

=============================================================================
