---------------------------- MODULE RoutingState ----------------------------
(***************************************************************************)
(* RoutingState of routing_state.h/.cpp.  The IPv4 and the IPv6 maps are   *)
(* handled by the same templates and never share a key, so each pair of    *)
(* maps is one function on the union of the two key spaces; the per-family *)
(* counts are taken on the two parts of its domain.                        *)
(***************************************************************************)
EXTENDS PrefixRecord

CONSTANTS
    PrefixV4,      \* the IPv4 prefixes
    PrefixV6,      \* the IPv6 prefixes
    PeerIds,       \* the peer ids callers pass
    Asns,          \* the origin ASNs callers pass; 0 is a legal one
    Timestamps,    \* the message timestamps callers pass
    NoRoute        \* only used by the mapping to the abstract table

ASSUME FamiliesAssumption == PrefixV4 \cap PrefixV6 = {}
ASSUME PeerIdsAssumption  == IsFiniteSet(PeerIds)
ASSUME AsnsAssumption     == Asns \subseteq Nat
ASSUME NoRouteAssumption  == NoRoute \notin [origin_asn : Asns, timestamp : Timestamps]

VARIABLES
    by_prefix,     \* by_prefix_v4_ and by_prefix_v6_: prefix -> record
    aggregated     \* aggregated_v4_ and aggregated_v6_: prefix -> origin ASN

vars == <<by_prefix, aggregated>>

Prefix == PrefixV4 \cup PrefixV6

Init ==
    /\ by_prefix = EmptyMap
    /\ aggregated = EmptyMap

-----------------------------------------------------------------------------
(* Announce.                                                               *)

\* by_prefix[prefix], which creates an empty record when there is none.
RecordAt(prefix) ==
    IF prefix \in DOMAIN by_prefix THEN by_prefix[prefix] ELSE NewRecord

Synced(map, prefix, rec) ==
    IF rec.selected_count = 0
    THEN Erase(map, prefix)
    ELSE Put(map, prefix, rec.selected_asn)

Store(prefix, rec) ==
    /\ by_prefix' = Put(by_prefix, prefix, rec)
    /\ aggregated' = Synced(aggregated, prefix, rec)

\* The peer repeats the origin it already has: only its timestamp moves, and
\* the function returns before sync_aggregated.
AnnounceSameOrigin(peer_id, prefix, asn, timestamp) ==
    LET index == IndexOfPeer(RecordAt(prefix), peer_id) IN
    /\ index # 0
    /\ RecordAt(prefix).observations[index].origin_asn = asn
    /\ by_prefix' = Put(by_prefix, prefix, Refresh(RecordAt(prefix), index, timestamp))
    /\ UNCHANGED aggregated

\* Mutant: returns before sync_aggregated, as AnnounceSameOrigin may.
AnnounceNewOriginUnsynced(peer_id, prefix, asn, timestamp) ==
    LET index == IndexOfPeer(RecordAt(prefix), peer_id) IN
    /\ index # 0
    /\ RecordAt(prefix).observations[index].origin_asn # asn
    /\ by_prefix' = Put(by_prefix, prefix,
                        ChangeOrigin(RecordAt(prefix), index, asn, timestamp))
    /\ UNCHANGED aggregated

AnnounceNewOrigin(peer_id, prefix, asn, timestamp) ==
    LET index == IndexOfPeer(RecordAt(prefix), peer_id) IN
    /\ index # 0
    /\ RecordAt(prefix).observations[index].origin_asn # asn
    /\ Store(prefix, ChangeOrigin(RecordAt(prefix), index, asn, timestamp))

AnnounceNewPeer(peer_id, prefix, asn, timestamp) ==
    /\ IndexOfPeer(RecordAt(prefix), peer_id) = 0
    /\ Store(prefix, AddObservation(RecordAt(prefix), peer_id, asn, timestamp))

Announce(peer_id, prefix, asn, timestamp) ==
    \/ AnnounceSameOrigin(peer_id, prefix, asn, timestamp)
    \/ AnnounceNewOrigin(peer_id, prefix, asn, timestamp)
    \/ AnnounceNewPeer(peer_id, prefix, asn, timestamp)

-----------------------------------------------------------------------------
(* Withdraw.                                                               *)

\* No record, or none of its observations is the peer's: both searches fail.
WithdrawUnknown(peer_id, prefix) ==
    /\ IndexOfPeer(RecordAt(prefix), peer_id) = 0
    /\ UNCHANGED vars

WithdrawLast(peer_id, prefix) ==
    LET index == IndexOfPeer(RecordAt(prefix), peer_id) IN
    /\ index # 0
    /\ RemoveObservation(RecordAt(prefix), index).observations = << >>
    /\ by_prefix' = Erase(by_prefix, prefix)
    /\ aggregated' = Erase(aggregated, prefix)

WithdrawOne(peer_id, prefix) ==
    LET index == IndexOfPeer(RecordAt(prefix), peer_id) IN
    /\ index # 0
    /\ RemoveObservation(RecordAt(prefix), index).observations # << >>
    /\ Store(prefix, RemoveObservation(RecordAt(prefix), index))

Withdraw(peer_id, prefix) ==
    \/ WithdrawUnknown(peer_id, prefix)
    \/ WithdrawLast(peer_id, prefix)
    \/ WithdrawOne(peer_id, prefix)

-----------------------------------------------------------------------------
(* Clearing, and the rebuild that ends a snapshot load.                    *)

Clear ==
    /\ by_prefix' = EmptyMap
    /\ aggregated' = EmptyMap

\* Every prefix is recomputed, so one synced entry per record is what is left
\* in the cleared map.
RebuildAggregated ==
    /\ by_prefix' = [prefix \in DOMAIN by_prefix |-> RecomputeSelected(by_prefix[prefix])]
    /\ aggregated' =
          [prefix \in {x \in DOMAIN by_prefix : by_prefix'[x].selected_count # 0} |->
              by_prefix'[prefix].selected_asn]

-----------------------------------------------------------------------------

Next ==
    \/ \E peer_id \in PeerIds, prefix \in Prefix, asn \in Asns, timestamp \in Timestamps :
          Announce(peer_id, prefix, asn, timestamp)
    \/ \E peer_id \in PeerIds, prefix \in Prefix : Withdraw(peer_id, prefix)
    \/ Clear
    \/ RebuildAggregated

Spec == Init /\ [][Next]_vars

-----------------------------------------------------------------------------
(* Read-only members.                                                      *)

ActivePrefixesV4Count == Cardinality(DOMAIN aggregated \cap PrefixV4)
ActivePrefixesV6Count == Cardinality(DOMAIN aggregated \cap PrefixV6)

\* stored_observations(): what a snapshot saves. The order of the vector is that
\* of the unordered maps and the caller sorts it, so a set stands for it.
StoredObservations ==
    UNION {{[prefix      |-> prefix,
             peer_id     |-> by_prefix[prefix].observations[i].peer_id,
             origin_asn  |-> by_prefix[prefix].observations[i].origin_asn,
             timestamp   |-> by_prefix[prefix].timestamps[i]] :
                i \in DOMAIN by_prefix[prefix].observations} :
                    prefix \in DOMAIN by_prefix}

-----------------------------------------------------------------------------
(* Properties.                                                             *)

\* Every member holds values of its C++ type: ids, ASNs and timestamps come
\* from what callers passed, counters and selections are naturals.
RecordTypeOK(rec) ==
    /\ rec \in [observations : Seq([peer_id : PeerIds, origin_asn : Asns]),
                timestamps : Seq(Timestamps),
                asn_counts : [DOMAIN rec.asn_counts -> Nat \ {0}],
                selected_asn : Asns,
                selected_count : Nat \ {0}]
    /\ DOMAIN rec.asn_counts \subseteq Asns

TypeOK ==
    /\ DOMAIN by_prefix \subseteq Prefix
    /\ by_prefix = [prefix \in DOMAIN by_prefix |-> by_prefix[prefix]]
    /\ \A prefix \in DOMAIN by_prefix : RecordTypeOK(by_prefix[prefix])
    /\ DOMAIN aggregated \subseteq Prefix
    /\ aggregated \in [DOMAIN aggregated -> Asns]

\* The packed record stays coherent under swap-with-back removal: the timestamp
\* vector stays as long as the observation vector, a peer occurs at most once, no
\* empty record survives, and the incrementally kept counters are the tallies of
\* the observations (announce_impl and withdraw_impl, routing_state.cpp).
RecordsCoherent ==
    \A prefix \in DOMAIN by_prefix :
        LET rec == by_prefix[prefix] IN
        /\ rec.observations # << >>
        /\ Len(rec.timestamps) = Len(rec.observations)
        /\ OneObservationPerPeer(rec)
        /\ CountersAreTallies(rec)

\* The incrementally kept winner of every record is the ASN with the most peers,
\* the lowest one on a tie, with its current count: announce and withdraw skip the
\* rescan only when it could not have changed the answer.
SelectionsBest ==
    \A prefix \in DOMAIN by_prefix : SelectionIsBest(by_prefix[prefix])

\* The export table has exactly one entry per active prefix, the selected origin:
\* no path through announce or withdraw leaves it out of step (sync_aggregated).
AggregatedInSync ==
    /\ DOMAIN aggregated = DOMAIN by_prefix
    /\ \A prefix \in DOMAIN by_prefix :
          aggregated[prefix] = by_prefix[prefix].selected_asn

\* The rebuild at the end of a snapshot load finds nothing to repair: after any
\* sequence of incremental updates a full rescan leaves every selection and the
\* export table as they are (rebuild_aggregated).
RebuildFindsNothing == [][RebuildAggregated => UNCHANGED vars]_vars

\* The exported origin of a prefix moves from one ASN to another only if the old
\* one lost a peer or the new one gained one in that very update: unrelated
\* announcements and withdrawals never make the mapping flap.
BackersOf ==
    [prefix \in Prefix |-> [asn \in Asns |->
        IF prefix \in DOMAIN by_prefix THEN Backers(by_prefix[prefix], asn) ELSE {}]]

SwitchHasCause ==
    [][\A prefix \in DOMAIN aggregated \cap DOMAIN aggregated' :
          LET old == aggregated[prefix]
              new == aggregated'[prefix]
          IN  old # new =>
                \/ BackersOf[prefix][old] \ BackersOf'[prefix][old] # {}
                \/ BackersOf'[prefix][new] \ BackersOf[prefix][new] # {}]_vars

\* The row of the abstract table a record stands for.
RouteOfPeer(rec, peer_id) ==
    LET index == IndexOfPeer(rec, peer_id) IN
    IF index = 0
    THEN NoRoute
    ELSE [origin_asn |-> rec.observations[index].origin_asn,
          timestamp |-> rec.timestamps[index]]

TableOfRecords ==
    [prefix \in Prefix |->
        [peer_id \in PeerIds |-> RouteOfPeer(RecordAt(prefix), peer_id)]]

\* RoutingState implements RoutingTable: whatever the order of updates, each peer's
\* last route with its timestamp is what is stored, and the exported origin is
\* the one a full recount of all routes gives (README: "Incremental prefix-origin
\* selection (avoids full recomputation on every update)").
Table == INSTANCE RoutingTable WITH
    Peer <- PeerIds, table <- TableOfRecords, exported <- aggregated

ImplementsRoutingTable == Table!Spec

=============================================================================
