--------------------------- MODULE SnapshotIOProofs ---------------------------
(***************************************************************************)
(* The peer registry, and the snapshots that save and restore it together  *)
(* with the routing state, for any number of peers, prefixes and restarts. *)
(***************************************************************************)
EXTENDS SnapshotIO, RoutingStateProofs

-----------------------------------------------------------------------------
(* The registry: ids and identities stay one to one.                       *)

\* NextIdIsFresh keeps an addition from overwriting an id that is in use, which
\* MapsAreInverse needs and get_or_add does not look at.
RegistryInv == RegistryTypeOK /\ MapsAreInverse /\ NextIdIsFresh

\* The successor of an id in use does not wrap.
LEMMA NextIdCounts ==
    ASSUME NEW id \in 0 .. LastFreeId
    PROVE  (id + 1) % PeerIdLimit = id + 1
BY IdsAssumption

\* Adding a pair of an unused id and an unknown peer, below the new next id, which
\* is both an addition and an insertion.
LEMMA PairKeeps ==
    ASSUME RegistryInv, NEW peer \in Peers, NEW id \in UsableIds,
           ~Known(peer), ~ContainsId(id),
           by_info' = Put(by_info, peer, id), by_id' = Put(by_id, id, peer),
           next_peer_id' \in Nat, next_peer_id' >= next_peer_id,
           next_peer_id' > id, next_peer_id' <= LastFreeId + 1
    PROVE  /\ RegistryInv'
           /\ \A other \in DOMAIN by_id : other \in DOMAIN by_id' /\ by_id'[other] = by_id[other]
<1>1. /\ DOMAIN by_info' = DOMAIN by_info \cup {peer}
      /\ by_info'[peer] = id
      /\ \A other \in DOMAIN by_info : other # peer /\ by_info'[other] = by_info[other]
  BY DEF Known, Put
<1>2. /\ DOMAIN by_id' = DOMAIN by_id \cup {id}
      /\ by_id'[id] = peer
      /\ \A other \in DOMAIN by_id : other # id /\ by_id'[other] = by_id[other]
  BY DEF ContainsId, Put
<1>3. RegistryTypeOK'
  <2>1. by_info' \in [DOMAIN by_info' -> UsableIds]
    BY <1>1 DEF RegistryInv, RegistryTypeOK, Put
  <2>2. by_id' \in [DOMAIN by_id' -> Peers]
    BY <1>2 DEF RegistryInv, RegistryTypeOK, Put
  <2>3. next_peer_id' \in 1 .. LastFreeId + 1
    BY IdsAssumption DEF RegistryInv, RegistryTypeOK, UsableIds
  <2>4. QED
    BY <1>1, <1>2, <2>1, <2>2, <2>3 DEF RegistryInv, RegistryTypeOK
<1>4. MapsAreInverse'
  BY <1>1, <1>2 DEF RegistryInv, RegistryTypeOK, MapsAreInverse, Known, ContainsId
<1>5. NextIdIsFresh'
  <2>1. \A other \in DOMAIN by_id : other \in Nat /\ other < next_peer_id /\ next_peer_id \in Nat
    BY IdsAssumption DEF RegistryInv, RegistryTypeOK, NextIdIsFresh, UsableIds
  <2>2. QED
    BY <1>2, <2>1, IdsAssumption DEF NextIdIsFresh, UsableIds
<1>6. QED
  BY <1>2, <1>3, <1>4, <1>5 DEF RegistryInv

\* get_or_add of an unknown peer.
LEMMA AddPeerKeeps ==
    ASSUME RegistryInv, NEW peer \in Peers, AddPeer(peer)
    PROVE  /\ RegistryInv'
           /\ \A other \in DOMAIN by_id : other \in DOMAIN by_id' /\ by_id'[other] = by_id[other]
<1>1. next_peer_id \in UsableIds /\ next_peer_id \in 0 .. LastFreeId
  BY IdsAssumption DEF RegistryInv, RegistryTypeOK, AddPeer, UsableIds
<1>2. ~ContainsId(next_peer_id)
  BY <1>1, IdsAssumption DEF RegistryInv, NextIdIsFresh, ContainsId, UsableIds
<1>3. next_peer_id' = next_peer_id + 1
  BY <1>1, NextIdCounts DEF AddPeer
<1>4. /\ next_peer_id' \in Nat /\ next_peer_id' >= next_peer_id
      /\ next_peer_id' > next_peer_id /\ next_peer_id' <= LastFreeId + 1
  BY <1>1, <1>3, IdsAssumption DEF UsableIds
<1>5. QED
  BY <1>1, <1>2, <1>4, PairKeeps DEF AddPeer

\* insert_with_id of an unused id and an unknown peer.
LEMMA InsertWithIdKeeps ==
    ASSUME RegistryInv, NEW id \in UsableIds, NEW peer \in Peers, InsertWithId(id, peer)
    PROVE  /\ RegistryInv'
           /\ \A other \in DOMAIN by_id : other \in DOMAIN by_id' /\ by_id'[other] = by_id[other]
<1>1. ~Known(peer) /\ ~ContainsId(id)
  BY DEF InsertWithId, Insertable
<1>2. id \in 0 .. LastFreeId /\ next_peer_id \in 1 .. LastFreeId + 1 /\ LastFreeId \in Nat
  BY IdsAssumption DEF RegistryInv, RegistryTypeOK, UsableIds
<1>3. next_peer_id' = IF id >= next_peer_id THEN id + 1 ELSE next_peer_id
  BY <1>2, NextIdCounts DEF InsertWithId, NextIdAfter
<1>4. /\ next_peer_id' \in Nat /\ next_peer_id' >= next_peer_id
      /\ next_peer_id' > id /\ next_peer_id' <= LastFreeId + 1
  BY <1>2, <1>3
<1>5. QED
  BY <1>1, <1>4, PairKeeps DEF InsertWithId

\* The empty registry, as it begins and as clear leaves it.
LEMMA EmptyIsGood ==
    /\ EmptyMap \in [{} -> UsableIds] /\ EmptyMap \in [{} -> Peers]
    /\ DOMAIN EmptyMap = {}
    /\ 1 \in 1 .. LastFreeId + 1
BY IdsAssumption DEF EmptyMap

\* The empty registry is a good one.
LEMMA RegistryStarts == RegistryInit => RegistryInv
BY EmptyIsGood DEF RegistryInit, RegistryInv, RegistryTypeOK, MapsAreInverse, NextIdIsFresh

\* So is a cleared one.
LEMMA ClearKeeps ==
    ASSUME ClearRegistry
    PROVE  RegistryInv' /\ DOMAIN by_id' = {}
BY EmptyIsGood DEF ClearRegistry, RegistryInv, RegistryTypeOK, MapsAreInverse, NextIdIsFresh

\* Nothing changes, nothing breaks.
LEMMA StutterKeeps ==
    ASSUME RegistryInv, UNCHANGED registryVars
    PROVE  /\ RegistryInv'
           /\ \A other \in DOMAIN by_id : other \in DOMAIN by_id' /\ by_id'[other] = by_id[other]
BY DEF RegistryInv, RegistryTypeOK, MapsAreInverse, NextIdIsFresh, Known, ContainsId, registryVars

\* Every operation keeps the registry good, and but for a clear every pair in it.
LEMMA RegistryStepKeeps ==
    ASSUME RegistryInv, [RegistryNext]_registryVars
    PROVE  /\ RegistryInv'
           /\ \/ DOMAIN by_id' = {}
              \/ \A other \in DOMAIN by_id : other \in DOMAIN by_id' /\ by_id'[other] = by_id[other]
<1>1. CASE UNCHANGED registryVars
  BY <1>1, StutterKeeps
<1>2. ASSUME NEW peer \in Peers, GetOrAdd(peer)
      PROVE  /\ RegistryInv'
             /\ \A other \in DOMAIN by_id : other \in DOMAIN by_id' /\ by_id'[other] = by_id[other]
  BY <1>2, StutterKeeps, AddPeerKeeps DEF GetOrAdd, GetKnown
<1>3. ASSUME NEW id \in UsableIds, NEW peer \in Peers, InsertWithId(id, peer)
      PROVE  /\ RegistryInv'
             /\ \A other \in DOMAIN by_id : other \in DOMAIN by_id' /\ by_id'[other] = by_id[other]
  BY <1>3, InsertWithIdKeeps
<1>4. CASE ClearRegistry
  BY <1>4, ClearKeeps
<1>5. QED
  BY <1>1, <1>2, <1>3, <1>4 DEF RegistryNext

\* Ids and identities keep their types, the maps stay inverse and the next id fresh.
THEOREM RegistryInvHolds == RegistrySpec => []RegistryInv
<1>1. RegistryInv /\ [RegistryNext]_registryVars => RegistryInv'
  BY RegistryStepKeeps
<1>2. QED
  BY RegistryStarts, <1>1, PTL DEF RegistrySpec

\* The maps hold ids and identities, the counter an id that does not wrap.
THEOREM IdsKeepTypes == RegistrySpec => []RegistryTypeOK
<1>1. RegistryInv => RegistryTypeOK
  BY DEF RegistryInv
<1>2. QED
  BY RegistryInvHolds, <1>1, PTL

\* No two peers ever share an id and none has two.
THEOREM MapsStayInverse == RegistrySpec => []MapsAreInverse
<1>1. RegistryInv => MapsAreInverse
  BY DEF RegistryInv
<1>2. QED
  BY RegistryInvHolds, <1>1, PTL

\* The next id is above every id in use, restored ones included.
THEOREM NextIdStaysFresh == RegistrySpec => []NextIdIsFresh
<1>1. RegistryInv => NextIdIsFresh
  BY DEF RegistryInv
<1>2. QED
  BY RegistryInvHolds, <1>1, PTL

\* An id keeps its meaning until the registry is cleared.
THEOREM IdsStayStable == RegistrySpec => IdsAreStable
<1>1. RegistryInv /\ [RegistryNext]_registryVars =>
        [\/ DOMAIN by_id' = {}
         \/ \A peer_id \in DOMAIN by_id :
               peer_id \in DOMAIN by_id' /\ by_id'[peer_id] = by_id[peer_id]]_registryVars
  BY RegistryStepKeeps
<1>2. QED
  BY RegistryInvHolds, <1>1, PTL DEF RegistrySpec, IdsAreStable


-----------------------------------------------------------------------------
(* The routing state as a table by id, and what a snapshot saves of it.    *)

Tables == [Prefix -> Rows]

\* An observation line.
SavedRow == [prefix : Prefix, peer_id : PeerIds, origin_asn : Asns, timestamp : Timestamps]

RouteOfRow(row) == Route(row.origin_asn, row.timestamp)

\* The lines that save a table.
RowsOf(tab) == {row \in SavedRow : tab[row.prefix][row.peer_id] = RouteOfRow(row)}

LineOf(prefix, peer_id, asn, timestamp) ==
    [prefix |-> prefix, peer_id |-> peer_id, origin_asn |-> asn, timestamp |-> timestamp]

\* The records are read as a table of routes.
LEMMA TableIsTyped ==
    ASSUME IInv
    PROVE  /\ TableOfRecords \in Tables
           /\ \A prefix \in Prefix : Packed(RecordAt(prefix))
           /\ \A prefix \in Prefix : TableOfRecords[prefix] = Row(RecordAt(prefix))
<1>1. \A prefix \in Prefix : Packed(RecordAt(prefix)) /\ Row(RecordAt(prefix)) \in Rows
  BY RecordAtStarts, StartRecordFacts
<1>2. QED
  BY <1>1, TableRows DEF Tables

\* A line of a table has a route of it, and every route has its line.
LEMMA LinesAreRoutes ==
    ASSUME NEW tab \in Tables
    PROVE  /\ \A row \in RowsOf(tab) :
                 /\ row \in SavedRow
                 /\ tab[row.prefix][row.peer_id] = RouteOfRow(row)
                 /\ tab[row.prefix][row.peer_id] # NoRoute
           /\ \A prefix \in Prefix, peer_id \in PeerIds :
                 tab[prefix][peer_id] # NoRoute =>
                    \E row \in RowsOf(tab) : row.prefix = prefix /\ row.peer_id = peer_id
           /\ \A row, other \in RowsOf(tab) :
                 row.prefix = other.prefix /\ row.peer_id = other.peer_id => row = other
<1>1. ASSUME NEW row \in RowsOf(tab)
      PROVE  /\ row \in SavedRow
             /\ tab[row.prefix][row.peer_id] = RouteOfRow(row)
             /\ tab[row.prefix][row.peer_id] # NoRoute
  BY NoRouteAssumption DEF RowsOf, SavedRow, RouteOfRow, Route
<1>2. ASSUME NEW prefix \in Prefix, NEW peer_id \in PeerIds, tab[prefix][peer_id] # NoRoute
      PROVE  \E row \in RowsOf(tab) : row.prefix = prefix /\ row.peer_id = peer_id
  <2>1. tab[prefix][peer_id] \in Routes
    BY <1>2 DEF Tables, Rows
  <2>2. PICK asn \in Asns, timestamp \in Timestamps : tab[prefix][peer_id] = Route(asn, timestamp)
    BY <2>1 DEF Routes, Route
  <2>3. LineOf(prefix, peer_id, asn, timestamp) \in RowsOf(tab)
    BY <2>2 DEF LineOf, RowsOf, SavedRow, RouteOfRow, Route
  <2>4. QED
    BY <2>3 DEF LineOf
<1>3. ASSUME NEW row \in RowsOf(tab), NEW other \in RowsOf(tab),
             row.prefix = other.prefix, row.peer_id = other.peer_id
      PROVE  row = other
  <2>1. /\ row \in SavedRow /\ other \in SavedRow
        /\ RouteOfRow(row) = RouteOfRow(other)
    BY <1>1, <1>3
  <2>2. row.origin_asn = other.origin_asn /\ row.timestamp = other.timestamp
    BY <2>1 DEF RouteOfRow, Route
  <2>3. QED
    BY <1>3, <2>1, <2>2 DEF SavedRow
<1>4. QED
  BY <1>1, <1>2, <1>3

\* What is saved are the lines of the table (stored_observations).
LEMMA StoredAreLines ==
    ASSUME IInv
    PROVE  StoredObservations = RowsOf(TableOfRecords)
<1>1. /\ TableOfRecords \in Tables
      /\ \A prefix \in Prefix : Packed(RecordAt(prefix))
      /\ \A prefix \in Prefix : TableOfRecords[prefix] = Row(RecordAt(prefix))
  BY TableIsTyped
<1>2. ASSUME NEW row \in StoredObservations
      PROVE  row \in RowsOf(TableOfRecords)
  <2>1. PICK prefix \in DOMAIN by_prefix :
           \E i \in DOMAIN by_prefix[prefix].observations :
              row = LineOf(prefix, by_prefix[prefix].observations[i].peer_id,
                           by_prefix[prefix].observations[i].origin_asn,
                           by_prefix[prefix].timestamps[i])
    BY DEF StoredObservations, LineOf
  <2> DEFINE rec == by_prefix[prefix]
  <2>2. PICK i \in DOMAIN rec.observations :
           row = LineOf(prefix, rec.observations[i].peer_id,
                        rec.observations[i].origin_asn, rec.timestamps[i])
    BY <2>1
  <2>3. prefix \in Prefix /\ rec = RecordAt(prefix)
    BY <2>1, InvariantMeaning DEF GoodState, RecordAt
  <2>4. /\ rec.observations[i] \in Obs /\ rec.timestamps[i] \in Timestamps
        /\ RouteOfPeer(rec, rec.observations[i].peer_id) =
              Route(rec.observations[i].origin_asn, rec.timestamps[i])
    BY <1>1, <2>2, <2>3, RouteAt
  <2>5. row \in SavedRow
    BY <2>2, <2>3, <2>4 DEF LineOf, SavedRow, Obs
  <2>6. TableOfRecords[prefix][row.peer_id] = RouteOfRow(row) /\ row.prefix = prefix
    <3>1. /\ row.prefix = prefix /\ row.peer_id = rec.observations[i].peer_id
          /\ RouteOfRow(row) = Route(rec.observations[i].origin_asn, rec.timestamps[i])
      BY <2>2 DEF LineOf, RouteOfRow
    <3>2. row.peer_id \in PeerIds
      BY <2>5 DEF SavedRow
    <3>3. TableOfRecords[prefix] = Row(rec)
      BY <1>1, <2>3
    <3>4. QED
      BY <2>4, <3>1, <3>2, <3>3 DEF Row
  <2>7. QED
    BY <2>5, <2>6 DEF RowsOf
<1>3. ASSUME NEW row \in RowsOf(TableOfRecords)
      PROVE  row \in StoredObservations
  <2> DEFINE rec == RecordAt(row.prefix)
  <2>1. /\ row \in SavedRow /\ row.prefix \in Prefix /\ row.peer_id \in PeerIds
        /\ Row(rec)[row.peer_id] = RouteOfRow(row) /\ Row(rec)[row.peer_id] # NoRoute
        /\ Packed(rec)
    BY <1>1, LinesAreRoutes DEF SavedRow
  <2>2. PICK i \in DOMAIN rec.observations : rec.observations[i].peer_id = row.peer_id
    BY <2>1, RowHasRoute DEF PeersIn
  <2>3. /\ RouteOfPeer(rec, row.peer_id) = Route(rec.observations[i].origin_asn, rec.timestamps[i])
    BY <2>1, <2>2, RouteAt
  <2>4. row.origin_asn = rec.observations[i].origin_asn /\ row.timestamp = rec.timestamps[i]
    BY <2>1, <2>3 DEF Row, RouteOfRow, Route
  <2>5. row = LineOf(row.prefix, rec.observations[i].peer_id, rec.observations[i].origin_asn,
                     rec.timestamps[i])
    BY <2>1, <2>2, <2>4 DEF LineOf, SavedRow
  <2>6. row.prefix \in DOMAIN by_prefix
    <3>1. DOMAIN NewRecord.observations = {}
      BY DEF NewRecord
    <3>2. QED
      BY <2>2, <3>1 DEF RecordAt
  <2>7. rec = by_prefix[row.prefix]
    BY <2>6 DEF RecordAt
  <2> HIDE DEF rec
  <2>8. QED
    BY <2>2, <2>5, <2>6, <2>7 DEF StoredObservations, LineOf
<1>4. QED
  BY <1>2, <1>3

\* A route more is a line more.
LEMMA SetAddsLine ==
    ASSUME NEW tab \in Tables, NEW prefix \in Prefix, NEW peer_id \in PeerIds,
           NEW asn \in Asns, NEW timestamp \in Timestamps, tab[prefix][peer_id] = NoRoute,
           NEW new, new[prefix][peer_id] = Route(asn, timestamp),
           \A p \in Prefix, i \in PeerIds :
              p # prefix \/ i # peer_id => new[p][i] = tab[p][i]
    PROVE  RowsOf(new) = RowsOf(tab) \cup {LineOf(prefix, peer_id, asn, timestamp)}
<1> DEFINE line == LineOf(prefix, peer_id, asn, timestamp)
<1>1. /\ new[prefix][peer_id] = Route(asn, timestamp)
      /\ \A p \in Prefix, i \in PeerIds :
            p # prefix \/ i # peer_id => new[p][i] = tab[p][i]
  OBVIOUS
<1>2. line \in RowsOf(new)
  BY <1>1 DEF LineOf, RowsOf, SavedRow, RouteOfRow
<1>3. ASSUME NEW row \in SavedRow, row.prefix = prefix, row.peer_id = peer_id
      PROVE  row \notin RowsOf(tab) /\ (row \in RowsOf(new) <=> row = line)
  <2>1. row \notin RowsOf(tab)
    BY <1>3, NoRouteAssumption DEF RowsOf, RouteOfRow, Route, SavedRow
  <2>2. row \in RowsOf(new) <=> row.origin_asn = asn /\ row.timestamp = timestamp
    BY <1>1, <1>3 DEF RowsOf, RouteOfRow, Route
  <2>3. row = LineOf(row.prefix, row.peer_id, row.origin_asn, row.timestamp)
    BY DEF SavedRow, LineOf
  <2>4. QED
    BY <1>3, <2>1, <2>2, <2>3 DEF LineOf
<1>4. ASSUME NEW row \in SavedRow, ~ (row.prefix = prefix /\ row.peer_id = peer_id)
      PROVE  (row \in RowsOf(new) <=> row \in RowsOf(tab)) /\ row # line
  <2>1. row.prefix \in Prefix /\ row.peer_id \in PeerIds
    BY DEF SavedRow
  <2>2. new[row.prefix][row.peer_id] = tab[row.prefix][row.peer_id]
    BY <1>1, <1>4, <2>1
  <2>3. QED
    BY <1>4, <2>2 DEF RowsOf, LineOf
<1>5. RowsOf(new) \subseteq SavedRow /\ RowsOf(tab) \subseteq SavedRow /\ line \in SavedRow
  BY <1>2 DEF RowsOf
<1> HIDE DEF line
<1>6. RowsOf(new) = RowsOf(tab) \cup {line}
  BY <1>2, <1>3, <1>4, <1>5
<1>7. QED
  BY <1>6 DEF line

-----------------------------------------------------------------------------
(* The same table by identity.                                             *)

\* The table by peers, when info gives the peers their ids.
Identified(tab, info) ==
    [prefix \in Prefix |-> [peer \in Peers |->
        IF peer \in DOMAIN info THEN tab[prefix][info[peer]] ELSE NoRoute]]

\* Every id with a route is the id of one peer.
Names(info, tab) ==
    /\ DOMAIN info \subseteq Peers
    /\ \A peer \in DOMAIN info : info[peer] \in PeerIds
    /\ \A peer, other \in DOMAIN info : info[peer] = info[other] => peer = other
    /\ \A prefix \in Prefix, peer_id \in PeerIds :
          tab[prefix][peer_id] # NoRoute => \E peer \in DOMAIN info : info[peer] = peer_id

\* Both abstract tables count with the same Cardinality.
LEMMA SameCardinalityByPeer == \A S : TableByPeer!Cardinality(S) = Cardinality(S)
BY DEF Cardinality, TableByPeer!Cardinality

\* Sets that a one to one map takes onto each other are of a size.
LEMMA OneToOneSize ==
    ASSUME NEW S, NEW T, IsFiniteSet(S), NEW f \in [S -> T],
           \A x, y \in S : f[x] = f[y] => x = y,
           \A t \in T : \E x \in S : f[x] = t
    PROVE  Cardinality(T) = Cardinality(S)
<1>1. f \in Bijection(S, T)
  BY DEF Bijection, Injection, Surjection, IsInjective
<1>2. QED
  BY <1>1, FS_Bijection DEF ExistsBijection

\* An origin has as many voters among the peers as among their ids.
LEMMA VotersByPeer ==
    ASSUME NEW tab, NEW info, Names(info, tab), NEW prefix \in Prefix, NEW asn
    PROVE  LET ids   == Table!Voters(tab[prefix], asn)
               peers == TableByPeer!Voters(Identified(tab, info)[prefix], asn)
           IN  Cardinality(peers) = Cardinality(ids) /\ (peers = {} <=> ids = {})
<1> DEFINE ids   == Table!Voters(tab[prefix], asn)
           peers == TableByPeer!Voters(Identified(tab, info)[prefix], asn)
           peer(i) == CHOOSE x \in DOMAIN info : info[x] = i
           f == [i \in ids |-> peer(i)]
<1>1. \A i : i \in ids <=> i \in PeerIds /\ tab[prefix][i] # NoRoute /\ tab[prefix][i].origin_asn = asn
  BY DEF Table!Voters
<1>2. \A x : x \in peers <=> /\ x \in DOMAIN info
                            /\ tab[prefix][info[x]] # NoRoute
                            /\ tab[prefix][info[x]].origin_asn = asn
  BY DEF TableByPeer!Voters, Identified, Names
<1>3. \A i \in ids : peer(i) \in DOMAIN info /\ info[peer(i)] = i
  BY <1>1 DEF Names
<1>4. \A x \in peers : info[x] \in ids
  BY <1>1, <1>2 DEF Names
<1>5. IsFiniteSet(ids)
  BY VotersFinite
<1> HIDE DEF ids, peers, peer
<1>6. f \in [ids -> peers]
  <2>1. \A i \in ids : peer(i) \in peers
    BY <1>1, <1>2, <1>3
  <2>2. QED
    BY <2>1
<1>7. \A i, j \in ids : f[i] = f[j] => i = j
  BY <1>3
<1>8. \A x \in peers : \E i \in ids : f[i] = x
  BY <1>2, <1>3, <1>4 DEF Names
<1> HIDE DEF f
<1>9. Cardinality(peers) = Cardinality(ids)
  BY <1>5, <1>6, <1>7, <1>8, OneToOneSize
<1>10. peers = {} <=> ids = {}
  BY <1>4, <1>6
<1>11. QED
  BY <1>9, <1>10 DEF ids, peers

\* The origins exported are those of the recount by peer identity.
LEMMA ExportByPeer ==
    ASSUME NEW tab, NEW info, Names(info, tab)
    PROVE  TableByPeer!Export(Identified(tab, info)) = Table!Export(tab)
<1> DEFINE byPeer == Identified(tab, info)
<1>1. ASSUME NEW prefix \in Prefix
      PROVE  TableByPeer!HasRoute(byPeer[prefix]) <=> Table!HasRoute(tab[prefix])
  BY DEF TableByPeer!HasRoute, Table!HasRoute, Identified, Names
<1>2. ASSUME NEW prefix \in Prefix
      PROVE  TableByPeer!Winner(byPeer[prefix]) = Table!Winner(tab[prefix])
  <2>1. \A asn :
           /\ TableByPeer!Cardinality(TableByPeer!Voters(byPeer[prefix], asn)) =
                 Table!Cardinality(Table!Voters(tab[prefix], asn))
           /\ TableByPeer!Voters(byPeer[prefix], asn) = {} <=> Table!Voters(tab[prefix], asn) = {}
    BY VotersByPeer, SameCardinality, SameCardinalityByPeer
  <2>2. \A asn, other :
           TableByPeer!Beats(byPeer[prefix], asn, other) <=> Table!Beats(tab[prefix], asn, other)
    BY <2>1 DEF TableByPeer!Beats, Table!Beats
  <2>3. \A asn : TableByPeer!IsWinner(byPeer[prefix], asn) <=> Table!IsWinner(tab[prefix], asn)
    BY <2>1, <2>2 DEF TableByPeer!IsWinner, Table!IsWinner
  <2>4. QED
    BY <2>3 DEF TableByPeer!Winner, Table!Winner
<1> HIDE DEF byPeer
<1>3. TableByPeer!Export(byPeer) = Table!Export(tab)
  BY <1>1, <1>2 DEF TableByPeer!Export, Table!Export
<1>4. QED
  BY <1>3 DEF byPeer

-----------------------------------------------------------------------------
(* The memory: the routing state and the registry together.                *)

\* Every id with a route is that of a registered peer, or the next save would throw
\* and the next addition could give a peer the routes of another.
Linked ==
    \A prefix \in Prefix, peer_id \in PeerIds :
        TableOfRecords[prefix][peer_id] # NoRoute => peer_id \in DOMAIN by_id

MemoryInv == IInv /\ RegistryInv /\ Linked /\ routes = RoutesByPeer

\* What the invariants of the registry say of a single pair.
LEMMA RegistryFacts ==
    ASSUME RegistryInv
    PROVE  /\ DOMAIN by_info \subseteq Peers /\ DOMAIN by_id \subseteq PeerIds
           /\ \A peer \in DOMAIN by_info : /\ by_info[peer] \in PeerIds
                                           /\ by_info[peer] \in DOMAIN by_id
                                           /\ by_id[by_info[peer]] = peer
           /\ \A id \in DOMAIN by_id : /\ by_id[id] \in Peers
                                       /\ by_id[id] \in DOMAIN by_info
                                       /\ by_info[by_id[id]] = id
BY SameIdsAssumption DEF RegistryInv, RegistryTypeOK, MapsAreInverse, ContainsId, Known

\* The routes by peer are the table by identity.
LEMMA RoutesAreIdentified ==
    ASSUME RegistryInv
    PROVE  RoutesByPeer = Identified(TableOfRecords, by_info)
<1>1. \A prefix \in Prefix, peer \in Peers :
         RouteOf(prefix, peer) =
            IF peer \in DOMAIN by_info THEN TableOfRecords[prefix][by_info[peer]] ELSE NoRoute
  BY RegistryFacts DEF RouteOf, Known, TableOfRecords
<1>2. QED
  BY <1>1 DEF RoutesByPeer, Identified

\* The registry names every id with a route.
LEMMA RegistryNames ==
    ASSUME RegistryInv, Linked
    PROVE  Names(by_info, TableOfRecords)
<1>1. \A peer, other \in DOMAIN by_info : by_info[peer] = by_info[other] => peer = other
  BY RegistryFacts
<1>2. \A prefix \in Prefix, peer_id \in PeerIds :
         TableOfRecords[prefix][peer_id] # NoRoute =>
            \E peer \in DOMAIN by_info : by_info[peer] = peer_id
  BY RegistryFacts DEF Linked
<1>3. QED
  BY <1>1, <1>2, RegistryFacts DEF Names

\* The same after a step.
LEMMA RegistryNamesPrimed == RegistryInv' /\ Linked' => Names(by_info', TableOfRecords')
<1>1. RegistryInv /\ Linked => Names(by_info, TableOfRecords)
  BY RegistryNames
<1>2. (RegistryInv /\ Linked => Names(by_info, TableOfRecords))'
  BY <1>1, PTL
<1>3. QED
  BY <1>2

\* The export table is the one a full recount by peer identity gives.
LEMMA MemoryExport == MemoryInv => aggregated = TableByPeer!Export(routes)
<1> SUFFICES ASSUME MemoryInv
             PROVE  aggregated = TableByPeer!Export(routes)
  OBVIOUS
<1>1. routes = Identified(TableOfRecords, by_info) /\ Names(by_info, TableOfRecords)
  BY RoutesAreIdentified, RegistryNames DEF MemoryInv
<1>2. aggregated = Table!Export(TableOfRecords)
  BY ExportIsAggregated DEF MemoryInv
<1>3. QED
  BY <1>1, <1>2, ExportByPeer

\* The same after a step.
LEMMA MemoryExportPrimed == MemoryInv' => (aggregated = TableByPeer!Export(routes))'
BY MemoryExport, PTL

\* RoutesAreIdentified after a step.
LEMMA RoutesAreIdentifiedPrimed ==
    RegistryInv' => RoutesByPeer' = Identified(TableOfRecords', by_info')
<1>1. RegistryInv => RoutesByPeer = Identified(TableOfRecords, by_info)
  BY RoutesAreIdentified
<1>2. (RegistryInv => RoutesByPeer = Identified(TableOfRecords, by_info))'
  BY <1>1, PTL
<1>3. QED
  BY <1>2

\* A step that leaves the memory alone.
LEMMA MemoryKept ==
    ASSUME MemoryInv, UNCHANGED memory, routes' = RoutesByPeer'
    PROVE  /\ MemoryInv' /\ routes' = routes /\ TableOfRecords' = TableOfRecords
           /\ aggregated' = aggregated /\ by_id' = by_id /\ by_info' = by_info
<1>1. UNCHANGED <<by_prefix, aggregated, by_info, by_id, next_peer_id>>
  BY DEF memory
<1>2. IInv'
  BY <1>1, UnchangedKeepsInvariant DEF vars, MemoryInv
<1>3. RegistryInv'
  BY <1>1, StutterKeeps DEF registryVars, MemoryInv
<1>4. TableOfRecords' = TableOfRecords
  BY <1>1 DEF TableOfRecords, RecordAt
<1>5. Linked'
  BY <1>1, <1>4 DEF Linked, MemoryInv
<1>6. routes' = routes
  BY <1>1, <1>3, <1>4, RoutesAreIdentified, RoutesAreIdentifiedPrimed DEF MemoryInv
<1>7. QED
  BY <1>1, <1>2, <1>3, <1>4, <1>5, <1>6 DEF MemoryInv

\* A step that clears it: the end of the process, or the start of a load.
LEMMA MemoryCleared ==
    ASSUME Clear, ClearRegistry, routes' = RoutesByPeer'
    PROVE  /\ MemoryInv' /\ routes' = TableByPeer!EmptyTable /\ DOMAIN by_id' = {}
           /\ \A prefix \in Prefix, peer_id \in PeerIds : TableOfRecords'[prefix][peer_id] = NoRoute
<1>1. IInv' /\ TableOfRecords' = Table!EmptyTable
  BY ClearStep DEF Table!Clear
<1>2. RegistryInv' /\ DOMAIN by_id' = {} /\ DOMAIN by_info' = {}
  BY ClearKeeps, EmptyIsGood DEF ClearRegistry
<1>3. \A prefix \in Prefix, peer_id \in PeerIds : TableOfRecords'[prefix][peer_id] = NoRoute
  BY <1>1 DEF Table!EmptyTable
<1>4. Linked'
  BY <1>3 DEF Linked
<1>5. routes' = TableByPeer!EmptyTable
  BY <1>2, RoutesAreIdentifiedPrimed DEF Identified, TableByPeer!EmptyTable
<1>6. QED
  BY <1>1, <1>2, <1>3, <1>4, <1>5 DEF MemoryInv

\* A peer with its id, known before or not.
Registers(peer, peer_id) ==
    /\ DOMAIN by_info' = DOMAIN by_info \cup {peer}
    /\ by_info'[peer] = peer_id
    /\ \A other \in DOMAIN by_info : by_info'[other] = by_info[other]
    /\ DOMAIN by_id' = DOMAIN by_id \cup {peer_id}
    /\ peer \notin DOMAIN by_info => peer_id \notin DOMAIN by_id

\* get_or_add registers the peer with the id it returns.
LEMMA GetOrAddRegisters ==
    ASSUME RegistryInv, NEW peer \in Peers, GetOrAdd(peer)
    PROVE  RegistryInv' /\ IdOf(peer) \in PeerIds /\ Registers(peer, IdOf(peer))
<1>1. CASE GetKnown(peer)
  <2>1. peer \in DOMAIN by_info /\ IdOf(peer) = by_info[peer] /\ UNCHANGED registryVars
    BY <1>1 DEF GetKnown, Known, IdOf
  <2>2. RegistryInv'
    BY <2>1, StutterKeeps
  <2>3. QED
    BY <2>1, <2>2, RegistryFacts DEF Registers, registryVars
<1>2. CASE AddPeer(peer)
  <2>1. /\ peer \notin DOMAIN by_info /\ IdOf(peer) = next_peer_id
        /\ by_info' = Put(by_info, peer, next_peer_id)
        /\ by_id' = Put(by_id, next_peer_id, peer)
    BY <1>2 DEF AddPeer, Known, IdOf
  <2>2. RegistryInv'
    BY <1>2, AddPeerKeeps
  <2>3. next_peer_id \notin DOMAIN by_id /\ next_peer_id \in UsableIds
    BY <1>2, IdsAssumption DEF RegistryInv, RegistryTypeOK, NextIdIsFresh, AddPeer, UsableIds
  <2>4. QED
    BY <2>1, <2>2, <2>3, SameIdsAssumption DEF Registers, Put
<1>3. QED
  BY <1>1, <1>2 DEF GetOrAdd

\* An update of one route under the id of its peer, and of nothing else.
LEMMA MemorySet ==
    ASSUME MemoryInv, IInv', RegistryInv', NEW peer \in Peers, NEW peer_id \in PeerIds,
           Registers(peer, peer_id),
           NEW prefix \in Prefix, NEW route, SetsRoute(prefix, peer_id, route),
           routes' = RoutesByPeer'
    PROVE  MemoryInv' /\ routes' = [routes EXCEPT ![prefix][peer] = route]
<1>1. TableOfRecords' = [TableOfRecords EXCEPT ![prefix][peer_id] = route]
  BY DEF SetsRoute
<1>2. /\ TableOfRecords \in Tables /\ TableOfRecords'[prefix][peer_id] = route
      /\ \A p \in Prefix, i \in PeerIds :
            p # prefix \/ i # peer_id => TableOfRecords'[p][i] = TableOfRecords[p][i]
  BY <1>1, TableIsTyped DEF MemoryInv, Tables, Rows
<1>3. Linked'
  BY <1>2 DEF Linked, MemoryInv, Registers
<1>4. /\ routes = Identified(TableOfRecords, by_info)
      /\ routes' = Identified(TableOfRecords', by_info')
  BY RoutesAreIdentified, RoutesAreIdentifiedPrimed DEF MemoryInv
<1>5. ASSUME NEW p \in Prefix, NEW x \in Peers
      PROVE  routes'[p][x] = IF p = prefix /\ x = peer THEN route ELSE routes[p][x]
  <2>1. /\ routes[p][x] = IF x \in DOMAIN by_info THEN TableOfRecords[p][by_info[x]] ELSE NoRoute
        /\ routes'[p][x] =
              IF x \in DOMAIN by_info' THEN TableOfRecords'[p][by_info'[x]] ELSE NoRoute
    BY <1>4 DEF Identified
  <2>2. CASE x = peer /\ p = prefix
    BY <1>2, <2>1, <2>2 DEF Registers
  <2>3. CASE x = peer /\ p # prefix /\ peer \in DOMAIN by_info
    BY <1>2, <2>1, <2>3 DEF Registers
  <2>4. CASE x = peer /\ p # prefix /\ peer \notin DOMAIN by_info
    <3>1. peer_id \notin DOMAIN by_id
      BY <2>4 DEF Registers
    <3>2. TableOfRecords[p][peer_id] = NoRoute
      BY <3>1 DEF Linked, MemoryInv
    <3>3. QED
      BY <1>2, <2>1, <2>4, <3>2 DEF Registers
  <2>5. CASE x # peer /\ x \in DOMAIN by_info
    <3>1. /\ x \in DOMAIN by_info' /\ by_info'[x] = by_info[x]
          /\ peer \in DOMAIN by_info' /\ by_info'[peer] = peer_id
      BY <2>5 DEF Registers
    <3>2. Names(by_info', TableOfRecords')
      BY <1>3, RegistryNamesPrimed
    <3>3. by_info[x] # peer_id /\ by_info[x] \in PeerIds
      BY <2>5, <3>1, <3>2 DEF Names
    <3>4. QED
      BY <1>2, <2>1, <2>5, <3>1, <3>3
  <2>6. CASE x # peer /\ x \notin DOMAIN by_info
    BY <2>1, <2>6 DEF Registers
  <2>7. QED
    BY <2>2, <2>3, <2>4, <2>5, <2>6
<1>6. routes' = [p \in Prefix |-> [x \in Peers |->
                   IF p = prefix /\ x = peer THEN route ELSE routes[p][x]]]
  <2>1. routes' = [p \in Prefix |-> [x \in Peers |-> routes'[p][x]]]
    BY <1>4 DEF Identified
  <2>2. QED
    BY <1>5, <2>1
<1>7. routes = [p \in Prefix |-> [x \in Peers |-> routes[p][x]]]
  BY <1>4 DEF Identified
<1>8. [routes EXCEPT ![prefix][peer] = route] =
         [p \in Prefix |-> [x \in Peers |->
             IF p = prefix /\ x = peer THEN route ELSE routes[p][x]]]
  BY <1>7
<1>9. QED
  BY <1>3, <1>6, <1>8 DEF MemoryInv

-----------------------------------------------------------------------------
(* The file, the save and the load.                                        *)

SavedTables == [Prefix -> [Peers -> Routes \cup {NoRoute}]]

\* One line per prefix and id.
KeysAreUnique(rows) ==
    \A row, other \in rows :
        row.prefix = other.prefix /\ row.peer_id = other.peer_id => row = other

\* The peer of a line is in the file, and had a route with that origin.
RowIsSaved(row) ==
    /\ row.peer_id \in DOMAIN file.peers
    /\ saved[row.prefix][file.peers[row.peer_id]] # NoRoute
    /\ saved[row.prefix][file.peers[row.peer_id]].origin_asn = row.origin_asn

\* The whole lines of a file are all right but for the names that split theirs.
NamesDecide == file.rejected <=> \E id \in DOMAIN file.peers : file.peers[id] \in Splitting

FileIsComplete ==
    /\ file.stage = "observations" /\ NamesDecide
    /\ \A id \in DOMAIN file.peers : \E row \in file.rows : row.peer_id = id
    /\ \A row \in file.rows : saved[row.prefix][file.peers[row.peer_id]] = RouteOfRow(row)
    /\ \A prefix \in Prefix, peer \in Peers : saved[prefix][peer] # NoRoute =>
          \E row \in file.rows : row.prefix = prefix /\ file.peers[row.peer_id] = peer

\* What is true of the file whenever the process dies: its lines are part of what was
\* being saved, and once there are any all peers are there, each with its own id.
FileInv ==
    /\ file = FileOf(file.stage, file.peers, file.rows, file.rejected)
    /\ DOMAIN file.peers \subseteq PeerIds
    /\ \A id \in DOMAIN file.peers : file.peers[id] \in Peers
    /\ file.rows \subseteq SavedRow /\ KeysAreUnique(file.rows)
    /\ saved \in SavedTables
    /\ \A row \in file.rows : RowIsSaved(row)
    /\ file.rows # {} => file.stage = "observations"
    /\ file.stage = "observations" =>
          \A id, other \in DOMAIN file.peers : file.peers[id] = file.peers[other] => id = other
    /\ complete => FileIsComplete

\* What a save has written and what it has still to write make up the memory, which
\* stands still.
SaveInv ==
    pc = "writing" =>
        /\ NamesDecide /\ ~complete /\ saved = routes
        /\ \A id \in DOMAIN file.peers : id \in DOMAIN by_id /\ file.peers[id] = by_id[id]
        /\ \A id \in DOMAIN pending_peers : id \in DOMAIN by_id /\ pending_peers[id] = by_id[id]
        /\ DOMAIN file.peers \cup DOMAIN pending_peers = UsedPeerIds
        /\ file.stage = "observations" => DOMAIN pending_peers = {}
        /\ file.rows \cup pending_rows = StoredObservations
        /\ file.rows \cap pending_rows = {}

\* A program that is past the parser has no line that it rejects in its file. What a
\* load has restored and what it has still to restore make up the file.
LoadInv ==
    /\ pc \notin {"down", "writing"} => ~file.rejected
    /\ pc = "inserting" =>
          /\ \A prefix \in Prefix, peer_id \in PeerIds :
                TableOfRecords[prefix][peer_id] = NoRoute
          /\ DOMAIN by_id \cup DOMAIN pending_peers = DOMAIN file.peers
          /\ \A id \in DOMAIN by_id : by_id[id] = file.peers[id]
          /\ \A id \in DOMAIN pending_peers : pending_peers[id] = file.peers[id]
          /\ pending_rows = file.rows
    /\ pc = "restoring" =>
          /\ DOMAIN by_id = DOMAIN file.peers
          /\ \A id \in DOMAIN by_id : by_id[id] = file.peers[id]
          /\ pending_rows \subseteq file.rows
          /\ StoredObservations = file.rows \ pending_rows

SnapshotInv == MemoryInv /\ FileInv /\ SaveInv /\ LoadInv

\* A file is made of its parts.
LEMMA FileParts ==
    ASSUME NEW stage, NEW peers, NEW rows, NEW rejected
    PROVE  LET new == FileOf(stage, peers, rows, rejected) IN
           /\ new.stage = stage /\ new.peers = peers /\ new.rows = rows /\ new.rejected = rejected
           /\ new = FileOf(new.stage, new.peers, new.rows, new.rejected)
BY DEF FileOf

-----------------------------------------------------------------------------
(* The next line.                                                          *)

\* The order of the lines has a first one wherever there is one at all.
LEMMA FirstRowExists ==
    ASSUME NEW rows \in SUBSET SavedRow, rows # {}, KeysAreUnique(rows)
    PROVE  FirstRow(rows) \in rows
<1> DEFINE ranks == {PrefixRank[row.prefix] : row \in rows}
<1>1. \A row \in rows : row.prefix \in Prefix /\ PrefixRank[row.prefix] \in Nat /\ row.peer_id \in Nat
  BY RankAssumption, SameIdsAssumption DEF SavedRow, UsableIds
<1>2. ranks \in SUBSET Nat /\ ranks # {}
  BY <1>1
<1>3. PICK rank \in ranks : \A other \in ranks : rank <= other
  BY <1>2, LeastElement
<1> DEFINE ids == {row.peer_id : row \in {x \in rows : PrefixRank[x.prefix] = rank}}
<1>4. ids \in SUBSET Nat /\ ids # {}
  BY <1>1, <1>3
<1>5. PICK id \in ids : \A other \in ids : id <= other
  BY <1>4, LeastElement
<1>6. PICK row \in rows : PrefixRank[row.prefix] = rank /\ row.peer_id = id
  BY <1>5
<1>7. ASSUME NEW other \in rows \ {row}
      PROVE  Precedes(row, other)
  <2>1. PrefixRank[other.prefix] \in ranks
    OBVIOUS
  <2>2. rank <= PrefixRank[other.prefix]
    BY <1>3, <2>1
  <2>3. CASE PrefixRank[other.prefix] = rank
    <3>1. row.prefix = other.prefix
      BY <1>1, <1>6, <2>3, RankAssumption
    <3>2. other.peer_id \in ids
      BY <2>3
    <3>3. id <= other.peer_id
      BY <1>5, <3>2
    <3>4. row.peer_id # other.peer_id
      BY <3>1 DEF KeysAreUnique
    <3>5. row.peer_id < other.peer_id
      BY <1>1, <1>6, <3>3, <3>4
    <3>6. QED
      BY <3>1, <3>5 DEF Precedes
  <2>4. CASE PrefixRank[other.prefix] # rank
    <3>1. PrefixRank[row.prefix] < PrefixRank[other.prefix]
      BY <1>1, <1>6, <2>2, <2>4
    <3>2. QED
      BY <3>1 DEF Precedes
  <2>5. QED
    BY <2>3, <2>4
<1>8. \E first \in rows : \A other \in rows \ {first} : Precedes(first, other)
  BY <1>7
<1>9. QED
  BY <1>8 DEF FirstRow

\* So have the peers, which come out of an ordered set.
LEMMA FirstPeerExists ==
    ASSUME DOMAIN pending_peers \subseteq PeerIds, DOMAIN pending_peers # {}
    PROVE  FirstPeer \in DOMAIN pending_peers
<1>1. DOMAIN pending_peers \in SUBSET Nat
  BY SameIdsAssumption DEF UsableIds
<1>2. \E id \in DOMAIN pending_peers : \A other \in DOMAIN pending_peers : id <= other
  BY <1>1, LeastElement
<1>3. QED
  BY <1>2 DEF FirstPeer

-----------------------------------------------------------------------------
(* What the parts of the invariant say together.                           *)

\* The routes in memory by peer, and the lines that save them.
LEMMA MemoryFacts ==
    ASSUME MemoryInv
    PROVE  /\ routes \in SavedTables
           /\ TableOfRecords \in Tables /\ StoredObservations = RowsOf(TableOfRecords)
           /\ StoredObservations \subseteq SavedRow /\ KeysAreUnique(StoredObservations)
           /\ UsedPeerIds \subseteq DOMAIN by_id
           /\ \A row \in StoredObservations :
                 /\ routes[row.prefix][by_id[row.peer_id]] = RouteOfRow(row)
                 /\ RouteOfRow(row) # NoRoute
           /\ \A prefix \in Prefix, peer \in Peers : routes[prefix][peer] # NoRoute =>
                 /\ peer \in DOMAIN by_info
                 /\ \E row \in StoredObservations :
                       row.prefix = prefix /\ row.peer_id = by_info[peer]
<1>1. /\ TableOfRecords \in Tables /\ StoredObservations = RowsOf(TableOfRecords)
      /\ routes = Identified(TableOfRecords, by_info) /\ RegistryInv /\ Linked
  BY TableIsTyped, StoredAreLines, RoutesAreIdentified DEF MemoryInv
<1>2. routes \in SavedTables
  <2>1. \A prefix \in Prefix, peer_id \in PeerIds :
           TableOfRecords[prefix][peer_id] \in Routes \cup {NoRoute}
    BY <1>1 DEF Tables, Rows
  <2>2. \A prefix \in Prefix, peer \in Peers :
           (IF peer \in DOMAIN by_info THEN TableOfRecords[prefix][by_info[peer]] ELSE NoRoute)
              \in Routes \cup {NoRoute}
    BY <1>1, <2>1, RegistryFacts
  <2>3. QED
    BY <1>1, <2>2 DEF SavedTables, Identified
<1>3. /\ \A row \in StoredObservations :
            /\ row \in SavedRow /\ TableOfRecords[row.prefix][row.peer_id] = RouteOfRow(row)
            /\ RouteOfRow(row) # NoRoute
      /\ KeysAreUnique(StoredObservations)
  BY <1>1, LinesAreRoutes DEF KeysAreUnique
<1>4. \A row \in StoredObservations : row.prefix \in Prefix /\ row.peer_id \in PeerIds
  BY <1>3 DEF SavedRow
<1>5. \A row \in StoredObservations : row.peer_id \in DOMAIN by_id
  BY <1>1, <1>3, <1>4 DEF Linked
<1>6. ASSUME NEW row \in StoredObservations
      PROVE  routes[row.prefix][by_id[row.peer_id]] = RouteOfRow(row)
  <2>1. /\ by_id[row.peer_id] \in Peers /\ by_id[row.peer_id] \in DOMAIN by_info
        /\ by_info[by_id[row.peer_id]] = row.peer_id
    BY <1>1, <1>5, RegistryFacts
  <2>2. QED
    BY <1>1, <1>3, <1>4, <2>1 DEF Identified
<1>7. ASSUME NEW prefix \in Prefix, NEW peer \in Peers, routes[prefix][peer] # NoRoute
      PROVE  /\ peer \in DOMAIN by_info
             /\ \E row \in StoredObservations :
                   row.prefix = prefix /\ row.peer_id = by_info[peer]
  <2>1. peer \in DOMAIN by_info /\ TableOfRecords[prefix][by_info[peer]] # NoRoute
    BY <1>1, <1>7 DEF Identified
  <2>2. by_info[peer] \in PeerIds
    BY <1>1, <2>1, RegistryFacts
  <2>3. QED
    BY <1>1, <2>1, <2>2, LinesAreRoutes
<1>8. UsedPeerIds \subseteq DOMAIN by_id
  BY <1>5 DEF UsedPeerIds
<1>9. QED
  BY <1>1, <1>2, <1>3, <1>6, <1>7, <1>8

\* A table without routes has no lines.
LEMMA NothingStored ==
    ASSUME IInv, \A prefix \in Prefix, peer_id \in PeerIds :
                    TableOfRecords[prefix][peer_id] = NoRoute
    PROVE  StoredObservations = {}
<1>1. \A row \in StoredObservations :
         row \in SavedRow /\ TableOfRecords[row.prefix][row.peer_id] # NoRoute
  BY StoredAreLines, TableIsTyped, LinesAreRoutes
<1>2. QED
  BY <1>1 DEF SavedRow

\* A step that leaves the file alone.
LEMMA FileKept ==
    ASSUME FileInv, UNCHANGED disk
    PROVE  FileInv'
BY DEF FileInv, RowIsSaved, FileIsComplete, NamesDecide, KeysAreUnique, disk

\* The end of the process clears the table and leaves nothing half done.
LEMMA ExitStep ==
    ASSUME Exit, routes' = RoutesByPeer'
    PROVE  MemoryInv' /\ SaveInv' /\ LoadInv' /\ [TableByPeer!Next]_(TableByPeer!vars)
<1>1. Clear /\ ClearRegistry /\ pc' = "down"
  BY DEF Exit
<1>2. MemoryInv' /\ routes' = TableByPeer!EmptyTable
  BY <1>1, MemoryCleared
<1>3. TableByPeer!Clear
  BY <1>2, MemoryExportPrimed DEF TableByPeer!Clear
<1>4. SaveInv' /\ LoadInv'
  BY <1>1 DEF SaveInv, LoadInv
<1>5. QED
  BY <1>2, <1>3, <1>4 DEF TableByPeer!Next

-----------------------------------------------------------------------------
(* Loading.  Each step keeps the invariant and is a step of the table by   *)
(* peer, or none.                                                          *)

\* A start without a snapshot.
LEMMA StartEmptyStep ==
    ASSUME SnapshotInv, StartEmpty, routes' = RoutesByPeer'
    PROVE  SnapshotInv' /\ UNCHANGED TableByPeer!vars
<1>1. UNCHANGED <<memory, disk, pending>> /\ pc' = "running" /\ ~file.rejected
  BY DEF StartEmpty
<1>2. MemoryInv' /\ routes' = routes /\ aggregated' = aggregated
  BY <1>1, MemoryKept DEF SnapshotInv
<1>3. FileInv'
  BY <1>1, FileKept DEF SnapshotInv
<1>4. SaveInv' /\ LoadInv'
  BY <1>1 DEF SaveInv, LoadInv, disk
<1>5. QED
  BY <1>2, <1>3, <1>4 DEF SnapshotInv, TableByPeer!vars

\* A load starts by clearing, and has all of the file before it.
LEMMA StartLoadStep ==
    ASSUME SnapshotInv, StartLoad, routes' = RoutesByPeer'
    PROVE  SnapshotInv' /\ TableByPeer!Clear
<1>1. /\ Clear /\ ClearRegistry /\ pc' = "inserting"
      /\ pending_peers' = file.peers /\ pending_rows' = file.rows /\ UNCHANGED disk
      /\ ~file.rejected
  BY DEF StartLoad
<1>2. /\ MemoryInv' /\ routes' = TableByPeer!EmptyTable /\ DOMAIN by_id' = {}
      /\ \A prefix \in Prefix, peer_id \in PeerIds : TableOfRecords'[prefix][peer_id] = NoRoute
  BY <1>1, MemoryCleared
<1>3. TableByPeer!Clear
  BY <1>2, MemoryExportPrimed DEF TableByPeer!Clear
<1>4. FileInv'
  BY <1>1, FileKept DEF SnapshotInv
<1>5. SaveInv' /\ LoadInv'
  BY <1>1, <1>2 DEF SaveInv, LoadInv, disk
<1>6. QED
  BY <1>2, <1>3, <1>4, <1>5 DEF SnapshotInv

\* Nothing changes, nothing breaks.
LEMMA StutterStep ==
    ASSUME SnapshotInv, UNCHANGED snapshotVars
    PROVE  SnapshotInv' /\ UNCHANGED TableByPeer!vars
<1>1. UNCHANGED <<memory, disk, pending, pc, routes>>
  BY DEF snapshotVars
<1>2. UNCHANGED <<by_prefix, aggregated, by_info, by_id, next_peer_id, file, saved, complete,
                  pending_peers, pending_rows, pc, routes>>
  BY <1>1 DEF memory, disk, pending
<1>3. RoutesByPeer' = RoutesByPeer
  BY <1>2 DEF RoutesByPeer, RouteOf, Known, RecordAt
<1>4. MemoryInv'
  BY <1>1, <1>2, <1>3, MemoryKept DEF SnapshotInv, MemoryInv
<1>5. FileInv'
  BY <1>1, FileKept DEF SnapshotInv
<1>6. StoredObservations' = StoredObservations /\ TableOfRecords' = TableOfRecords
  BY <1>2 DEF StoredObservations, TableOfRecords, RecordAt
<1>7. UsedPeerIds' = UsedPeerIds
  BY <1>6 DEF UsedPeerIds
<1>8. SaveInv' /\ LoadInv'
  BY <1>2, <1>6, <1>7 DEF SnapshotInv, SaveInv, NamesDecide, LoadInv
<1>9. QED
  BY <1>2, <1>4, <1>5, <1>8 DEF SnapshotInv, TableByPeer!vars

\* As long as there are no routes, a peer more changes none.
LEMMA InsertPeerStep ==
    ASSUME SnapshotInv, NEW peer_id \in 1 .. LastFreeId, InsertPeer(peer_id),
           routes' = RoutesByPeer'
    PROVE  SnapshotInv' /\ UNCHANGED TableByPeer!vars
<1> DEFINE peer == pending_peers[peer_id]
<1>1. /\ pc = "inserting" /\ pc' = "inserting" /\ peer_id \in DOMAIN pending_peers
      /\ InsertWithId(peer_id, peer)
      /\ pending_peers' = Erase(pending_peers, peer_id)
      /\ UNCHANGED <<by_prefix, aggregated, disk, pending_rows>>
  BY DEF InsertPeer
<1>2. /\ \A prefix \in Prefix, id \in PeerIds : TableOfRecords[prefix][id] = NoRoute
      /\ DOMAIN by_id \cup DOMAIN pending_peers = DOMAIN file.peers
      /\ \A id \in DOMAIN by_id : by_id[id] = file.peers[id]
      /\ \A id \in DOMAIN pending_peers : pending_peers[id] = file.peers[id]
      /\ pending_rows = file.rows /\ ~file.rejected
  BY <1>1 DEF SnapshotInv, LoadInv
<1>3. peer \in Peers
  BY <1>1, <1>2 DEF SnapshotInv, FileInv
<1>4. RegistryInv'
  BY <1>1, <1>3, InsertWithIdKeeps DEF SnapshotInv, MemoryInv, UsableIds
<1>5. IInv' /\ TableOfRecords' = TableOfRecords
  BY <1>1, UnchangedKeepsInvariant DEF SnapshotInv, MemoryInv, vars, TableOfRecords, RecordAt
<1>6. Linked'
  BY <1>2, <1>5 DEF Linked
<1>7. routes' = routes
  <2>1. /\ routes = Identified(TableOfRecords, by_info)
        /\ routes' = Identified(TableOfRecords, by_info')
    BY <1>4, <1>5, RoutesAreIdentified, RoutesAreIdentifiedPrimed DEF SnapshotInv, MemoryInv
  <2>2. \A x \in DOMAIN by_info : by_info[x] \in PeerIds
    BY RegistryFacts DEF SnapshotInv, MemoryInv
  <2>3. \A x \in DOMAIN by_info' : by_info'[x] \in PeerIds
    BY <1>4, SameIdsAssumption DEF RegistryInv, RegistryTypeOK
  <2>4. QED
    BY <1>2, <2>1, <2>2, <2>3 DEF Identified
<1>8. MemoryInv'
  BY <1>4, <1>5, <1>6 DEF MemoryInv
<1>9. FileInv'
  BY <1>1, FileKept DEF SnapshotInv
<1>10. by_id' = Put(by_id, peer_id, peer)
  BY <1>1 DEF InsertWithId
<1>11. LoadInv'
  <2>1. file' = file
    BY <1>1 DEF disk
  <2>2. DOMAIN by_id' \cup DOMAIN pending_peers' = DOMAIN file.peers
    BY <1>1, <1>2, <1>10 DEF Put, Erase
  <2>3. \A id \in DOMAIN by_id' : by_id'[id] = file.peers[id]
    BY <1>1, <1>2, <1>10 DEF Put
  <2>4. \A id \in DOMAIN pending_peers' : pending_peers'[id] = file.peers[id]
    BY <1>1, <1>2 DEF Erase
  <2>5. QED
    BY <1>1, <1>2, <1>5, <2>1, <2>2, <2>3, <2>4 DEF LoadInv
<1>12. SaveInv'
  BY <1>1 DEF SaveInv
<1>13. QED
  BY <1>1, <1>7, <1>8, <1>9, <1>11, <1>12 DEF SnapshotInv, TableByPeer!vars

\* When all peers are inserted, the registry is that of the file.
LEMMA InsertsDoneStep ==
    ASSUME SnapshotInv, InsertsDone, routes' = RoutesByPeer'
    PROVE  SnapshotInv' /\ UNCHANGED TableByPeer!vars
<1>1. /\ pc = "inserting" /\ pc' = "restoring" /\ DOMAIN pending_peers = {}
      /\ UNCHANGED <<memory, disk, pending>>
  BY DEF InsertsDone
<1>2. /\ MemoryInv' /\ routes' = routes /\ aggregated' = aggregated
      /\ by_id' = by_id /\ TableOfRecords' = TableOfRecords
  BY <1>1, MemoryKept DEF SnapshotInv
<1>3. FileInv'
  BY <1>1, FileKept DEF SnapshotInv
<1>4. /\ \A prefix \in Prefix, id \in PeerIds : TableOfRecords[prefix][id] = NoRoute
      /\ DOMAIN by_id = DOMAIN file.peers
      /\ \A id \in DOMAIN by_id : by_id[id] = file.peers[id]
      /\ pending_rows = file.rows /\ ~file.rejected
  BY <1>1 DEF SnapshotInv, LoadInv
<1>5. StoredObservations = {}
  BY <1>4, NothingStored DEF SnapshotInv, MemoryInv
<1>6. StoredObservations' = StoredObservations
  BY <1>1 DEF StoredObservations, memory
<1>7. LoadInv'
  BY <1>1, <1>2, <1>4, <1>5, <1>6 DEF LoadInv, disk, pending
<1>8. SaveInv'
  BY <1>1 DEF SaveInv
<1>9. QED
  BY <1>2, <1>3, <1>7, <1>8 DEF SnapshotInv, TableByPeer!vars

\* What is saved next are the lines of the next table.
LEMMA StoredAreLinesPrimed == IInv' => StoredObservations' = RowsOf(TableOfRecords')
<1>1. IInv => StoredObservations = RowsOf(TableOfRecords)
  BY StoredAreLines
<1>2. (IInv => StoredObservations = RowsOf(TableOfRecords))'
  BY <1>1, PTL
<1>3. QED
  BY <1>2

\* A line brings back the route it was written for, under the id of its peer.
LEMMA RestoreRowStep ==
    ASSUME SnapshotInv, RestoreRow, routes' = RoutesByPeer'
    PROVE  SnapshotInv' /\ TableByPeer!Next
<1> DEFINE row == FirstRow(pending_rows)
           peer == by_id[row.peer_id]
<1>1. /\ pc = "restoring" /\ pc' = "restoring" /\ pending_rows # {}
      /\ row.peer_id \in DOMAIN by_id
      /\ Announce(row.peer_id, row.prefix, row.origin_asn, row.timestamp)
      /\ pending_rows' = pending_rows \ {row}
      /\ UNCHANGED <<by_info, by_id, next_peer_id, disk, pending_peers>>
  BY DEF RestoreRow, ContainsId
<1>2. /\ DOMAIN by_id = DOMAIN file.peers
      /\ \A id \in DOMAIN by_id : by_id[id] = file.peers[id]
      /\ pending_rows \subseteq file.rows
      /\ StoredObservations = file.rows \ pending_rows /\ ~file.rejected
  BY <1>1 DEF SnapshotInv, LoadInv
<1>3. file.rows \subseteq SavedRow /\ KeysAreUnique(file.rows)
  BY DEF SnapshotInv, FileInv
<1>4. row \in pending_rows /\ row \in file.rows /\ row \in SavedRow
  <2>1. pending_rows \in SUBSET SavedRow /\ KeysAreUnique(pending_rows)
    BY <1>2, <1>3 DEF KeysAreUnique
  <2>2. QED
    BY <1>1, <1>2, <1>3, <2>1, FirstRowExists
<1> HIDE DEF row
<1>5. /\ row.prefix \in Prefix /\ row.peer_id \in PeerIds
      /\ row.origin_asn \in Asns /\ row.timestamp \in Timestamps
      /\ row = LineOf(row.prefix, row.peer_id, row.origin_asn, row.timestamp)
  BY <1>4 DEF SavedRow, LineOf
<1>6. IInv' /\ SetsRoute(row.prefix, row.peer_id, RouteOfRow(row))
  BY <1>1, <1>5, AnnounceStep DEF SnapshotInv, MemoryInv, RouteOfRow
<1>7. RegistryInv'
  BY <1>1, StutterKeeps DEF SnapshotInv, MemoryInv, registryVars
<1>8. peer \in Peers /\ Registers(peer, row.peer_id)
  BY <1>1, RegistryFacts DEF SnapshotInv, MemoryInv, Registers
<1>9. MemoryInv' /\ routes' = [routes EXCEPT ![row.prefix][peer] = RouteOfRow(row)]
  BY <1>5, <1>6, <1>7, <1>8, MemorySet DEF SnapshotInv
<1>10. TableByPeer!Announce(row.prefix, peer, row.origin_asn, row.timestamp)
  BY <1>9, MemoryExportPrimed DEF TableByPeer!Announce, RouteOfRow, Route
<1>11. TableOfRecords[row.prefix][row.peer_id] = NoRoute
  <2>1. CASE TableOfRecords[row.prefix][row.peer_id] # NoRoute
    <3>1. PICK other \in StoredObservations :
             other.prefix = row.prefix /\ other.peer_id = row.peer_id
      BY <1>5, <2>1, MemoryFacts, LinesAreRoutes DEF SnapshotInv
    <3>2. other \in file.rows /\ other # row
      BY <1>2, <1>4, <3>1
    <3>3. QED
      BY <1>3, <1>4, <3>1, <3>2 DEF KeysAreUnique
  <2>2. QED
    BY <2>1
<1>12. StoredObservations' = StoredObservations \cup {row}
  <2>1. TableOfRecords \in Tables /\ StoredObservations = RowsOf(TableOfRecords)
    BY MemoryFacts DEF SnapshotInv
  <2>2. RowsOf(TableOfRecords') = RowsOf(TableOfRecords) \cup
           {LineOf(row.prefix, row.peer_id, row.origin_asn, row.timestamp)}
    <3>1. TableOfRecords' = [TableOfRecords EXCEPT ![row.prefix][row.peer_id] =
                                Route(row.origin_asn, row.timestamp)]
      BY <1>6 DEF SetsRoute, RouteOfRow
    <3>2. /\ TableOfRecords'[row.prefix][row.peer_id] = Route(row.origin_asn, row.timestamp)
          /\ \A p \in Prefix, i \in PeerIds : p # row.prefix \/ i # row.peer_id =>
                TableOfRecords'[p][i] = TableOfRecords[p][i]
      BY <1>5, <2>1, <3>1 DEF Tables, Rows
    <3>3. QED
      BY <1>5, <1>11, <2>1, <3>2, SetAddsLine
  <2>3. QED
    BY <1>5, <1>6, <2>1, <2>2, StoredAreLinesPrimed
<1>13. LoadInv'
  <2>1. file' = file /\ by_id' = by_id
    BY <1>1 DEF disk
  <2>2. pending_rows' \subseteq file.rows /\ StoredObservations' = file.rows \ pending_rows'
    BY <1>1, <1>2, <1>4, <1>12
  <2>3. QED
    BY <1>1, <1>2, <2>1, <2>2 DEF LoadInv
<1>14. FileInv' /\ SaveInv'
  BY <1>1, FileKept DEF SnapshotInv, SaveInv
<1>15. QED
  BY <1>5, <1>8, <1>9, <1>10, <1>13, <1>14 DEF SnapshotInv, TableByPeer!Next

\* The rebuild at the end finds nothing to do.
LEMMA RebuildEndsLoad ==
    ASSUME SnapshotInv, Rebuild, routes' = RoutesByPeer'
    PROVE  SnapshotInv' /\ UNCHANGED TableByPeer!vars
<1>1. /\ RebuildAggregated /\ pc' = "running" /\ ~file.rejected
      /\ UNCHANGED <<by_info, by_id, next_peer_id, disk, pending>>
  BY DEF Rebuild, SnapshotInv, LoadInv
<1>2. UNCHANGED memory
  BY <1>1, RebuildStep DEF SnapshotInv, MemoryInv, vars, memory
<1>3. MemoryInv' /\ routes' = routes /\ aggregated' = aggregated
  BY <1>2, MemoryKept DEF SnapshotInv
<1>4. FileInv' /\ SaveInv' /\ LoadInv'
  BY <1>1, FileKept DEF SnapshotInv, SaveInv, LoadInv, disk
<1>5. QED
  BY <1>3, <1>4 DEF SnapshotInv, TableByPeer!vars

\* A load that fails leaves the file as it is.
LEMMA InsertFailsStep ==
    ASSUME SnapshotInv, NEW peer_id, InsertFails(peer_id), routes' = RoutesByPeer'
    PROVE  SnapshotInv' /\ [TableByPeer!Next]_(TableByPeer!vars)
BY ExitStep, FileKept DEF SnapshotInv, InsertFails

\* All of load_snapshot.
LEMMA LoadStep ==
    ASSUME SnapshotInv, Load, routes' = RoutesByPeer'
    PROVE  SnapshotInv' /\ [TableByPeer!Next]_(TableByPeer!vars)
<1>1. CASE StartEmpty
  BY <1>1, StartEmptyStep
<1>2. CASE StartLoad
  BY <1>2, StartLoadStep DEF TableByPeer!Next
<1>3. CASE StartFails
  BY <1>3, StutterStep DEF StartFails
<1>4. ASSUME NEW peer_id \in 1 .. LastFreeId, InsertPeer(peer_id) \/ InsertFails(peer_id)
      PROVE  SnapshotInv' /\ [TableByPeer!Next]_(TableByPeer!vars)
  BY <1>4, InsertPeerStep, InsertFailsStep
<1>5. CASE InsertsDone
  BY <1>5, InsertsDoneStep
<1>6. CASE RestoreRow
  BY <1>6, RestoreRowStep
<1>7. CASE Rebuild
  BY <1>7, RebuildEndsLoad
<1>8. QED
  BY <1>1, <1>2, <1>3, <1>4, <1>5, <1>6, <1>7 DEF Load

-----------------------------------------------------------------------------
(* Updating.                                                               *)

\* While the process runs, neither the file nor the pending lines matter.
LEMMA RunningKeepsDisk ==
    ASSUME SnapshotInv, UNCHANGED disk, pc = "running", pc' = "running"
    PROVE  FileInv' /\ SaveInv' /\ LoadInv'
BY FileKept DEF SnapshotInv, SaveInv, LoadInv, disk

\* An announcement is one of the peer itself, whatever its id.
LEMMA AnnounceFromStep ==
    ASSUME SnapshotInv, NEW peer \in Peers, NEW prefix \in Prefix,
           NEW asn \in Asns, NEW timestamp \in Timestamps,
           AnnounceFrom(peer, prefix, asn, timestamp), routes' = RoutesByPeer'
    PROVE  SnapshotInv' /\ TableByPeer!Announce(prefix, peer, asn, timestamp)
<1>1. /\ GetOrAdd(peer) /\ Announce(IdOf(peer), prefix, asn, timestamp)
      /\ UNCHANGED disk /\ pc = "running" /\ pc' = "running"
  BY DEF AnnounceFrom
<1>2. RegistryInv' /\ IdOf(peer) \in PeerIds /\ Registers(peer, IdOf(peer))
  BY <1>1, GetOrAddRegisters DEF SnapshotInv, MemoryInv
<1>3. IInv' /\ SetsRoute(prefix, IdOf(peer), Route(asn, timestamp))
  BY <1>1, <1>2, AnnounceStep DEF SnapshotInv, MemoryInv
<1>4. MemoryInv' /\ routes' = [routes EXCEPT ![prefix][peer] = Route(asn, timestamp)]
  BY <1>2, <1>3, MemorySet DEF SnapshotInv
<1>5. TableByPeer!Announce(prefix, peer, asn, timestamp)
  BY <1>4, MemoryExportPrimed DEF TableByPeer!Announce, Route
<1>6. QED
  BY <1>1, <1>4, <1>5, RunningKeepsDisk DEF SnapshotInv

\* So is a withdrawal, also by a peer that the registry meets for the first time.
LEMMA WithdrawFromStep ==
    ASSUME SnapshotInv, NEW peer \in Peers, NEW prefix \in Prefix,
           WithdrawFrom(peer, prefix), routes' = RoutesByPeer'
    PROVE  SnapshotInv' /\ TableByPeer!Withdraw(prefix, peer)
<1>1. /\ GetOrAdd(peer) /\ Withdraw(IdOf(peer), prefix)
      /\ UNCHANGED disk /\ pc = "running" /\ pc' = "running"
  BY DEF WithdrawFrom
<1>2. RegistryInv' /\ IdOf(peer) \in PeerIds /\ Registers(peer, IdOf(peer))
  BY <1>1, GetOrAddRegisters DEF SnapshotInv, MemoryInv
<1>3. IInv' /\ SetsRoute(prefix, IdOf(peer), NoRoute)
  BY <1>1, <1>2, WithdrawStep DEF SnapshotInv, MemoryInv
<1>4. MemoryInv' /\ routes' = [routes EXCEPT ![prefix][peer] = NoRoute]
  BY <1>2, <1>3, MemorySet DEF SnapshotInv
<1>5. TableByPeer!Withdraw(prefix, peer)
  BY <1>4, MemoryExportPrimed DEF TableByPeer!Withdraw
<1>6. QED
  BY <1>1, <1>4, <1>5, RunningKeepsDisk DEF SnapshotInv

-----------------------------------------------------------------------------
(* Saving.                                                                 *)

\* A save changes nothing of what it saves.
LEMMA SaveKeepsMemory ==
    ASSUME SnapshotInv, UNCHANGED memory, routes' = RoutesByPeer'
    PROVE  /\ MemoryInv' /\ UNCHANGED TableByPeer!vars
           /\ routes' = routes /\ by_id' = by_id
           /\ StoredObservations' = StoredObservations /\ UsedPeerIds' = UsedPeerIds
<1>1. MemoryInv' /\ routes' = routes /\ aggregated' = aggregated /\ by_id' = by_id
  BY MemoryKept DEF SnapshotInv
<1>2. StoredObservations' = StoredObservations
  BY DEF StoredObservations, memory
<1>3. UsedPeerIds' = UsedPeerIds
  BY <1>2 DEF UsedPeerIds
<1>4. QED
  BY <1>1, <1>2, <1>3 DEF TableByPeer!vars

\* The old file is truncated when all that is to be written has been collected.
LEMMA SaveBeginsStep ==
    ASSUME SnapshotInv, SaveBegins, routes' = RoutesByPeer'
    PROVE  SnapshotInv' /\ UNCHANGED TableByPeer!vars
<1>1. /\ pc' = "writing"
      /\ pending_peers' = [peer_id \in UsedPeerIds |-> by_id[peer_id]]
      /\ pending_rows' = StoredObservations
      /\ file' = FileOf("empty", EmptyMap, {}, FALSE)
      /\ saved' = RoutesByPeer /\ complete' = FALSE
      /\ UNCHANGED memory
  BY DEF SaveBegins
<1>2. /\ MemoryInv' /\ UNCHANGED TableByPeer!vars
      /\ routes' = routes /\ by_id' = by_id
      /\ StoredObservations' = StoredObservations /\ UsedPeerIds' = UsedPeerIds
  BY <1>1, SaveKeepsMemory
<1>3. /\ file'.stage = "empty" /\ DOMAIN file'.peers = {} /\ file'.rows = {} /\ ~file'.rejected
      /\ file' = FileOf(file'.stage, file'.peers, file'.rows, file'.rejected)
  BY <1>1 DEF FileOf, EmptyMap
<1>4. saved' = routes /\ routes \in SavedTables /\ UsedPeerIds \subseteq DOMAIN by_id
  BY <1>1, MemoryFacts DEF SnapshotInv, MemoryInv
<1>5. FileInv'
  BY <1>1, <1>3, <1>4 DEF FileInv, KeysAreUnique
<1>6. SaveInv'
  BY <1>1, <1>2, <1>3, <1>4 DEF SaveInv, NamesDecide
<1>7. LoadInv'
  BY <1>1 DEF LoadInv
<1>8. QED
  BY <1>2, <1>5, <1>6, <1>7 DEF SnapshotInv

\* No line of observations has been written before the header of their section.
LEMMA NoRowsYet ==
    ASSUME SnapshotInv, file.stage # "observations"
    PROVE  file.rows = {}
BY DEF SnapshotInv, FileInv

\* The header of the peers.
LEMMA WriteHeaderStep ==
    ASSUME SnapshotInv, WriteHeader, routes' = RoutesByPeer'
    PROVE  SnapshotInv' /\ UNCHANGED TableByPeer!vars
<1>1. /\ pc = "writing" /\ pc' = "writing" /\ file.stage = "empty"
      /\ file' = [file EXCEPT !.stage = "peers"]
      /\ UNCHANGED <<memory, saved, complete, pending>>
  BY DEF WriteHeader
<1>2. /\ MemoryInv' /\ UNCHANGED TableByPeer!vars
      /\ routes' = routes /\ by_id' = by_id
      /\ StoredObservations' = StoredObservations /\ UsedPeerIds' = UsedPeerIds
  BY <1>1, SaveKeepsMemory
<1>3. file = FileOf(file.stage, file.peers, file.rows, file.rejected)
  BY DEF SnapshotInv, FileInv
<1>4. file' = FileOf("peers", file.peers, file.rows, file.rejected)
  BY <1>1, <1>3 DEF FileOf
<1>5. /\ file'.stage = "peers" /\ file'.peers = file.peers /\ file'.rows = file.rows
      /\ file'.rejected = file.rejected
      /\ file' = FileOf(file'.stage, file'.peers, file'.rows, file'.rejected)
  BY <1>4 DEF FileOf
<1>6. file.rows = {} /\ ~complete
  BY <1>1, NoRowsYet DEF SnapshotInv, SaveInv
<1>7. FileInv'
  BY <1>1, <1>5, <1>6 DEF SnapshotInv, FileInv, KeysAreUnique
<1>8. SaveInv'
  BY <1>1, <1>2, <1>5 DEF SnapshotInv, SaveInv, NamesDecide, pending
<1>9. LoadInv'
  BY <1>1 DEF LoadInv
<1>10. QED
  BY <1>2, <1>7, <1>8, <1>9 DEF SnapshotInv

\* A line for the first peer, with its identity or, cut short, with another one.
LEMMA PeerLine ==
    ASSUME SnapshotInv, file.stage = "peers", ~complete, NEW id \in PeerIds, NEW peer \in Peers,
           NEW rejected, file' = FileOf("peers", Put(file.peers, id, peer), {}, rejected),
           UNCHANGED <<saved, complete>>
    PROVE  FileInv'
<1> DEFINE peers == Put(file.peers, id, peer)
<1>1. /\ file'.stage = "peers" /\ file'.peers = peers /\ file'.rows = {}
      /\ file' = FileOf(file'.stage, file'.peers, file'.rows, file'.rejected)
  BY FileParts
<1>2. /\ DOMAIN peers \subseteq PeerIds
      /\ \A other \in DOMAIN peers : peers[other] \in Peers
  BY DEF Put, SnapshotInv, FileInv
<1> HIDE DEF peers
<1>3. QED
  BY <1>1, <1>2 DEF SnapshotInv, FileInv, KeysAreUnique

\* The first of the peers still to be written.
LEMMA NextPeer ==
    ASSUME SnapshotInv, pc = "writing", file.stage = "peers", DOMAIN pending_peers # {}
    PROVE  /\ FirstPeer \in DOMAIN pending_peers /\ FirstPeer \in PeerIds
           /\ pending_peers[FirstPeer] = by_id[FirstPeer] /\ by_id[FirstPeer] \in Peers
           /\ ~complete
           /\ \A peers : [file EXCEPT !.peers = peers] = FileOf("peers", peers, {}, file.rejected)
           /\ \A peers, rejected : [file EXCEPT !.peers = peers, !.rejected = rejected] =
                                      FileOf("peers", peers, {}, rejected)
<1>1. /\ ~complete /\ DOMAIN pending_peers \subseteq UsedPeerIds
      /\ \A id \in DOMAIN pending_peers : id \in DOMAIN by_id /\ pending_peers[id] = by_id[id]
  BY DEF SnapshotInv, SaveInv
<1>2. UsedPeerIds \subseteq PeerIds
  BY MemoryFacts DEF SnapshotInv, UsedPeerIds, SavedRow
<1>3. FirstPeer \in DOMAIN pending_peers /\ FirstPeer \in PeerIds
  BY <1>1, <1>2, FirstPeerExists
<1>4. by_id[FirstPeer] \in Peers
  BY <1>1, <1>3, RegistryFacts DEF SnapshotInv, MemoryInv
<1>5. file = FileOf("peers", file.peers, {}, file.rejected)
  BY NoRowsYet DEF SnapshotInv, FileInv
<1>6. ASSUME NEW peers
      PROVE  [file EXCEPT !.peers = peers] = FileOf("peers", peers, {}, file.rejected)
  BY <1>5 DEF FileOf
<1>7. ASSUME NEW peers, NEW rejected
      PROVE  [file EXCEPT !.peers = peers, !.rejected = rejected] =
                FileOf("peers", peers, {}, rejected)
  <2>1. [file EXCEPT !.peers = peers] = FileOf("peers", peers, {}, file.rejected)
    BY <1>6
  <2>2. [file EXCEPT !.peers = peers, !.rejected = rejected] =
           [[file EXCEPT !.peers = peers] EXCEPT !.rejected = rejected]
    OBVIOUS
  <2>3. [FileOf("peers", peers, {}, file.rejected) EXCEPT !.rejected = rejected] =
           FileOf("peers", peers, {}, rejected)
    BY DEF FileOf
  <2>4. QED
    BY <2>1, <2>2, <2>3
<1>8. QED
  BY <1>1, <1>3, <1>4, <1>6, <1>7

\* The peers are written one by one.
LEMMA WritePeerStep ==
    ASSUME SnapshotInv, WritePeer, routes' = RoutesByPeer'
    PROVE  SnapshotInv' /\ UNCHANGED TableByPeer!vars
<1> DEFINE first == FirstPeer
           peer == pending_peers[first]
<1>1. /\ pc = "writing" /\ pc' = "writing" /\ file.stage = "peers"
      /\ DOMAIN pending_peers # {}
      /\ file' = [file EXCEPT !.peers = Put(@, FirstPeer, pending_peers[FirstPeer]),
                             !.rejected = @ \/ pending_peers[FirstPeer] \in Splitting]
      /\ pending_peers' = Erase(pending_peers, first)
      /\ UNCHANGED <<memory, saved, complete, pending_rows>>
  BY DEF WritePeer
<1>2. /\ MemoryInv' /\ UNCHANGED TableByPeer!vars
      /\ routes' = routes /\ by_id' = by_id
      /\ StoredObservations' = StoredObservations /\ UsedPeerIds' = UsedPeerIds
  BY <1>1, SaveKeepsMemory
<1>3. /\ NamesDecide /\ ~complete /\ saved = routes
      /\ \A id \in DOMAIN file.peers : id \in DOMAIN by_id /\ file.peers[id] = by_id[id]
      /\ \A id \in DOMAIN pending_peers : id \in DOMAIN by_id /\ pending_peers[id] = by_id[id]
      /\ DOMAIN file.peers \cup DOMAIN pending_peers = UsedPeerIds
      /\ file.rows \cup pending_rows = StoredObservations
      /\ file.rows \cap pending_rows = {}
  BY <1>1 DEF SnapshotInv, SaveInv
<1>4. file.rows = {}
  BY <1>1, NoRowsYet
<1>5. /\ first \in DOMAIN pending_peers /\ first \in PeerIds
      /\ peer \in Peers /\ peer = by_id[first]
      /\ file' = FileOf("peers", Put(file.peers, first, peer), {},
                        file.rejected \/ peer \in Splitting)
  BY <1>1, NextPeer
<1> HIDE DEF first, peer
<1>6. first \in DOMAIN by_id
  BY <1>3, <1>5
<1>7. FileInv'
  BY <1>1, <1>3, <1>5, PeerLine
<1>8. /\ file'.stage = "peers" /\ file'.peers = Put(file.peers, first, peer)
      /\ file'.rows = file.rows /\ file'.rejected = (file.rejected \/ peer \in Splitting)
  BY <1>4, <1>5, FileParts
<1>9. /\ DOMAIN file'.peers \cup DOMAIN pending_peers' = UsedPeerIds
      /\ \A id \in DOMAIN file'.peers : id \in DOMAIN by_id /\ file'.peers[id] = by_id[id]
  BY <1>1, <1>3, <1>5, <1>6, <1>8 DEF Put, Erase
<1>10. \A id \in DOMAIN pending_peers' : id \in DOMAIN by_id /\ pending_peers'[id] = by_id[id]
  BY <1>1, <1>3 DEF Erase
<1>11. SaveInv'
  <2>1. first \notin DOMAIN file.peers \/ file.peers[first] = peer
    BY <1>3, <1>5
  <2>2. NamesDecide'
    <3>1. file'.rejected <=> file.rejected \/ peer \in Splitting
      BY <1>8
    <3>2. /\ DOMAIN file'.peers = DOMAIN file.peers \cup {first}
          /\ \A id \in DOMAIN file.peers : file'.peers[id] = file.peers[id]
          /\ file'.peers[first] = peer
      BY <1>8, <2>1 DEF Put
    <3>3. file.rejected <=> \E id \in DOMAIN file.peers : file.peers[id] \in Splitting
      BY <1>3 DEF NamesDecide
    <3>4. (\E id \in DOMAIN file'.peers : file'.peers[id] \in Splitting) <=>
             (\E id \in DOMAIN file.peers : file.peers[id] \in Splitting) \/ peer \in Splitting
      BY <3>2
    <3>5. QED
      BY <3>1, <3>3, <3>4 DEF NamesDecide
  <2>3. QED
    BY <1>1, <1>2, <1>3, <1>8, <1>9, <1>10, <2>2 DEF SaveInv
<1>12. LoadInv'
  BY <1>1 DEF LoadInv
<1>13. QED
  BY <1>2, <1>7, <1>11, <1>12 DEF SnapshotInv

\* All peers are there when the header of the observations follows.
LEMMA WriteSectionStep ==
    ASSUME SnapshotInv, WriteSection, routes' = RoutesByPeer'
    PROVE  SnapshotInv' /\ UNCHANGED TableByPeer!vars
<1>1. /\ pc = "writing" /\ pc' = "writing" /\ file.stage = "peers"
      /\ DOMAIN pending_peers = {}
      /\ file' = [file EXCEPT !.stage = "observations"]
      /\ UNCHANGED <<memory, saved, complete, pending>>
  BY DEF WriteSection
<1>2. /\ MemoryInv' /\ UNCHANGED TableByPeer!vars
      /\ routes' = routes /\ by_id' = by_id
      /\ StoredObservations' = StoredObservations /\ UsedPeerIds' = UsedPeerIds
  BY <1>1, SaveKeepsMemory
<1>3. file = FileOf(file.stage, file.peers, file.rows, file.rejected)
  BY DEF SnapshotInv, FileInv
<1>4. file' = FileOf("observations", file.peers, file.rows, file.rejected)
  BY <1>1, <1>3 DEF FileOf
<1>5. /\ file'.stage = "observations" /\ file'.peers = file.peers /\ file'.rows = file.rows
      /\ file'.rejected = file.rejected
      /\ file' = FileOf(file'.stage, file'.peers, file'.rows, file'.rejected)
  BY <1>4 DEF FileOf
<1>6. /\ ~complete /\ DOMAIN file.peers = UsedPeerIds
      /\ \A id \in DOMAIN file.peers : id \in DOMAIN by_id /\ file.peers[id] = by_id[id]
  BY <1>1 DEF SnapshotInv, SaveInv
<1>7. file.rows = {}
  BY <1>1, NoRowsYet
<1>8. \A id, other \in DOMAIN file.peers : file.peers[id] = file.peers[other] => id = other
  <2>1. \A id \in DOMAIN file.peers : by_info[file.peers[id]] = id
    BY <1>6, RegistryFacts DEF SnapshotInv, MemoryInv
  <2>2. QED
    BY <2>1
<1>9. FileInv'
  BY <1>1, <1>5, <1>6, <1>7, <1>8 DEF SnapshotInv, FileInv, KeysAreUnique
<1>10. SaveInv'
  BY <1>1, <1>2, <1>5 DEF SnapshotInv, SaveInv, NamesDecide, pending
<1>11. LoadInv'
  BY <1>1 DEF LoadInv
<1>12. QED
  BY <1>2, <1>9, <1>10, <1>11 DEF SnapshotInv

\* The first of the lines still to be written.
LEMMA NextRow ==
    ASSUME SnapshotInv, pc = "writing", file.stage = "observations", pending_rows # {}
    PROVE  LET row == FirstRow(pending_rows) IN
           /\ row \in pending_rows /\ row \in StoredObservations /\ row \in SavedRow
           /\ row \notin file.rows
           /\ row = LineOf(row.prefix, row.peer_id, row.origin_asn, row.timestamp)
           /\ RowIsSaved(row)
<1> DEFINE row == FirstRow(pending_rows)
<1>1. /\ saved = routes /\ DOMAIN file.peers = UsedPeerIds
      /\ \A id \in DOMAIN file.peers : file.peers[id] = by_id[id]
      /\ pending_rows \subseteq StoredObservations /\ file.rows \cap pending_rows = {}
  BY DEF SnapshotInv, SaveInv
<1>2. /\ StoredObservations \subseteq SavedRow /\ KeysAreUnique(StoredObservations)
      /\ \A line \in StoredObservations :
            /\ routes[line.prefix][by_id[line.peer_id]] = RouteOfRow(line)
            /\ RouteOfRow(line) # NoRoute
  BY MemoryFacts DEF SnapshotInv
<1>3. pending_rows \in SUBSET SavedRow /\ KeysAreUnique(pending_rows)
  BY <1>1, <1>2 DEF KeysAreUnique
<1>4. row \in pending_rows
  BY <1>3, FirstRowExists
<1> HIDE DEF row
<1>5. row \in StoredObservations /\ row \in SavedRow /\ row \notin file.rows
  BY <1>1, <1>2, <1>4
<1>6. row = LineOf(row.prefix, row.peer_id, row.origin_asn, row.timestamp)
  BY <1>5 DEF SavedRow, LineOf
<1>7. row.peer_id \in DOMAIN file.peers
  BY <1>1, <1>5 DEF UsedPeerIds
<1>8. RowIsSaved(row)
  <2>1. saved[row.prefix][file.peers[row.peer_id]] = RouteOfRow(row) /\ RouteOfRow(row) # NoRoute
    BY <1>1, <1>2, <1>5, <1>7
  <2>2. RouteOfRow(row).origin_asn = row.origin_asn
    BY DEF RouteOfRow, Route
  <2>3. QED
    BY <1>7, <2>1, <2>2 DEF RowIsSaved
<1>9. QED
  BY <1>4, <1>5, <1>6, <1>8 DEF row

\* A line for the first route, with its timestamp or, cut short, with another one.
LEMMA RowLine ==
    ASSUME SnapshotInv, pc = "writing", file.stage = "observations", pending_rows # {},
           NEW row, row = FirstRow(pending_rows), NEW timestamp \in Timestamps, NEW line,
           line = LineOf(row.prefix, row.peer_id, row.origin_asn, timestamp),
           file' = FileOf("observations", file.peers, file.rows \cup {line}, file.rejected),
           UNCHANGED <<saved, complete>>
    PROVE  FileInv'
<1>1. /\ row \in pending_rows /\ row \in StoredObservations /\ row \in SavedRow
      /\ row \notin file.rows /\ RowIsSaved(row)
  BY NextRow
<1>2. /\ line \in SavedRow /\ line.prefix = row.prefix /\ line.peer_id = row.peer_id
      /\ line.origin_asn = row.origin_asn
  BY <1>1 DEF SavedRow, LineOf
<1>3. RowIsSaved(line)
  BY <1>1, <1>2 DEF RowIsSaved
<1>4. KeysAreUnique(file.rows \cup {line})
  <2>1. KeysAreUnique(StoredObservations)
    BY MemoryFacts DEF SnapshotInv
  <2>2. file.rows \subseteq StoredObservations
    BY DEF SnapshotInv, SaveInv
  <2>3. \A other \in file.rows :
           ~ (other.prefix = line.prefix /\ other.peer_id = line.peer_id)
    BY <1>1, <1>2, <2>1, <2>2 DEF KeysAreUnique
  <2>4. KeysAreUnique(file.rows)
    BY DEF SnapshotInv, FileInv
  <2>5. QED
    BY <2>3, <2>4 DEF KeysAreUnique
<1> DEFINE rows == file.rows \cup {line}
<1>5. /\ file'.stage = "observations" /\ file'.peers = file.peers /\ file'.rows = rows
      /\ file' = FileOf(file'.stage, file'.peers, file'.rows, file'.rejected)
  BY FileParts
<1>6. ~complete
  BY DEF SnapshotInv, SaveInv
<1>7. \A other \in rows : RowIsSaved(other)
  BY <1>3 DEF SnapshotInv, FileInv
<1>8. rows \subseteq SavedRow /\ KeysAreUnique(rows)
  BY <1>2, <1>4 DEF SnapshotInv, FileInv
<1>9. \A other : RowIsSaved(other) => RowIsSaved(other)'
  BY <1>5 DEF RowIsSaved
<1>10. /\ DOMAIN file.peers \subseteq PeerIds
       /\ \A id \in DOMAIN file.peers : file.peers[id] \in Peers
       /\ \A id, other \in DOMAIN file.peers : file.peers[id] = file.peers[other] => id = other
       /\ saved \in SavedTables
  BY DEF SnapshotInv, FileInv
<1>11. \A other \in rows : RowIsSaved(other)'
  BY <1>7, <1>9
<1> HIDE DEF rows
<1>12. QED
  BY <1>5, <1>6, <1>8, <1>10, <1>11, SMTT(20) DEF FileInv

\* The lines are written one by one.
LEMMA WriteRowStep ==
    ASSUME SnapshotInv, WriteRow, routes' = RoutesByPeer'
    PROVE  SnapshotInv' /\ UNCHANGED TableByPeer!vars
<1> DEFINE row == FirstRow(pending_rows)
           rows == file.rows \cup {row}
<1>1. /\ pc = "writing" /\ pc' = "writing" /\ file.stage = "observations"
      /\ pending_rows # {}
      /\ file' = [file EXCEPT !.rows = @ \cup {row}]
      /\ pending_rows' = pending_rows \ {row}
      /\ UNCHANGED <<memory, saved, complete, pending_peers>>
  BY DEF WriteRow
<1>2. /\ MemoryInv' /\ UNCHANGED TableByPeer!vars
      /\ routes' = routes /\ by_id' = by_id
      /\ StoredObservations' = StoredObservations /\ UsedPeerIds' = UsedPeerIds
  BY <1>1, SaveKeepsMemory
<1>3. /\ row \in pending_rows /\ row \in SavedRow /\ row \notin file.rows
      /\ row = LineOf(row.prefix, row.peer_id, row.origin_asn, row.timestamp)
  BY <1>1, NextRow
<1>4. file = FileOf("observations", file.peers, file.rows, file.rejected)
  BY <1>1 DEF SnapshotInv, FileInv
<1>5. file' = FileOf("observations", file.peers, rows, file.rejected)
  BY <1>1, <1>4 DEF FileOf
<1>6. FileInv'
  <2>1. row.timestamp \in Timestamps
    BY <1>3 DEF SavedRow
  <2>2. QED
    BY <1>1, <1>3, <1>5, <2>1, RowLine
<1> HIDE DEF rows
<1>7. /\ file'.stage = "observations" /\ file'.peers = file.peers
      /\ file'.rows = rows /\ file'.rejected = file.rejected
  BY <1>5, FileParts
<1> HIDE DEF row
<1>8. rows \cup pending_rows' = StoredObservations /\ rows \cap pending_rows' = {}
  BY <1>1, <1>3 DEF SnapshotInv, SaveInv, rows
<1>9. SaveInv'
  BY <1>1, <1>2, <1>7, <1>8 DEF SnapshotInv, SaveInv, NamesDecide
<1>10. LoadInv'
  BY <1>1 DEF LoadInv
<1>11. QED
  BY <1>2, <1>6, <1>9, <1>10 DEF SnapshotInv

\* When all lines are written, the file has everything that was saved.
LEMMA WholeFileIsComplete ==
    ASSUME SnapshotInv, pc = "writing", file.stage = "observations", pending_rows = {}
    PROVE  FileIsComplete
<1>1. /\ NamesDecide /\ saved = routes /\ DOMAIN file.peers = UsedPeerIds
      /\ \A id \in DOMAIN file.peers : id \in DOMAIN by_id /\ file.peers[id] = by_id[id]
      /\ file.rows = StoredObservations
  BY DEF SnapshotInv, SaveInv
<1>2. /\ \A row \in StoredObservations :
            routes[row.prefix][by_id[row.peer_id]] = RouteOfRow(row)
      /\ \A prefix \in Prefix, peer \in Peers : routes[prefix][peer] # NoRoute =>
            /\ peer \in DOMAIN by_info
            /\ \E row \in StoredObservations :
                  row.prefix = prefix /\ row.peer_id = by_info[peer]
  BY MemoryFacts DEF SnapshotInv
<1>3. \A row \in file.rows : row.peer_id \in DOMAIN file.peers
  BY <1>1 DEF UsedPeerIds
<1>4. \A id \in DOMAIN file.peers : \E row \in file.rows : row.peer_id = id
  BY <1>1 DEF UsedPeerIds
<1>5. \A row \in file.rows : saved[row.prefix][file.peers[row.peer_id]] = RouteOfRow(row)
  BY <1>1, <1>2, <1>3
<1>6. ASSUME NEW prefix \in Prefix, NEW peer \in Peers, saved[prefix][peer] # NoRoute
      PROVE  \E row \in file.rows : row.prefix = prefix /\ file.peers[row.peer_id] = peer
  <2>1. peer \in DOMAIN by_info
    BY <1>1, <1>2, <1>6
  <2>2. PICK row \in file.rows : row.prefix = prefix /\ row.peer_id = by_info[peer]
    BY <1>1, <1>2, <1>6
  <2>3. by_id[by_info[peer]] = peer
    BY <2>1, RegistryFacts DEF SnapshotInv, MemoryInv
  <2>4. file.peers[row.peer_id] = peer
    BY <1>1, <1>3, <2>2, <2>3
  <2>5. QED
    BY <2>2, <2>4
<1>7. QED
  BY <1>1, <1>4, <1>5, <1>6 DEF FileIsComplete

\* The save ends, and the process with it.
LEMMA SaveEndsStep ==
    ASSUME SnapshotInv, SaveEnds, routes' = RoutesByPeer'
    PROVE  SnapshotInv' /\ [TableByPeer!Next]_(TableByPeer!vars)
<1>1. /\ pc = "writing" /\ file.stage = "observations" /\ pending_rows = {}
      /\ complete' = TRUE /\ Exit /\ file' = file /\ saved' = saved
  BY DEF SaveEnds
<1>2. FileIsComplete
  BY <1>1, WholeFileIsComplete
<1>3. FileInv'
  BY <1>1, <1>2 DEF SnapshotInv, FileInv, RowIsSaved, FileIsComplete, NamesDecide, KeysAreUnique
<1>4. QED
  BY <1>1, <1>3, ExitStep DEF SnapshotInv

-----------------------------------------------------------------------------
(* Failing.  The memory is gone, and the file is as good as it has to be.  *)

\* A crash between two lines.
LEMMA CrashStep ==
    ASSUME SnapshotInv, Crash, routes' = RoutesByPeer'
    PROVE  SnapshotInv' /\ [TableByPeer!Next]_(TableByPeer!vars)
BY ExitStep, FileKept DEF SnapshotInv, Crash

\* A crash within a line that leaves a file the parser rejects.
LEMMA CrashInLineStep ==
    ASSUME SnapshotInv, CrashInLine, routes' = RoutesByPeer'
    PROVE  SnapshotInv' /\ [TableByPeer!Next]_(TableByPeer!vars)
<1>1. /\ pc = "writing" /\ Exit /\ saved' = saved /\ complete' = complete
      /\ file' = [file EXCEPT !.rejected = TRUE]
  BY DEF CrashInLine, TornInSave
<1>2. file = FileOf(file.stage, file.peers, file.rows, file.rejected)
  BY DEF SnapshotInv, FileInv
<1>3. file' = FileOf(file.stage, file.peers, file.rows, TRUE)
  BY <1>1, <1>2 DEF FileOf
<1>4. /\ file'.stage = file.stage /\ file'.peers = file.peers /\ file'.rows = file.rows
      /\ file' = FileOf(file'.stage, file'.peers, file'.rows, file'.rejected)
  BY <1>3 DEF FileOf
<1>5. ~complete
  BY <1>1 DEF SnapshotInv, SaveInv
<1>6. FileInv'
  BY <1>1, <1>4, <1>5 DEF SnapshotInv, FileInv, RowIsSaved, KeysAreUnique
<1>7. QED
  BY <1>1, <1>6, ExitStep DEF SnapshotInv

\* A crash within the ASN of a peer, which is the last line of the file.
LEMMA CrashInPeerStep ==
    ASSUME SnapshotInv, CrashInPeer, routes' = RoutesByPeer'
    PROVE  SnapshotInv' /\ [TableByPeer!Next]_(TableByPeer!vars)
<1>1. /\ pc = "writing" /\ Exit /\ saved' = saved /\ complete' = complete
      /\ file.stage = "peers" /\ DOMAIN pending_peers # {}
  BY DEF CrashInPeer, TornInSave
<1>2. PICK peer \in Peers : file' = [file EXCEPT !.peers = Put(@, FirstPeer, peer)]
  BY DEF CrashInPeer
<1>3. /\ FirstPeer \in PeerIds /\ ~complete
      /\ file' = FileOf("peers", Put(file.peers, FirstPeer, peer), {}, file.rejected)
  BY <1>1, <1>2, NextPeer
<1>4. FileInv'
  BY <1>1, <1>3, PeerLine
<1>5. QED
  BY <1>1, <1>4, ExitStep DEF SnapshotInv

\* A crash within the timestamp of a row.
LEMMA CrashInRowStep ==
    ASSUME SnapshotInv, CrashInRow, routes' = RoutesByPeer'
    PROVE  SnapshotInv' /\ [TableByPeer!Next]_(TableByPeer!vars)
<1> DEFINE row == FirstRow(pending_rows)
<1>1. /\ pc = "writing" /\ Exit /\ saved' = saved /\ complete' = complete
      /\ file.stage = "observations" /\ pending_rows # {}
  BY DEF CrashInRow, TornInSave
<1>2. PICK timestamp \in Timestamps :
         file' = [file EXCEPT !.rows = @ \cup {[row EXCEPT !.timestamp = timestamp]}]
  BY DEF CrashInRow
<1> DEFINE line == LineOf(row.prefix, row.peer_id, row.origin_asn, timestamp)
<1>3. row = LineOf(row.prefix, row.peer_id, row.origin_asn, row.timestamp)
  BY <1>1, NextRow
<1>4. [row EXCEPT !.timestamp = timestamp] = line
  BY <1>3 DEF LineOf
<1>5. file = FileOf("observations", file.peers, file.rows, file.rejected)
  BY <1>1 DEF SnapshotInv, FileInv
<1> HIDE DEF line
<1>6. file' = [file EXCEPT !.rows = file.rows \cup {line}]
  BY <1>2, <1>4
<1>7. file' = FileOf("observations", file.peers, file.rows \cup {line}, file.rejected)
  BY <1>5, <1>6 DEF FileOf
<1>8. FileInv'
  BY <1>1, <1>7, RowLine DEF line
<1>9. QED
  BY <1>1, <1>8, ExitStep DEF SnapshotInv

-----------------------------------------------------------------------------
(* The invariant, and what follows from it.                                *)

\* It holds before the first start.
LEMMA SnapshotStarts == SnapshotInit => SnapshotInv
<1> SUFFICES ASSUME SnapshotInit
             PROVE  SnapshotInv
  OBVIOUS
<1>1. /\ Init /\ RegistryInit /\ pc = "down"
      /\ file = FileOf("absent", EmptyMap, {}, FALSE)
      /\ saved = RoutesByPeer /\ complete = FALSE /\ routes = RoutesByPeer
  BY DEF SnapshotInit
<1>2. IInv /\ RegistryInv
  BY <1>1, InitInvariant, RegistryStarts
<1>3. \A prefix \in Prefix, peer_id \in PeerIds : TableOfRecords[prefix][peer_id] = NoRoute
  <2>1. \A prefix \in Prefix : RecordAt(prefix) = NewRecord
    BY <1>1 DEF Init, RecordAt, EmptyMap
  <2>2. QED
    BY <1>2, <2>1, TableIsTyped, NewRecordIsCore
<1>4. MemoryInv
  BY <1>1, <1>2, <1>3 DEF MemoryInv, Linked
<1>5. saved \in SavedTables
  BY <1>1, <1>4, MemoryFacts
<1>6. /\ DOMAIN file.peers = {} /\ file.rows = {} /\ file.stage = "absent"
      /\ file = FileOf(file.stage, file.peers, file.rows, file.rejected)
  BY <1>1 DEF FileOf, EmptyMap
<1>7. FileInv
  BY <1>1, <1>5, <1>6 DEF FileInv, KeysAreUnique
<1>8. SaveInv /\ LoadInv
  BY <1>1 DEF SaveInv, LoadInv
<1>9. QED
  BY <1>4, <1>7, <1>8 DEF SnapshotInv

\* It is kept by every step, which is one of the table by peer or none at all.
LEMMA SnapshotStep ==
    ASSUME SnapshotInv, [SnapshotNext]_snapshotVars
    PROVE  SnapshotInv' /\ [TableByPeer!Next]_(TableByPeer!vars)
<1>1. CASE UNCHANGED snapshotVars
  BY <1>1, StutterStep
<1>2. CASE SnapshotNext
  <2>1. routes' = RoutesByPeer' /\ (Load \/ Update \/ Save \/ Failure)
    BY <1>2 DEF SnapshotNext
  <2>2. CASE Load
    BY <2>1, <2>2, LoadStep
  <2>3. CASE Update
    <3>1. PICK peer \in Peers, prefix \in Prefix :
             \/ \E asn \in Asns, timestamp \in Timestamps :
                   AnnounceFrom(peer, prefix, asn, timestamp)
             \/ WithdrawFrom(peer, prefix)
      BY <2>3 DEF Update
    <3>2. CASE WithdrawFrom(peer, prefix)
      BY <2>1, <3>2, WithdrawFromStep DEF TableByPeer!Next
    <3>3. ASSUME NEW asn \in Asns, NEW timestamp \in Timestamps,
                 AnnounceFrom(peer, prefix, asn, timestamp)
          PROVE  SnapshotInv' /\ [TableByPeer!Next]_(TableByPeer!vars)
      <4>1. SnapshotInv' /\ TableByPeer!Announce(prefix, peer, asn, timestamp)
        BY <2>1, <3>3, AnnounceFromStep
      <4>2. QED
        BY <4>1 DEF TableByPeer!Next
    <3>4. QED
      BY <3>1, <3>2, <3>3
  <2>4. CASE Save
    BY <2>1, <2>4, SaveBeginsStep, WriteHeaderStep, WritePeerStep, WriteSectionStep,
       WriteRowStep, SaveEndsStep DEF Save
  <2>5. CASE Failure
    BY <2>1, <2>5, CrashStep, CrashInLineStep, CrashInPeerStep, CrashInRowStep DEF Failure
  <2>6. QED
    BY <2>1, <2>2, <2>3, <2>4, <2>5
<1>3. QED
  BY <1>1, <1>2

\* The invariant holds in every state of every run of the program.
THEOREM SnapshotInvHolds == SnapshotSpec => []SnapshotInv
<1>1. SnapshotInv /\ [SnapshotNext]_snapshotVars => SnapshotInv'
  BY SnapshotStep
<1>2. QED
  BY SnapshotStarts, <1>1, PTL DEF SnapshotSpec

\* The next start accepts the file of a save that ran to its end exactly if no peer in
\* use has a name that splits its line; the observations use the peers of the file and
\* all of them, and no identity is in it twice (save_snapshot).
THEOREM CompleteFilesLoad == SnapshotSpec => []CompleteFileLoads
<1>1. SnapshotInv => CompleteFileLoads
  <2> SUFFICES ASSUME SnapshotInv, complete
               PROVE  /\ file.rejected <=>
                            \E prefix \in Prefix, peer \in Splitting : saved[prefix][peer] # NoRoute
                      /\ {row.peer_id : row \in file.rows} = DOMAIN file.peers
                      /\ \A i, j \in DOMAIN file.peers : file.peers[i] = file.peers[j] => i = j
    BY DEF CompleteFileLoads
  <2>1. FileInv /\ FileIsComplete
    BY DEF SnapshotInv, FileInv
  <2>2. \A row \in file.rows : row \in SavedRow /\ RowIsSaved(row)
    BY <2>1 DEF FileInv
  <2>3. {row.peer_id : row \in file.rows} = DOMAIN file.peers
    BY <2>1, <2>2 DEF FileIsComplete, RowIsSaved
  <2>4. ASSUME file.rejected
        PROVE  \E prefix \in Prefix, peer \in Splitting : saved[prefix][peer] # NoRoute
    <3>1. PICK id \in DOMAIN file.peers : file.peers[id] \in Splitting
      BY <2>1, <2>4 DEF FileIsComplete, NamesDecide
    <3>2. PICK row \in file.rows : row.peer_id = id
      BY <2>1 DEF FileIsComplete
    <3>3. row.prefix \in Prefix /\ saved[row.prefix][file.peers[id]] # NoRoute
      BY <2>2, <3>2 DEF SavedRow, RowIsSaved
    <3>4. QED
      BY <3>1, <3>3
  <2>5. ASSUME NEW prefix \in Prefix, NEW peer \in Splitting, saved[prefix][peer] # NoRoute
        PROVE  file.rejected
    <3>1. PICK row \in file.rows : file.peers[row.peer_id] = peer
      BY <2>1, <2>5, SplittingAssumption DEF FileIsComplete
    <3>2. row.peer_id \in DOMAIN file.peers
      BY <2>2 DEF RowIsSaved
    <3>3. QED
      BY <2>1, <3>1, <3>2 DEF FileIsComplete, NamesDecide
  <2>6. \A i, j \in DOMAIN file.peers : file.peers[i] = file.peers[j] => i = j
    BY <2>1 DEF FileInv, FileIsComplete
  <2>7. QED
    BY <2>3, <2>4, <2>5, <2>6
<1>2. QED
  BY SnapshotInvHolds, <1>1, PTL

\* No step but those of the save that writes it touches a file the parser rejects: no
\* start goes on without it, so nothing is ever saved over it (load_snapshot, main).
THEOREM RejectedFileStays == SnapshotSpec => RejectedFileIsKept
<1>1. SnapshotInv /\ [SnapshotNext]_snapshotVars =>
         [file.rejected /\ pc # "writing" => file' = file]_snapshotVars
  <2> SUFFICES ASSUME SnapshotInv, SnapshotNext, file.rejected, pc # "writing"
               PROVE  file' = file
    OBVIOUS
  <2>1. pc = "down"
    BY DEF SnapshotInv, LoadInv
  <2>2. QED
    BY <2>1 DEF SnapshotNext, Load, Update, Save, Failure, StartEmpty, StartLoad, StartFails,
       InsertPeer, InsertFails, InsertsDone, RestoreRow, Rebuild, AnnounceFrom, WithdrawFrom,
       SaveBegins, WriteHeader, WritePeer, WriteSection, WriteRow, SaveEnds, Crash, CrashInLine,
       CrashInPeer, CrashInRow, TornInSave, snapshotVars, disk
<1>2. QED
  BY SnapshotInvHolds, <1>1, PTL DEF SnapshotSpec, RejectedFileIsKept

\* Whatever a crash left of the file, no row is restored without its peer
\* (load_snapshot: "observation references unknown peer_id").
THEOREM RowsKeepPeers == SnapshotSpec => []RowsHavePeers
<1>1. SnapshotInv => RowsHavePeers
  BY DEF SnapshotInv, FileInv, LoadInv, RowIsSaved, RowsHavePeers, ContainsId
<1>2. QED
  BY SnapshotInvHolds, <1>1, PTL

\* Registry, routing state, file, loads, saves and crashes together are one routing
\* table by peer identity: an id never stands for two peers.
THEOREM ImplementationByPeer == SnapshotSpec => ImplementsTableByPeer
<1>1. SnapshotInit => TableByPeer!Init
  <2> SUFFICES ASSUME SnapshotInit
               PROVE  TableByPeer!Init
    OBVIOUS
  <2>1. SnapshotInv /\ routes = RoutesByPeer /\ DOMAIN by_info = {}
    BY SnapshotStarts DEF SnapshotInit, RegistryInit, EmptyMap
  <2>2. routes = TableByPeer!EmptyTable
    BY <2>1 DEF RoutesByPeer, RouteOf, Known, TableByPeer!EmptyTable
  <2>3. QED
    BY <2>1, <2>2, MemoryExport DEF TableByPeer!Init, SnapshotInv
<1>2. SnapshotInv /\ [SnapshotNext]_snapshotVars => [TableByPeer!Next]_(TableByPeer!vars)
  BY SnapshotStep
<1>3. QED
  BY SnapshotInvHolds, <1>1, <1>2, PTL DEF SnapshotSpec, ImplementsTableByPeer, TableByPeer!Spec

\* A load that succeeds ends with the rebuild, after the last row.
LEMMA LoadEnds ==
    ASSUME SnapshotInv, [SnapshotNext]_snapshotVars, pc = "restoring", pc' = "running"
    PROVE  pending_rows = {} /\ routes' = routes
<1>1. SnapshotNext
  BY DEF snapshotVars
<1>2. Rebuild
  BY <1>1 DEF SnapshotNext, Load, Update, Save, Failure, StartEmpty, StartLoad, StartFails,
     InsertPeer, InsertFails, InsertsDone, RestoreRow, AnnounceFrom, WithdrawFrom, SaveBegins,
     WriteHeader, WritePeer, WriteSection, WriteRow, SaveEnds, Crash, CrashInLine, CrashInPeer,
     CrashInRow, TornInSave, Exit
<1>3. QED
  BY <1>1, <1>2, RebuildEndsLoad DEF SnapshotNext, Rebuild, TableByPeer!vars

\* What is in memory then are the routes of the file, each of the peer of its line.
LEMMA LoadedFromFile ==
    ASSUME SnapshotInv, pc = "restoring", pending_rows = {}
    PROVE  /\ \A row \in file.rows :
                 routes[row.prefix][file.peers[row.peer_id]] = RouteOfRow(row)
           /\ \A prefix \in Prefix, peer \in Peers : routes[prefix][peer] # NoRoute =>
                 \E row \in file.rows :
                    row.prefix = prefix /\ file.peers[row.peer_id] = peer
<1>1. /\ StoredObservations = file.rows /\ DOMAIN by_id = DOMAIN file.peers
      /\ \A id \in DOMAIN by_id : by_id[id] = file.peers[id]
  BY DEF SnapshotInv, LoadInv
<1>2. \A row \in file.rows : row.peer_id \in DOMAIN file.peers
  BY DEF SnapshotInv, FileInv, RowIsSaved
<1>3. /\ \A row \in StoredObservations :
            routes[row.prefix][by_id[row.peer_id]] = RouteOfRow(row)
      /\ \A prefix \in Prefix, peer \in Peers : routes[prefix][peer] # NoRoute =>
            /\ peer \in DOMAIN by_info
            /\ \E row \in StoredObservations :
                  row.prefix = prefix /\ row.peer_id = by_info[peer]
  BY MemoryFacts DEF SnapshotInv
<1>4. ASSUME NEW prefix \in Prefix, NEW peer \in Peers, routes[prefix][peer] # NoRoute
      PROVE  \E row \in file.rows : row.prefix = prefix /\ file.peers[row.peer_id] = peer
  <2>1. peer \in DOMAIN by_info
    BY <1>3, <1>4
  <2>2. PICK row \in file.rows : row.prefix = prefix /\ row.peer_id = by_info[peer]
    BY <1>1, <1>3, <1>4
  <2>3. by_id[by_info[peer]] = peer
    BY <2>1, RegistryFacts DEF SnapshotInv, MemoryInv
  <2>4. QED
    BY <1>1, <1>2, <2>2, <2>3
<1>5. QED
  BY <1>1, <1>2, <1>3, <1>4

\* A restart brings back exactly the routes that were saved, peer by peer, though ids
\* of unused peers were dropped (load_snapshot, save_snapshot).
THEOREM RestartRestores == SnapshotSpec => RestartRestoresRoutes
<1>1. ASSUME SnapshotInv, pc = "restoring", pending_rows = {}, complete
      PROVE  routes = saved
  <2>1. routes \in SavedTables /\ saved \in SavedTables
    BY <1>1, MemoryFacts DEF SnapshotInv, FileInv
  <2>2. FileIsComplete
    BY <1>1 DEF SnapshotInv, FileInv
  <2>3. ASSUME NEW prefix \in Prefix, NEW peer \in Peers
        PROVE  routes[prefix][peer] = saved[prefix][peer]
    <3>1. ASSUME NEW row \in file.rows, row.prefix = prefix, file.peers[row.peer_id] = peer
          PROVE  routes[prefix][peer] = saved[prefix][peer]
      <4>1. routes[row.prefix][file.peers[row.peer_id]] = RouteOfRow(row)
        BY <1>1, LoadedFromFile
      <4>2. QED
        BY <2>2, <3>1, <4>1 DEF FileIsComplete
    <3>2. CASE routes[prefix][peer] # NoRoute
      BY <1>1, <3>1, <3>2, LoadedFromFile
    <3>3. CASE saved[prefix][peer] # NoRoute
      BY <2>2, <3>1, <3>3 DEF FileIsComplete
    <3>4. QED
      BY <3>2, <3>3
  <2>4. ASSUME NEW prefix \in Prefix
        PROVE  routes[prefix] = saved[prefix]
    <3>1. /\ routes[prefix] \in [Peers -> Routes \cup {NoRoute}]
          /\ saved[prefix] \in [Peers -> Routes \cup {NoRoute}]
      BY <2>1 DEF SavedTables
    <3>2. QED
      BY <2>3, <3>1
  <2>5. QED
    BY <2>1, <2>4 DEF SavedTables
<1>2. SnapshotInv /\ [SnapshotNext]_snapshotVars =>
         [pc = "restoring" /\ pc' = "running" /\ complete => routes' = saved]_snapshotVars
  BY <1>1, LoadEnds
<1>3. QED
  BY SnapshotInvHolds, <1>2, PTL DEF SnapshotSpec, RestartRestoresRoutes

\* What a load finds in a file that was cut off is part of what was being saved: no
\* route comes up with another peer or origin (load_snapshot after a crash).
THEOREM PartialLoadStaysPartial == SnapshotSpec => PartialLoadIsPartial
<1>1. ASSUME SnapshotInv, pc = "restoring", pending_rows = {},
             NEW prefix \in Prefix, NEW peer \in Peers, routes[prefix][peer] # NoRoute
      PROVE  /\ saved[prefix][peer] # NoRoute
             /\ routes[prefix][peer].origin_asn = saved[prefix][peer].origin_asn
  <2>1. PICK row \in file.rows : row.prefix = prefix /\ file.peers[row.peer_id] = peer
    BY <1>1, LoadedFromFile
  <2>2. routes[prefix][peer] = RouteOfRow(row)
    BY <1>1, <2>1, LoadedFromFile
  <2>3. RowIsSaved(row)
    BY <1>1 DEF SnapshotInv, FileInv
  <2>4. RouteOfRow(row).origin_asn = row.origin_asn
    BY DEF RouteOfRow, Route
  <2>5. QED
    BY <2>1, <2>2, <2>3, <2>4 DEF RowIsSaved
<1>2. SnapshotInv /\ [SnapshotNext]_snapshotVars =>
         [pc = "restoring" /\ pc' = "running" =>
            \A prefix \in Prefix, peer \in Peers :
                \/ routes'[prefix][peer] = NoRoute
                \/ /\ saved[prefix][peer] # NoRoute
                   /\ routes'[prefix][peer].origin_asn = saved[prefix][peer].origin_asn]_snapshotVars
  BY <1>1, LoadEnds
<1>3. QED
  BY SnapshotInvHolds, <1>2, PTL DEF SnapshotSpec, PartialLoadIsPartial

=============================================================================
