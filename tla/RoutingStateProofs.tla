------------------------- MODULE RoutingStateProofs -------------------------
(***************************************************************************)
(* Proofs about RoutingState.  A record is looked at through its row: the  *)
(* route of every peer.  Each update of the packed vectors changes the row *)
(* at one peer, the counters follow the row, and the selection follows the *)
(* counters.                                                               *)
(***************************************************************************)
EXTENDS RoutingState, DataLemmas, FiniteSetTheorems

Obs == [peer_id : PeerIds, origin_asn : Asns]

Routes == [origin_asn : Asns, timestamp : Timestamps]

Route(asn, timestamp) == [origin_asn |-> asn, timestamp |-> timestamp]

Row(rec) == [peer_id \in PeerIds |-> RouteOfPeer(rec, peer_id)]

SetRoute(row, peer_id, route) == [row EXCEPT ![peer_id] = route]

Observed(peer_id, asn) == [peer_id |-> peer_id, origin_asn |-> asn]

Appended(seq, element) == Append(seq, element)

Recast(observations, index, asn) == [observations EXCEPT ![index].origin_asn = asn]

Stamped(timestamps, index, timestamp) == [timestamps EXCEPT ![index] = timestamp]

Replaced(rec, observations, timestamps, counts) ==
    [rec EXCEPT !.observations = observations, !.timestamps = timestamps,
                !.asn_counts = counts]

\* The two packed vectors are parallel and hold at most one entry per peer.
Packed(rec) ==
    /\ rec.observations \in Seq(Obs)
    /\ rec.timestamps \in Seq(Timestamps)
    /\ Len(rec.timestamps) = Len(rec.observations)
    /\ OneObservationPerPeer(rec)

-----------------------------------------------------------------------------
(* The row of a record.                                                    *)

\* An observation is the route of its peer.
LEMMA RouteAt ==
    ASSUME NEW rec, Packed(rec), NEW i \in DOMAIN rec.observations
    PROVE  /\ rec.observations[i] \in Obs
           /\ rec.timestamps[i] \in Timestamps
           /\ RouteOfPeer(rec, rec.observations[i].peer_id) =
                 Route(rec.observations[i].origin_asn, rec.timestamps[i])
<1>1. rec.observations[i] \in Obs /\ rec.timestamps[i] \in Timestamps /\ i # 0
  BY DEF Packed
<1>2. IndexOfPeer(rec, rec.observations[i].peer_id) = i
  BY IndexOfPresentPeer DEF Packed
<1>3. QED
  BY <1>1, <1>2 DEF RouteOfPeer, Route

\* A peer without an observation has no route.
LEMMA NoRouteAt ==
    ASSUME NEW rec, Packed(rec), NEW peer_id, peer_id \notin PeersIn(rec)
    PROVE  RouteOfPeer(rec, peer_id) = NoRoute
BY IndexOfAbsentPeer DEF Packed, RouteOfPeer

\* The row of a record has a route exactly for the peers observed.
LEMMA RowHasRoute ==
    ASSUME NEW rec, Packed(rec), NEW peer_id \in PeerIds
    PROVE  /\ peer_id \in PeersIn(rec) => Row(rec)[peer_id] \in Routes
           /\ peer_id \notin PeersIn(rec) => Row(rec)[peer_id] = NoRoute
           /\ peer_id \in PeersIn(rec) <=> Row(rec)[peer_id] # NoRoute
<1>1. ASSUME peer_id \in PeersIn(rec)
      PROVE  Row(rec)[peer_id] \in Routes
  <2>1. PICK i \in DOMAIN rec.observations : rec.observations[i].peer_id = peer_id
    BY <1>1 DEF PeersIn
  <2>2. /\ RouteOfPeer(rec, peer_id) = Route(rec.observations[i].origin_asn, rec.timestamps[i])
        /\ rec.observations[i] \in Obs /\ rec.timestamps[i] \in Timestamps
    BY <2>1, RouteAt
  <2>3. QED
    BY <2>2 DEF Row, Routes, Route, Obs
<1>2. peer_id \notin PeersIn(rec) => Row(rec)[peer_id] = NoRoute
  BY NoRouteAt DEF Row
<1>3. QED
  BY <1>1, <1>2, NoRouteAssumption DEF Routes

\* The backers of an ASN are the peers whose row entry has that origin.
LEMMA BackersAreVoters ==
    ASSUME NEW rec, Packed(rec), NEW asn
    PROVE  Backers(rec, asn) = Table!Voters(Row(rec), asn)
<1>1. ASSUME NEW peer_id \in Backers(rec, asn)
      PROVE  peer_id \in Table!Voters(Row(rec), asn)
  <2>1. PICK i \in DOMAIN rec.observations :
           rec.observations[i].peer_id = peer_id /\ rec.observations[i].origin_asn = asn
    BY DEF Backers
  <2>2. peer_id \in PeerIds /\ peer_id \in PeersIn(rec)
    BY <2>1, RouteAt DEF Obs, PeersIn
  <2>3. RouteOfPeer(rec, peer_id) = Route(asn, rec.timestamps[i])
    BY <2>1, RouteAt
  <2>4. Row(rec)[peer_id] # NoRoute
    BY <2>2, RowHasRoute
  <2>5. QED
    BY <2>2, <2>3, <2>4 DEF Row, Route, Table!Voters
<1>2. ASSUME NEW peer_id \in Table!Voters(Row(rec), asn)
      PROVE  peer_id \in Backers(rec, asn)
  <2>1. peer_id \in PeerIds /\ Row(rec)[peer_id] # NoRoute /\ Row(rec)[peer_id].origin_asn = asn
    BY DEF Table!Voters
  <2>2. PICK i \in DOMAIN rec.observations : rec.observations[i].peer_id = peer_id
    BY <2>1, RowHasRoute DEF PeersIn
  <2>3. RouteOfPeer(rec, peer_id) = Route(rec.observations[i].origin_asn, rec.timestamps[i])
    BY <2>2, RouteAt
  <2>4. rec.observations[i].origin_asn = asn
    BY <2>1, <2>3 DEF Row, Route
  <2>5. QED
    BY <2>2, <2>4 DEF Backers
<1>3. QED
  BY <1>1, <1>2

\* Appending an observation of a new peer sets that peer's route.
LEMMA AppendSetsRoute ==
    ASSUME NEW rec, Packed(rec), NEW new,
           NEW peer_id \in PeerIds, peer_id \notin PeersIn(rec),
           NEW asn \in Asns, NEW timestamp \in Timestamps,
           new.observations = Appended(rec.observations, Observed(peer_id, asn)),
           new.timestamps = Appended(rec.timestamps, timestamp)
    PROVE  /\ Packed(new)
           /\ Row(new) = SetRoute(Row(rec), peer_id, Route(asn, timestamp))
<1> DEFINE n == Len(rec.observations)
<1>1. /\ new.observations \in Seq(Obs) /\ new.timestamps \in Seq(Timestamps)
      /\ Len(new.observations) = n + 1 /\ Len(new.timestamps) = n + 1 /\ n \in Nat
  BY DEF Packed, Obs, Observed, Appended
<1>2. /\ \A i \in 1 .. n : /\ new.observations[i] = rec.observations[i]
                           /\ new.timestamps[i] = rec.timestamps[i]
      /\ new.observations[n + 1] = [peer_id |-> peer_id, origin_asn |-> asn]
      /\ new.timestamps[n + 1] = timestamp
  BY DEF Packed, Observed, Appended
<1>3. /\ DOMAIN rec.observations = 1 .. n /\ DOMAIN new.observations = 1 .. n + 1
      /\ \A i \in 1 .. n : rec.observations[i].peer_id # peer_id
  BY <1>1 DEF PeersIn, Packed
<1>4. OneObservationPerPeer(new)
  <2>1. SUFFICES ASSUME NEW i \in 1 .. n + 1, NEW j \in 1 .. n + 1,
                        new.observations[i].peer_id = new.observations[j].peer_id
                 PROVE  i = j
    BY <1>3 DEF OneObservationPerPeer
  <2>2. CASE i \in 1 .. n /\ j \in 1 .. n
    BY <1>2, <1>3, <2>1, <2>2 DEF OneObservationPerPeer, Packed
  <2>3. CASE i = n + 1 \/ j = n + 1
    BY <1>1, <1>2, <1>3, <2>1, <2>3
  <2>4. QED
    BY <1>1, <2>2, <2>3
<1>5. Packed(new)
  BY <1>1, <1>4 DEF Packed
<1>6. ASSUME NEW q \in PeerIds
      PROVE  RouteOfPeer(new, q) =
                IF q = peer_id THEN Route(asn, timestamp) ELSE RouteOfPeer(rec, q)
  <2>1. CASE q = peer_id
    BY <1>1, <1>2, <1>3, <1>5, <2>1, RouteAt
  <2>2. CASE q # peer_id /\ q \in PeersIn(rec)
    <3>1. PICK i \in 1 .. n : rec.observations[i].peer_id = q
      BY <1>3, <2>2 DEF PeersIn
    <3>2. /\ i \in DOMAIN rec.observations /\ i \in DOMAIN new.observations
          /\ new.observations[i] = rec.observations[i]
          /\ new.timestamps[i] = rec.timestamps[i]
      BY <1>1, <1>2, <1>3
    <3>3. RouteOfPeer(new, q) = Route(new.observations[i].origin_asn, new.timestamps[i])
      BY <1>5, <3>1, <3>2, RouteAt
    <3>4. RouteOfPeer(rec, q) = Route(rec.observations[i].origin_asn, rec.timestamps[i])
      BY <3>1, <3>2, RouteAt
    <3>5. QED
      BY <2>2, <3>2, <3>3, <3>4
  <2>3. CASE q # peer_id /\ q \notin PeersIn(rec)
    <3>1. q \notin PeersIn(new)
      BY <1>1, <1>2, <1>3, <2>3 DEF PeersIn
    <3>2. QED
      BY <1>5, <2>3, <3>1, NoRouteAt
  <2>4. QED
    BY <2>1, <2>2, <2>3
<1>7. QED
  BY <1>5, <1>6 DEF Row, SetRoute

\* Overwriting the origin and the timestamp at a peer's index sets that peer's route.
LEMMA OverwriteSetsRoute ==
    ASSUME NEW rec, Packed(rec), NEW new,
           NEW index \in DOMAIN rec.observations,
           NEW asn \in Asns, NEW timestamp \in Timestamps,
           new.observations = Recast(rec.observations, index, asn),
           new.timestamps = Stamped(rec.timestamps, index, timestamp)
    PROVE  /\ Packed(new)
           /\ Row(new) = SetRoute(Row(rec), rec.observations[index].peer_id, Route(asn, timestamp))
<1> DEFINE n == Len(rec.observations)
           peer_id == rec.observations[index].peer_id
<1>1. /\ rec.observations \in Seq(Obs) /\ rec.timestamps \in Seq(Timestamps)
      /\ n \in Nat /\ index \in 1 .. n /\ Len(rec.timestamps) = n
      /\ rec.observations[index] \in Obs
  BY DEF Packed
<1>2. [rec.observations[index] EXCEPT !.origin_asn = asn]
         = [peer_id |-> peer_id, origin_asn |-> asn]
  BY <1>1 DEF Obs
<1>3. /\ new.observations =
            [rec.observations EXCEPT ![index] = [peer_id |-> peer_id, origin_asn |-> asn]]
      /\ [peer_id |-> peer_id, origin_asn |-> asn] \in Obs
  BY <1>1, <1>2 DEF Obs, Recast
<1>4. /\ new.observations \in Seq(Obs) /\ new.timestamps \in Seq(Timestamps)
      /\ Len(new.observations) = n /\ Len(new.timestamps) = n
  BY <1>1, <1>3 DEF Stamped
<1>5. /\ \A i \in 1 .. n : i # index => /\ new.observations[i] = rec.observations[i]
                                        /\ new.timestamps[i] = rec.timestamps[i]
      /\ new.observations[index] = [peer_id |-> peer_id, origin_asn |-> asn]
      /\ new.timestamps[index] = timestamp
  BY <1>1, <1>3 DEF Stamped
<1>6. /\ DOMAIN rec.observations = 1 .. n /\ DOMAIN new.observations = 1 .. n
      /\ \A i \in 1 .. n : new.observations[i].peer_id = rec.observations[i].peer_id
  BY <1>1, <1>4, <1>5
<1>7. Packed(new)
  <2>1. OneObservationPerPeer(new)
    BY <1>6 DEF Packed, OneObservationPerPeer
  <2>2. QED
    BY <1>4, <2>1 DEF Packed
<1>8. PeersIn(new) = PeersIn(rec)
  BY <1>6 DEF PeersIn
<1>9. ASSUME NEW q \in PeerIds
      PROVE  RouteOfPeer(new, q) =
                IF q = peer_id THEN Route(asn, timestamp) ELSE RouteOfPeer(rec, q)
  <2>1. CASE q = peer_id
    <3>1. RouteOfPeer(new, new.observations[index].peer_id)
             = Route(new.observations[index].origin_asn, new.timestamps[index])
      BY <1>1, <1>6, <1>7, RouteAt
    <3>2. QED
      BY <1>5, <2>1, <3>1
  <2>2. CASE q # peer_id /\ q \in PeersIn(rec)
    <3>1. PICK i \in 1 .. n : rec.observations[i].peer_id = q
      BY <1>6, <2>2 DEF PeersIn
    <3>2. /\ new.observations[i] = rec.observations[i]
          /\ new.timestamps[i] = rec.timestamps[i]
      BY <1>5, <2>2, <3>1
    <3>3. RouteOfPeer(new, new.observations[i].peer_id)
             = Route(new.observations[i].origin_asn, new.timestamps[i])
      BY <1>6, <1>7, RouteAt
    <3>4. RouteOfPeer(rec, q) = Route(rec.observations[i].origin_asn, rec.timestamps[i])
      BY <1>6, <3>1, RouteAt
    <3>5. QED
      BY <1>6, <2>2, <3>1, <3>2, <3>3, <3>4
  <2>3. CASE q # peer_id /\ q \notin PeersIn(rec)
    BY <1>7, <1>8, <2>3, NoRouteAt
  <2>4. QED
    BY <2>1, <2>2, <2>3
<1>10. QED
  BY <1>7, <1>9 DEF Row, SetRoute

\* Packed removal of a peer's observation clears that peer's route, and the
\* timestamps move with the observations they belong to.
LEMMA SwapRemoveClearsRoute ==
    ASSUME NEW rec, Packed(rec), NEW new,
           NEW index \in DOMAIN rec.observations,
           new.observations = SwapRemove(rec.observations, index),
           new.timestamps = SwapRemove(rec.timestamps, index)
    PROVE  /\ Packed(new)
           /\ Row(new) = SetRoute(Row(rec), rec.observations[index].peer_id, NoRoute)
<1> DEFINE n == Len(rec.observations)
           peer_id == rec.observations[index].peer_id
           From(i) == IF i = index THEN n ELSE i
<1>1. /\ rec.observations \in Seq(Obs) /\ rec.timestamps \in Seq(Timestamps)
      /\ n \in Nat \ {0} /\ index \in 1 .. n /\ Len(rec.timestamps) = n
      /\ index \in 1 .. Len(rec.timestamps)
      /\ DOMAIN rec.observations = 1 .. n
  BY DEF Packed
<1>2. /\ new.observations \in Seq(Obs) /\ new.timestamps \in Seq(Timestamps)
      /\ Len(new.observations) = n - 1 /\ Len(new.timestamps) = n - 1
  <2>1. new.observations \in Seq(Obs) /\ Len(new.observations) = n - 1
    BY <1>1, SwapRemoveSeq, SMTT(20)
  <2>2. /\ SwapRemove(rec.timestamps, index) \in Seq(Timestamps)
        /\ Len(SwapRemove(rec.timestamps, index)) = Len(rec.timestamps) - 1
    BY <1>1, SwapRemoveSeq
  <2>3. QED
    BY <1>1, <2>1, <2>2
<1>3. \A i \in 1 .. n - 1 : /\ new.observations[i] = rec.observations[From(i)]
                            /\ new.timestamps[i] = rec.timestamps[From(i)]
  <2>1. \A i \in 1 .. n - 1 : new.observations[i] = rec.observations[From(i)]
    BY <1>1, SwapRemoveSeq, SMTT(20)
  <2>2. \A i \in 1 .. n - 1 : new.timestamps[i] = rec.timestamps[From(i)]
    BY <1>1, SwapRemoveSeq, SMTT(20)
  <2>3. QED
    BY <2>1, <2>2
<1>4. DOMAIN new.observations = 1 .. n - 1
  BY <1>1, <1>2
<1>5. \A i \in 1 .. n - 1 : From(i) \in 1 .. n \ {index}
  BY <1>1
<1>6. \A i, j \in 1 .. n - 1 : From(i) = From(j) => i = j
  BY <1>1
<1>7. \A k \in 1 .. n \ {index} : \E i \in 1 .. n - 1 : From(i) = k
  <2>1. ASSUME NEW k \in 1 .. n \ {index}
        PROVE  \E i \in 1 .. n - 1 : From(i) = k
    <3>1. CASE k = n
      BY <1>1, <3>1
    <3>2. CASE k # n
      BY <1>1, <3>2
    <3>3. QED
      BY <3>1, <3>2
  <2>2. QED
    BY <2>1
<1> HIDE DEF From
<1>8. \A i, j \in 1 .. n : rec.observations[i].peer_id = rec.observations[j].peer_id => i = j
  BY <1>1 DEF Packed, OneObservationPerPeer
<1>9. Packed(new)
  <2>1. ASSUME NEW i \in 1 .. n - 1, NEW j \in 1 .. n - 1,
               new.observations[i].peer_id = new.observations[j].peer_id
        PROVE  i = j
    <3>1. /\ From(i) \in 1 .. n /\ From(j) \in 1 .. n
          /\ rec.observations[From(i)].peer_id = rec.observations[From(j)].peer_id
      BY <1>3, <1>5, <2>1
    <3>2. From(i) = From(j)
      BY <1>8, <3>1
    <3>3. QED
      BY <1>6, <3>2
  <2>2. OneObservationPerPeer(new)
    BY <1>4, <2>1 DEF OneObservationPerPeer
  <2>3. QED
    BY <1>2, <2>2 DEF Packed
<1>10. PeersIn(new) = PeersIn(rec) \ {peer_id}
  <2>1. ASSUME NEW q \in PeersIn(new)
        PROVE  q \in PeersIn(rec) \ {peer_id}
    <3>1. PICK i \in 1 .. n - 1 : new.observations[i].peer_id = q
      BY <1>4 DEF PeersIn
    <3>2. From(i) \in 1 .. n /\ From(i) # index /\ rec.observations[From(i)].peer_id = q
      BY <1>3, <1>5, <3>1
    <3>3. q # peer_id
      BY <1>1, <1>8, <3>2
    <3>4. QED
      BY <1>1, <3>2, <3>3 DEF PeersIn
  <2>2. ASSUME NEW q \in PeersIn(rec) \ {peer_id}
        PROVE  q \in PeersIn(new)
    <3>1. PICK k \in 1 .. n : rec.observations[k].peer_id = q
      BY <1>1 DEF PeersIn
    <3>2. PICK i \in 1 .. n - 1 : From(i) = k
      BY <1>7, <3>1
    <3>3. QED
      BY <1>3, <1>4, <3>1, <3>2 DEF PeersIn
  <2>3. QED
    BY <2>1, <2>2
<1>11. ASSUME NEW q \in PeerIds
       PROVE  RouteOfPeer(new, q) = IF q = peer_id THEN NoRoute ELSE RouteOfPeer(rec, q)
  <2>1. CASE q = peer_id
    BY <1>9, <1>10, <2>1, NoRouteAt
  <2>2. CASE q # peer_id /\ q \in PeersIn(rec)
    <3>1. PICK i \in 1 .. n - 1 : new.observations[i].peer_id = q
      BY <1>4, <1>10, <2>2 DEF PeersIn
    <3>2. /\ From(i) \in 1 .. n
          /\ new.observations[i] = rec.observations[From(i)]
          /\ new.timestamps[i] = rec.timestamps[From(i)]
      BY <1>3, <1>5, <3>1
    <3>3. RouteOfPeer(new, q) = Route(new.observations[i].origin_asn, new.timestamps[i])
      BY <1>4, <1>9, <3>1, RouteAt
    <3>4. RouteOfPeer(rec, rec.observations[From(i)].peer_id)
             = Route(rec.observations[From(i)].origin_asn, rec.timestamps[From(i)])
      BY <1>1, <3>2, RouteAt
    <3>5. QED
      BY <2>2, <3>1, <3>2, <3>3, <3>4
  <2>3. CASE q # peer_id /\ q \notin PeersIn(rec)
    BY <1>9, <1>10, <2>3, NoRouteAt
  <2>4. QED
    BY <2>1, <2>2, <2>3
<1>12. QED
  BY <1>9, <1>11 DEF Row, SetRoute

-----------------------------------------------------------------------------
(* The counters follow the row.                                            *)

Rows == [PeerIds -> Routes \cup {NoRoute}]

\* The counters are the numbers of voters, with no entry for an ASN without any.
Tally(counts, row) ==
    /\ Counters(counts)
    /\ DOMAIN counts \subseteq Asns
    /\ \A asn \in Asns : CountOf(counts, asn) = Cardinality(Table!Voters(row, asn))

\* Voters can be counted, for there are finitely many peers.
LEMMA VotersFinite ==
    ASSUME NEW row, NEW asn
    PROVE  /\ IsFiniteSet(Table!Voters(row, asn))
           /\ Cardinality(Table!Voters(row, asn)) \in Nat
           /\ Cardinality(Table!Voters(row, asn)) <= Cardinality(PeerIds)
           /\ Cardinality(Table!Voters(row, asn)) = 0 <=> Table!Voters(row, asn) = {}
<1>1. Table!Voters(row, asn) \in SUBSET PeerIds
  BY DEF Table!Voters
<1>2. QED
  BY <1>1, PeerIdsAssumption, FS_Subset, FS_CardinalityType, FS_EmptySet

\* A packed record is read as a row.
LEMMA RowType ==
    ASSUME NEW rec, Packed(rec)
    PROVE  Row(rec) \in Rows
<1>1. \A peer_id \in PeerIds : Row(rec)[peer_id] \in Routes \cup {NoRoute}
  BY RowHasRoute
<1>2. QED
  BY <1>1 DEF Row, Rows

\* A peer that announces an origin it did not have adds one voter.
LEMMA IncrementTally ==
    ASSUME NEW row \in Rows, NEW counts, Tally(counts, row),
           NEW peer_id \in PeerIds, row[peer_id] = NoRoute,
           NEW asn \in Asns, NEW timestamp \in Timestamps
    PROVE  Tally(IncrementAsnCount(counts, asn),
                 SetRoute(row, peer_id, Route(asn, timestamp)))
<1> DEFINE new == SetRoute(row, peer_id, Route(asn, timestamp))
<1>1. Route(asn, timestamp) # NoRoute /\ Route(asn, timestamp).origin_asn = asn
  BY NoRouteAssumption DEF Route
<1>2. Table!Voters(new, asn) = Table!Voters(row, asn) \cup {peer_id}
  BY <1>1 DEF Table!Voters, Rows, SetRoute
<1>3. \A other \in Asns : other # asn => Table!Voters(new, other) = Table!Voters(row, other)
  BY <1>1 DEF Table!Voters, Rows, SetRoute
<1>4. peer_id \notin Table!Voters(row, asn)
  BY DEF Table!Voters
<1>5. Cardinality(Table!Voters(new, asn)) = Cardinality(Table!Voters(row, asn)) + 1
  BY <1>2, <1>4, VotersFinite, FS_AddElement
<1>6. asn \in Nat /\ Counters(counts) /\ DOMAIN counts \subseteq Asns
  BY AsnsAssumption DEF Tally
<1>7. /\ Counters(IncrementAsnCount(counts, asn))
      /\ CountOf(IncrementAsnCount(counts, asn), asn) = CountOf(counts, asn) + 1
      /\ \A other : other # asn =>
            CountOf(IncrementAsnCount(counts, asn), other) = CountOf(counts, other)
      /\ DOMAIN IncrementAsnCount(counts, asn) = DOMAIN counts \cup {asn}
  BY <1>6, IncrementCounts
<1>8. QED
  BY <1>3, <1>5, <1>6, <1>7 DEF Tally

\* A peer that gives up its route takes one voter away.
LEMMA DecrementTally ==
    ASSUME NEW row \in Rows, NEW counts, Tally(counts, row),
           NEW peer_id \in PeerIds, row[peer_id] # NoRoute
    PROVE  /\ row[peer_id].origin_asn \in DOMAIN counts
           /\ Tally(DecrementAsnCount(counts, row[peer_id].origin_asn),
                    SetRoute(row, peer_id, NoRoute))
<1> DEFINE new == SetRoute(row, peer_id, NoRoute)
           asn == row[peer_id].origin_asn
<1>1. asn \in Asns
  BY DEF Rows, Routes
<1>2. peer_id \in Table!Voters(row, asn)
  BY DEF Table!Voters
<1>3. Table!Voters(new, asn) = Table!Voters(row, asn) \ {peer_id}
  BY DEF Table!Voters, Rows, SetRoute
<1>4. \A other \in Asns : other # asn => Table!Voters(new, other) = Table!Voters(row, other)
  BY DEF Table!Voters, Rows, SetRoute
<1>5. Cardinality(Table!Voters(new, asn)) = Cardinality(Table!Voters(row, asn)) - 1
  <2>1. IsFiniteSet(Table!Voters(row, asn))
    BY VotersFinite
  <2>2. Cardinality(Table!Voters(row, asn) \ {peer_id})
           = Cardinality(Table!Voters(row, asn)) - 1
    BY <1>2, <2>1, FS_RemoveElement
  <2>3. QED
    BY <1>3, <2>2
<1>6. /\ Counters(counts) /\ DOMAIN counts \subseteq Asns
      /\ CountOf(counts, asn) = Cardinality(Table!Voters(row, asn))
  BY <1>1 DEF Tally
<1>7. asn \in DOMAIN counts
  <2>1. CountOf(counts, asn) # 0
    BY <1>2, <1>6, VotersFinite
  <2>2. QED
    BY <2>1 DEF CountOf
<1> HIDE DEF asn, new
<1>8. /\ Counters(DecrementAsnCount(counts, asn))
      /\ CountOf(DecrementAsnCount(counts, asn), asn) = CountOf(counts, asn) - 1
      /\ \A other : other # asn =>
            CountOf(DecrementAsnCount(counts, asn), other) = CountOf(counts, other)
      /\ DOMAIN DecrementAsnCount(counts, asn) \subseteq DOMAIN counts
  BY <1>6, <1>7, DecrementCounts
<1>9. Tally(DecrementAsnCount(counts, asn), new)
  BY <1>4, <1>5, <1>6, <1>8 DEF Tally
<1>10. QED
  BY <1>7, <1>9 DEF asn, new

\* Tallied counters are the ones the record invariant speaks of.
LEMMA TallyIsCounters ==
    ASSUME NEW rec, Packed(rec), Counters(rec.asn_counts)
    PROVE  Tally(rec.asn_counts, Row(rec)) <=>
              DOMAIN rec.asn_counts \subseteq Asns /\ CountersAreTallies(rec)
<1> DEFINE counts == rec.asn_counts
<1>1. \A asn : Backers(rec, asn) = Table!Voters(Row(rec), asn)
  BY BackersAreVoters
<1>2. \A asn : asn \in ObservedOrigins(rec) <=> Backers(rec, asn) # {}
  BY DEF ObservedOrigins, Backers
<1>3. ObservedOrigins(rec) \subseteq Asns
  BY RouteAt DEF ObservedOrigins, Obs
<1>4. \A asn : asn \in DOMAIN counts <=> CountOf(counts, asn) # 0
  BY DEF Counters, CountOf
<1>5. \A asn \in DOMAIN counts : counts[asn] = CountOf(counts, asn)
  BY DEF CountOf
<1>6. \A asn : Cardinality(Backers(rec, asn)) = 0 <=> Backers(rec, asn) = {}
  BY <1>1, VotersFinite
<1>7. ASSUME Tally(counts, Row(rec))
      PROVE  DOMAIN counts \subseteq Asns /\ CountersAreTallies(rec)
  <2>1. DOMAIN counts \subseteq Asns
    BY <1>7 DEF Tally
  <2>2. \A asn \in Asns : CountOf(counts, asn) = Cardinality(Backers(rec, asn))
    BY <1>1, <1>7 DEF Tally
  <2>3. DOMAIN counts = ObservedOrigins(rec)
    BY <1>2, <1>3, <1>4, <1>6, <2>1, <2>2
  <2>4. QED
    BY <1>5, <2>1, <2>2, <2>3 DEF CountersAreTallies
<1>8. ASSUME DOMAIN counts \subseteq Asns, CountersAreTallies(rec)
      PROVE  Tally(counts, Row(rec))
  <2>1. \A asn \in Asns : CountOf(counts, asn) = Cardinality(Backers(rec, asn))
    BY <1>2, <1>5, <1>6, <1>8 DEF CountersAreTallies, CountOf
  <2>2. QED
    BY <1>1, <1>8, <2>1 DEF Tally
<1>9. QED
  BY <1>7, <1>8

-----------------------------------------------------------------------------
(* The selection follows the counters.                                     *)

\* Some ASN with a counter is best.
LEMMA TalliedBest ==
    ASSUME NEW row, NEW counts, Tally(counts, row), DOMAIN counts # {}
    PROVE  \E asn \in DOMAIN counts : IsBestOf(counts, asn)
<1>1. \A asn \in DOMAIN counts : counts[asn] <= Cardinality(PeerIds)
  BY VotersFinite DEF Tally, CountOf
<1>2. Cardinality(PeerIds) \in Nat
  BY PeerIdsAssumption, FS_CardinalityType
<1>3. QED
  BY <1>1, <1>2, BestExists DEF Tally

\* Everything about a record except its selection.
Core(rec) ==
    /\ Packed(rec)
    /\ rec \in [observations : Seq(Obs), timestamps : Seq(Timestamps),
                asn_counts : [DOMAIN rec.asn_counts -> Nat \ {0}],
                selected_asn : Nat, selected_count : Nat]
    /\ Tally(rec.asn_counts, Row(rec))

GoodRecord(rec) == Core(rec) /\ rec.observations # << >> /\ SelectionIsBest(rec)

\* The counters of a record are counters of ASNs.
LEMMA CoreCounters ==
    ASSUME NEW rec, Core(rec)
    PROVE  /\ Counters(rec.asn_counts)
           /\ DOMAIN rec.asn_counts \subseteq Asns
           /\ Asns \subseteq Nat
           /\ rec.selected_asn \in Nat /\ rec.selected_count \in Nat
BY AsnsAssumption DEF Core, Tally

\* Selecting an ASN with its counter touches neither the vectors nor the counters.
LEMMA SelectionKeepsCore ==
    ASSUME NEW rec, Core(rec), NEW asn \in DOMAIN rec.asn_counts,
           NEW new, new = WithSelection(rec, asn, rec.asn_counts[asn])
    PROVE  /\ Core(new)
           /\ Row(new) = Row(rec)
           /\ new.observations = rec.observations
           /\ new.timestamps = rec.timestamps
           /\ new.asn_counts = rec.asn_counts
           /\ new.selected_asn = asn
           /\ new.selected_count = rec.asn_counts[asn]
<1>0. asn \in Nat /\ rec.asn_counts[asn] \in Nat
  BY CoreCounters DEF Counters
<1>1. /\ new.observations = rec.observations
      /\ new.timestamps = rec.timestamps
      /\ new.asn_counts = rec.asn_counts
      /\ new.selected_asn = asn
      /\ new.selected_count = rec.asn_counts[asn]
      /\ new \in [observations : Seq(Obs), timestamps : Seq(Timestamps),
                  asn_counts : [DOMAIN new.asn_counts -> Nat \ {0}],
                  selected_asn : Nat, selected_count : Nat]
  BY <1>0 DEF WithSelection, Core
<1>2. Packed(new)
  BY <1>1 DEF Core, Packed, OneObservationPerPeer
<1>3. ASSUME NEW peer_id \in PeerIds
      PROVE  RouteOfPeer(new, peer_id) = RouteOfPeer(rec, peer_id)
  BY <1>1 DEF RouteOfPeer, IndexOfPeer, SelectInSeq
<1>4. Row(new) = Row(rec)
  BY <1>3 DEF Row
<1>5. Core(new)
  BY <1>1, <1>2, <1>4 DEF Core
<1>6. QED
  BY <1>1, <1>4, <1>5

\* Selecting the best ASN with its count makes the record good.
LEMMA SelectingBestIsGood ==
    ASSUME NEW rec, Core(rec), rec.observations # << >>,
           NEW asn \in DOMAIN rec.asn_counts, IsBestOf(rec.asn_counts, asn),
           NEW new, new = WithSelection(rec, asn, rec.asn_counts[asn])
    PROVE  GoodRecord(new) /\ Row(new) = Row(rec)
<1>1. /\ Core(new) /\ Row(new) = Row(rec)
      /\ new.observations = rec.observations
      /\ new.asn_counts = rec.asn_counts
      /\ new.selected_asn = asn
      /\ new.selected_count = rec.asn_counts[asn]
  BY SelectionKeepsCore
<1>2. SelectionIsBest(new)
  BY <1>1 DEF SelectionIsBest
<1>3. QED
  BY <1>1, <1>2 DEF GoodRecord

\* A rescan of a record with observations leaves a good record with the same row.
LEMMA RescanIsGood ==
    ASSUME NEW rec, Core(rec), rec.observations # << >>, DOMAIN rec.asn_counts # {}
    PROVE  GoodRecord(RecomputeSelected(rec)) /\ Row(RecomputeSelected(rec)) = Row(rec)
<1> DEFINE best == CHOOSE asn \in DOMAIN rec.asn_counts : IsBestOf(rec.asn_counts, asn)
<1>1. best \in DOMAIN rec.asn_counts /\ IsBestOf(rec.asn_counts, best)
  BY TalliedBest DEF Core
<1> HIDE DEF best
<1>2. RecomputeSelected(rec) = WithSelection(rec, best, rec.asn_counts[best])
  BY DEF RecomputeSelected, best
<1>3. QED
  BY <1>1, <1>2, SelectingBestIsGood

\* Where the selection already is best, the rescan changes nothing.
LEMMA RescanOfGoodRecord ==
    ASSUME NEW rec, GoodRecord(rec)
    PROVE  RecomputeSelected(rec) = rec
<1> DEFINE best == CHOOSE asn \in DOMAIN rec.asn_counts : IsBestOf(rec.asn_counts, asn)
<1>1. Core(rec) /\ SelectionIsBest(rec)
  BY DEF GoodRecord
<1>2. /\ rec.selected_asn \in DOMAIN rec.asn_counts
      /\ IsBestOf(rec.asn_counts, rec.selected_asn)
      /\ rec.selected_count = rec.asn_counts[rec.selected_asn]
  BY <1>1 DEF SelectionIsBest, IsBestOf
<1>3. IsBestOf(rec.asn_counts, best)
  BY <1>2
<1>4. best = rec.selected_asn
  BY <1>1, <1>2, <1>3, BestIsUnique, CoreCounters
<1> HIDE DEF best
<1>5. RecomputeSelected(rec) = WithSelection(rec, rec.selected_asn, rec.selected_count)
  BY <1>2, <1>4 DEF RecomputeSelected, best
<1>6. WithSelection(rec, rec.selected_asn, rec.selected_count) = rec
  BY <1>1 DEF WithSelection, Core
<1>7. QED
  BY <1>5, <1>6

\* Offering the selection to the ASN that has just gained a peer makes it best,
\* when it was best for the counters from before.
LEMMA OfferIsGood ==
    ASSUME NEW rec, Core(rec), rec.observations # << >>,
           NEW before, Counters(before), IsBestOf(before, rec.selected_asn),
           rec.selected_count = CountOf(before, rec.selected_asn),
           NEW asn \in Asns,
           CountOf(rec.asn_counts, asn) = CountOf(before, asn) + 1,
           \A other : other # asn => CountOf(rec.asn_counts, other) = CountOf(before, other)
    PROVE  GoodRecord(OfferSelection(rec, asn)) /\ Row(OfferSelection(rec, asn)) = Row(rec)
<1> DEFINE counts == rec.asn_counts
<1>1. /\ Counters(counts) /\ asn \in Nat
      /\ rec.selected_asn \in Nat /\ rec.selected_count \in Nat
  BY CoreCounters
<1>2. asn \in DOMAIN counts /\ counts[asn] = CountOf(counts, asn) /\ counts[asn] \in Nat
  <2>1. CountOf(counts, asn) > 0
    BY CountersByCountOf
  <2>2. QED
    BY <1>1, <2>1, CountersByCountOf
<1>3. CASE IsBetterSelection(asn, counts[asn], rec.selected_asn, rec.selected_count)
  <2>1. IsBestOf(counts, asn)
    BY <1>1, <1>2, <1>3, WinnerAfterIncrement
  <2>2. OfferSelection(rec, asn) = WithSelection(rec, asn, counts[asn])
    BY <1>3 DEF OfferSelection
  <2>3. QED
    BY <1>2, <2>1, <2>2, SelectingBestIsGood
<1>4. CASE ~ IsBetterSelection(asn, counts[asn], rec.selected_asn, rec.selected_count)
  <2>1. /\ IsBestOf(counts, rec.selected_asn)
        /\ CountOf(counts, rec.selected_asn) = CountOf(before, rec.selected_asn)
    BY <1>1, <1>2, <1>4, WinnerAfterIncrement
  <2>2. OfferSelection(rec, asn) = rec
    BY <1>4 DEF OfferSelection
  <2>3. rec.selected_count = counts[rec.selected_asn]
    BY <2>1 DEF IsBestOf, CountOf
  <2>4. QED
    BY <2>1, <2>2, <2>3 DEF GoodRecord, SelectionIsBest
<1>5. QED
  BY <1>3, <1>4

-----------------------------------------------------------------------------
(* What each operation makes of a record.                                  *)

\* The record an update starts from: a stored one, or the one by_prefix[prefix] creates.
StartRecord(rec) == GoodRecord(rec) \/ rec = NewRecord

\* The empty record that operator[] creates.
LEMMA NewRecordIsCore ==
    /\ Core(NewRecord)
    /\ PeersIn(NewRecord) = {}
    /\ Row(NewRecord) = [peer_id \in PeerIds |-> NoRoute]
<1>1. /\ NewRecord.observations = << >> /\ NewRecord.timestamps = << >>
      /\ NewRecord.asn_counts = EmptyMap
  BY DEF NewRecord
<1>2. Packed(NewRecord) /\ PeersIn(NewRecord) = {}
  BY <1>1 DEF Packed, OneObservationPerPeer, PeersIn
<1>3. Row(NewRecord) = [peer_id \in PeerIds |-> NoRoute]
  BY <1>2, NoRouteAt DEF Row
<1>4. Counters(EmptyMap) /\ DOMAIN EmptyMap = {} /\ \A asn : CountOf(EmptyMap, asn) = 0
  BY DEF Counters, EmptyMap, CountOf
<1>5. \A asn : Table!Voters(Row(NewRecord), asn) = {}
  BY <1>3 DEF Table!Voters
<1>6. Tally(NewRecord.asn_counts, Row(NewRecord))
  BY <1>1, <1>4, <1>5, FS_EmptySet DEF Tally
<1>7. NewRecord \in [observations : Seq(Obs), timestamps : Seq(Timestamps),
                     asn_counts : [DOMAIN NewRecord.asn_counts -> Nat \ {0}],
                     selected_asn : Nat, selected_count : Nat]
  BY DEF NewRecord, EmptyMap
<1>8. QED
  BY <1>2, <1>3, <1>6, <1>7 DEF Core

\* What an update starts from, a good record or the empty one.
LEMMA StartRecordFacts ==
    ASSUME NEW rec, StartRecord(rec)
    PROVE  /\ Core(rec) /\ Packed(rec) /\ Row(rec) \in Rows
           /\ \A i \in DOMAIN rec.observations : GoodRecord(rec)
<1>1. Core(rec) /\ Packed(rec)
  BY NewRecordIsCore DEF StartRecord, GoodRecord, Core
<1>2. \A i \in DOMAIN rec.observations : GoodRecord(rec)
  BY DEF StartRecord, NewRecord
<1>3. QED
  BY <1>1, <1>2, RowType

\* A good record has voters, counters and a positive selected count.
LEMMA GoodRecordFacts ==
    ASSUME NEW rec, GoodRecord(rec)
    PROVE  /\ rec.selected_asn \in DOMAIN rec.asn_counts
           /\ rec.selected_asn \in Asns
           /\ rec.selected_count \in Nat \ {0}
           /\ rec.selected_count = CountOf(rec.asn_counts, rec.selected_asn)
           /\ IsBestOf(rec.asn_counts, rec.selected_asn)
BY CoreCounters DEF GoodRecord, SelectionIsBest, IsBestOf, Counters, CountOf

\* A repeated announcement moves the timestamp of one route.
LEMMA RefreshIsGood ==
    ASSUME NEW rec, StartRecord(rec), NEW index \in DOMAIN rec.observations,
           NEW timestamp \in Timestamps,
           NEW new, new = Refresh(rec, index, timestamp)
    PROVE  LET peer_id == rec.observations[index].peer_id
               asn == rec.observations[index].origin_asn
           IN  /\ GoodRecord(new)
               /\ Row(new) = SetRoute(Row(rec), peer_id, Route(asn, timestamp))
               /\ new.selected_asn = rec.selected_asn
<1> DEFINE peer_id == rec.observations[index].peer_id
           asn == rec.observations[index].origin_asn
<1>1. GoodRecord(rec) /\ Core(rec) /\ Packed(rec)
  BY StartRecordFacts
<1>2. rec.observations[index] \in Obs /\ rec.observations \in Seq(Obs)
  BY <1>1, RouteAt DEF Packed
<1>3. /\ new.timestamps = Stamped(rec.timestamps, index, timestamp)
      /\ new.observations = rec.observations
      /\ new.asn_counts = rec.asn_counts
      /\ new.selected_asn = rec.selected_asn
      /\ new.selected_count = rec.selected_count
  BY <1>1 DEF Refresh, Core, Stamped
<1>3a. new \in [observations : Seq(Obs), timestamps : Seq(Timestamps),
                asn_counts : [DOMAIN new.asn_counts -> Nat \ {0}],
                selected_asn : Nat, selected_count : Nat]
  <2>1. Stamped(rec.timestamps, index, timestamp) \in Seq(Timestamps)
    BY <1>1 DEF Packed, Stamped
  <2>2. new = [rec EXCEPT !.timestamps = Stamped(rec.timestamps, index, timestamp)]
    BY <1>1 DEF Refresh, Core, Stamped
  <2>3. QED
    BY <1>1, <2>1, <2>2 DEF Core
<1>4. rec.observations = Recast(rec.observations, index, asn)
  BY <1>2 DEF Obs, Recast
<1>5. Packed(new) /\ Row(new) = SetRoute(Row(rec), peer_id, Route(asn, timestamp))
  <2>1. /\ new.observations = Recast(rec.observations, index, asn)
        /\ new.timestamps = Stamped(rec.timestamps, index, timestamp)
        /\ asn \in Asns
    BY <1>2, <1>3, <1>4 DEF Obs
  <2>2. QED
    BY <1>1, <2>1, OverwriteSetsRoute
<1>6. Row(rec) \in Rows /\ Row(rec)[peer_id] = Route(asn, rec.timestamps[index])
  BY <1>1, <1>2, RowType, RouteAt DEF Row, Obs
<1>7. \A x : Table!Voters(Row(new), x) = Table!Voters(Row(rec), x)
  <2>1. Route(asn, timestamp) # NoRoute /\ Route(asn, rec.timestamps[index]) # NoRoute
    BY <1>1, <1>2, RouteAt, NoRouteAssumption DEF Route, Obs
  <2>2. QED
    BY <1>5, <1>6, <2>1 DEF Rows, Route, SetRoute, Table!Voters
<1>8. Tally(new.asn_counts, Row(new))
  BY <1>1, <1>3, <1>7 DEF Core, Tally
<1>9. Core(new)
  BY <1>3a, <1>5, <1>8 DEF Core
<1>10. SelectionIsBest(new) /\ new.observations # << >>
  BY <1>1, <1>3 DEF GoodRecord, SelectionIsBest
<1>11. QED
  BY <1>3, <1>5, <1>9, <1>10 DEF GoodRecord

\* A record with an observation has a counter.
LEMMA CoreHasCounters ==
    ASSUME NEW rec, Core(rec), rec.observations # << >>
    PROVE  DOMAIN rec.asn_counts # {}
<1>1. Packed(rec) /\ Counters(rec.asn_counts) /\ Tally(rec.asn_counts, Row(rec))
  BY DEF Core, Tally
<1>2. DOMAIN rec.asn_counts = ObservedOrigins(rec)
  BY <1>1, TallyIsCounters DEF CountersAreTallies
<1>3. 1 \in DOMAIN rec.observations
  BY <1>1 DEF Packed
<1>4. QED
  BY <1>2, <1>3 DEF ObservedOrigins

\* Replacing the vectors and the counters leaves the selection as it was.
LEMMA ReplaceVectors ==
    ASSUME NEW rec, Core(rec),
           NEW o \in Seq(Obs), NEW t \in Seq(Timestamps),
           NEW c, c \in [DOMAIN c -> Nat \ {0}],
           NEW new, new = Replaced(rec, o, t, c)
    PROVE  /\ new.observations = o /\ new.timestamps = t /\ new.asn_counts = c
           /\ new.selected_asn = rec.selected_asn /\ new.selected_count = rec.selected_count
           /\ new \in [observations : Seq(Obs), timestamps : Seq(Timestamps),
                        asn_counts : [DOMAIN new.asn_counts -> Nat \ {0}],
                        selected_asn : Nat, selected_count : Nat]
BY DEF Core, Replaced

\* The first announcement of a peer adds its route.
LEMMA AddIsGood ==
    ASSUME NEW rec, StartRecord(rec),
           NEW peer_id \in PeerIds, peer_id \notin PeersIn(rec),
           NEW asn \in Asns, NEW timestamp \in Timestamps,
           NEW new, new = AddObservation(rec, peer_id, asn, timestamp)
    PROVE  /\ GoodRecord(new)
           /\ Row(new) = SetRoute(Row(rec), peer_id, Route(asn, timestamp))
<1> DEFINE obs == Observed(peer_id, asn)
           added == Replaced(rec, Appended(rec.observations, obs),
                             Appended(rec.timestamps, timestamp),
                             IncrementAsnCount(rec.asn_counts, asn))
<1>1. Core(rec) /\ Packed(rec) /\ Row(rec) \in Rows /\ asn \in Nat
      /\ Counters(rec.asn_counts)
  BY StartRecordFacts, CoreCounters, AsnsAssumption
<1>1a. /\ Appended(rec.observations, obs) \in Seq(Obs)
       /\ Appended(rec.timestamps, timestamp) \in Seq(Timestamps)
       /\ IncrementAsnCount(rec.asn_counts, asn)
             \in [DOMAIN IncrementAsnCount(rec.asn_counts, asn) -> Nat \ {0}]
  <2>1. Counters(IncrementAsnCount(rec.asn_counts, asn))
    BY <1>1, IncrementCounts
  <2>2. QED
    BY <1>1, <2>1 DEF Packed, Obs, Observed, Appended, Counters
<1>2. /\ added.observations = Appended(rec.observations, obs)
      /\ added.timestamps = Appended(rec.timestamps, timestamp)
      /\ added.asn_counts = IncrementAsnCount(rec.asn_counts, asn)
      /\ added.selected_asn = rec.selected_asn
      /\ added.selected_count = rec.selected_count
      /\ added \in [observations : Seq(Obs), timestamps : Seq(Timestamps),
                    asn_counts : [DOMAIN added.asn_counts -> Nat \ {0}],
                    selected_asn : Nat, selected_count : Nat]
  BY <1>1, <1>1a, ReplaceVectors
<1>2a. new = IF rec.selected_count = 0
             THEN WithSelection(added, asn, added.asn_counts[asn])
             ELSE OfferSelection(added, asn)
  BY DEF AddObservation, Observed, Appended, Replaced
<1> HIDE DEF added
<1>3. Packed(added) /\ Row(added) = SetRoute(Row(rec), peer_id, Route(asn, timestamp))
  BY <1>1, <1>2, AppendSetsRoute
<1>4. Tally(added.asn_counts, Row(added))
  <2>1. Row(rec)[peer_id] = NoRoute
    BY <1>1, RowHasRoute
  <2>2. QED
    BY <1>1, <1>2, <1>3, <2>1, IncrementTally DEF Core
<1>7. added.observations # << >>
  BY <1>1, <1>2 DEF Packed, Appended
<1>8. Core(added)
  BY <1>2, <1>3, <1>4 DEF Core
<1>9. /\ CountOf(added.asn_counts, asn) = CountOf(rec.asn_counts, asn) + 1
      /\ \A other : other # asn =>
            CountOf(added.asn_counts, other) = CountOf(rec.asn_counts, other)
      /\ DOMAIN added.asn_counts = DOMAIN rec.asn_counts \cup {asn}
  <2>1. /\ CountOf(IncrementAsnCount(rec.asn_counts, asn), asn) = CountOf(rec.asn_counts, asn) + 1
        /\ \A other : other # asn =>
              CountOf(IncrementAsnCount(rec.asn_counts, asn), other) = CountOf(rec.asn_counts, other)
        /\ DOMAIN IncrementAsnCount(rec.asn_counts, asn) = DOMAIN rec.asn_counts \cup {asn}
    BY <1>1, IncrementCounts
  <2>2. QED
    BY <1>2, <2>1
<1>10. CASE rec.selected_count = 0
  <2>1. rec = NewRecord
    BY <1>10, GoodRecordFacts DEF StartRecord
  <2>2. DOMAIN added.asn_counts = {asn}
    BY <1>9, <2>1 DEF NewRecord, EmptyMap
  <2>3. IsBestOf(added.asn_counts, asn)
    BY <2>2 DEF IsBestOf
  <2>4. GoodRecord(new) /\ Row(new) = Row(added)
    BY <1>2a, <1>7, <1>8, <1>10, <2>2, <2>3, SelectingBestIsGood
  <2>5. QED
    BY <1>3, <2>4
<1>11. CASE rec.selected_count # 0
  <2>1. GoodRecord(rec)
    BY <1>11 DEF StartRecord, NewRecord
  <2>2. /\ IsBestOf(rec.asn_counts, added.selected_asn)
        /\ added.selected_count = CountOf(rec.asn_counts, added.selected_asn)
    BY <1>2, <2>1, GoodRecordFacts
  <2>3. GoodRecord(OfferSelection(added, asn)) /\ Row(OfferSelection(added, asn)) = Row(added)
    BY <1>1, <1>7, <1>8, <1>9, <2>2, OfferIsGood
  <2>4. QED
    BY <1>2a, <1>3, <1>11, <2>3
<1>12. QED
  BY <1>10, <1>11

\* Taking the selected ASN's rivals one peer less keeps the selection good.
LEMMA LoserLosesPeer ==
    ASSUME NEW rec, GoodRecord(rec), NEW asn \in DOMAIN rec.asn_counts, asn # rec.selected_asn,
           NEW counts, counts = DecrementAsnCount(rec.asn_counts, asn)
    PROVE  /\ IsBestOf(counts, rec.selected_asn)
           /\ rec.selected_count = CountOf(counts, rec.selected_asn)
<1>1. Counters(rec.asn_counts) /\ rec.selected_asn \in Nat
  BY CoreCounters DEF GoodRecord
<1>2. /\ Counters(counts)
      /\ CountOf(counts, asn) = CountOf(rec.asn_counts, asn) - 1
      /\ \A other : other # asn => CountOf(counts, other) = CountOf(rec.asn_counts, other)
  BY <1>1, DecrementCounts
<1>3. CountOf(counts, asn) <= CountOf(rec.asn_counts, asn)
  BY <1>1, <1>2, CountersByCountOf
<1>4. /\ IsBestOf(rec.asn_counts, rec.selected_asn)
      /\ rec.selected_count = CountOf(rec.asn_counts, rec.selected_asn)
  BY GoodRecordFacts
<1>5. QED
  BY <1>1, <1>2, <1>3, <1>4, LoserShrinks

\* An announcement with another origin replaces one route, also when both origins
\* are the same.
LEMMA ChangeIsGood ==
    ASSUME NEW rec, StartRecord(rec), NEW index \in DOMAIN rec.observations,
           NEW asn \in Asns, NEW timestamp \in Timestamps,
           NEW new, new = ChangeOrigin(rec, index, asn, timestamp)
    PROVE  /\ GoodRecord(new)
           /\ Row(new) = SetRoute(Row(rec), rec.observations[index].peer_id,
                                  Route(asn, timestamp))
<1> DEFINE peer_id == rec.observations[index].peer_id
           old_asn == rec.observations[index].origin_asn
           reduced == DecrementAsnCount(rec.asn_counts, old_asn)
           counts == IncrementAsnCount(reduced, asn)
           row == SetRoute(Row(rec), peer_id, NoRoute)
           changed == Replaced(rec, Recast(rec.observations, index, asn),
                               Stamped(rec.timestamps, index, timestamp), counts)
<1>1. /\ GoodRecord(rec) /\ Core(rec) /\ Packed(rec) /\ Row(rec) \in Rows
      /\ Counters(rec.asn_counts) /\ Tally(rec.asn_counts, Row(rec)) /\ asn \in Nat
      /\ rec.observations \in Seq(Obs) /\ rec.timestamps \in Seq(Timestamps)
  BY StartRecordFacts, CoreCounters, AsnsAssumption DEF Core, Packed
<1>2. /\ rec.observations[index] \in Obs /\ peer_id \in PeerIds
      /\ Row(rec)[peer_id] # NoRoute /\ Row(rec)[peer_id].origin_asn = old_asn
  <2>1. /\ rec.observations[index] \in Obs /\ rec.timestamps[index] \in Timestamps
        /\ RouteOfPeer(rec, peer_id) = Route(old_asn, rec.timestamps[index])
    BY <1>1, RouteAt
  <2>2. QED
    BY <2>1, NoRouteAssumption DEF Obs, Row, Route
<1>3. old_asn \in DOMAIN rec.asn_counts /\ Tally(reduced, row)
  BY <1>1, <1>2, DecrementTally
<1>4. row \in Rows /\ row[peer_id] = NoRoute
  BY <1>1, <1>2 DEF Rows, SetRoute
<1>5. Tally(counts, SetRoute(row, peer_id, Route(asn, timestamp)))
  BY <1>2, <1>3, <1>4, IncrementTally
<1>6. SetRoute(row, peer_id, Route(asn, timestamp))
         = SetRoute(Row(rec), peer_id, Route(asn, timestamp))
  BY <1>1, <1>2 DEF Rows, SetRoute
<1>7. /\ Recast(rec.observations, index, asn) \in Seq(Obs)
      /\ Stamped(rec.timestamps, index, timestamp) \in Seq(Timestamps)
      /\ counts \in [DOMAIN counts -> Nat \ {0}]
  <2>1. [rec.observations[index] EXCEPT !.origin_asn = asn] \in Obs
    BY <1>2 DEF Obs
  <2>2. Recast(rec.observations, index, asn) \in Seq(Obs)
    BY <1>1, <2>1 DEF Recast
  <2>3. Stamped(rec.timestamps, index, timestamp) \in Seq(Timestamps)
    BY <1>1 DEF Stamped, Packed
  <2>4. counts \in [DOMAIN counts -> Nat \ {0}]
    BY <1>5 DEF Tally, Counters
  <2>5. QED
    BY <2>2, <2>3, <2>4
<1>8. /\ Counters(counts) /\ Counters(reduced)
      /\ CountOf(counts, asn) = CountOf(reduced, asn) + 1
      /\ \A other : other # asn => CountOf(counts, other) = CountOf(reduced, other)
  BY <1>1, <1>3, IncrementCounts DEF Tally
<1>9. new = IF old_asn = rec.selected_asn
            THEN RecomputeSelected(changed)
            ELSE OfferSelection(changed, asn)
  BY <1>1 DEF ChangeOrigin, Replaced, Recast, Stamped, Core
<1> HIDE DEF reduced, counts, row
<1>10. /\ changed.observations = Recast(rec.observations, index, asn)
       /\ changed.timestamps = Stamped(rec.timestamps, index, timestamp)
       /\ changed.asn_counts = counts
       /\ changed.selected_asn = rec.selected_asn
       /\ changed.selected_count = rec.selected_count
       /\ changed \in [observations : Seq(Obs), timestamps : Seq(Timestamps),
                       asn_counts : [DOMAIN changed.asn_counts -> Nat \ {0}],
                       selected_asn : Nat, selected_count : Nat]
  BY <1>1, <1>7, ReplaceVectors
<1> HIDE DEF changed
<1>11. Packed(changed) /\ Row(changed) = SetRoute(Row(rec), peer_id, Route(asn, timestamp))
  <2>1. /\ Packed(rec) /\ changed.observations = Recast(rec.observations, index, asn)
        /\ changed.timestamps = Stamped(rec.timestamps, index, timestamp)
    BY <1>1, <1>10
  <2>2. QED
    BY <2>1, OverwriteSetsRoute, SMTT(20)
<1>12. Core(changed)
  BY <1>5, <1>6, <1>10, <1>11 DEF Core
<1>13. changed.observations # << >>
  BY <1>1, <1>10 DEF Recast
<1>14. CASE old_asn = rec.selected_asn
  BY <1>9, <1>11, <1>12, <1>13, <1>14, CoreHasCounters, RescanIsGood
<1>15. CASE old_asn # rec.selected_asn
  <2>1. /\ IsBestOf(reduced, changed.selected_asn)
        /\ changed.selected_count = CountOf(reduced, changed.selected_asn)
    BY <1>1, <1>3, <1>10, <1>15, LoserLosesPeer DEF reduced
  <2>2. /\ CountOf(changed.asn_counts, asn) = CountOf(reduced, asn) + 1
        /\ \A other : other # asn =>
              CountOf(changed.asn_counts, other) = CountOf(reduced, other)
    BY <1>8, <1>10
  <2>3. GoodRecord(OfferSelection(changed, asn)) /\ Row(OfferSelection(changed, asn)) = Row(changed)
    BY <1>8, <1>12, <1>13, <2>1, <2>2, OfferIsGood
  <2>4. QED
    BY <1>9, <1>11, <1>15, <2>3
<1>16. QED
  BY <1>14, <1>15

\* A withdrawal removes one route, and with the last one the record.
LEMMA RemoveIsGood ==
    ASSUME NEW rec, StartRecord(rec), NEW index \in DOMAIN rec.observations,
           NEW new, new = RemoveObservation(rec, index)
    PROVE  /\ new.observations # << >> => GoodRecord(new)
           /\ Row(new) = SetRoute(Row(rec), rec.observations[index].peer_id, NoRoute)
           /\ new.observations = << >> => Row(new) = Row(NewRecord)
<1> DEFINE peer_id == rec.observations[index].peer_id
           old_asn == rec.observations[index].origin_asn
           counts == DecrementAsnCount(rec.asn_counts, old_asn)
           removed == Replaced(rec, SwapRemove(rec.observations, index),
                               SwapRemove(rec.timestamps, index), counts)
<1>1. /\ GoodRecord(rec) /\ Core(rec) /\ Packed(rec) /\ Row(rec) \in Rows
      /\ Counters(rec.asn_counts) /\ Tally(rec.asn_counts, Row(rec))
      /\ rec.observations \in Seq(Obs) /\ rec.timestamps \in Seq(Timestamps)
      /\ index \in 1 .. Len(rec.observations) /\ index \in 1 .. Len(rec.timestamps)
  BY StartRecordFacts, CoreCounters DEF Core, Packed
<1>2. /\ rec.observations[index] \in Obs /\ peer_id \in PeerIds
      /\ Row(rec)[peer_id] # NoRoute /\ Row(rec)[peer_id].origin_asn = old_asn
  <2>1. /\ rec.observations[index] \in Obs /\ rec.timestamps[index] \in Timestamps
        /\ RouteOfPeer(rec, peer_id) = Route(old_asn, rec.timestamps[index])
    BY <1>1, RouteAt
  <2>2. QED
    BY <2>1, NoRouteAssumption DEF Obs, Row, Route
<1>3. old_asn \in DOMAIN rec.asn_counts /\ Tally(counts, SetRoute(Row(rec), peer_id, NoRoute))
  BY <1>1, <1>2, DecrementTally
<1>4. /\ SwapRemove(rec.observations, index) \in Seq(Obs)
      /\ SwapRemove(rec.timestamps, index) \in Seq(Timestamps)
      /\ counts \in [DOMAIN counts -> Nat \ {0}]
  <2>1. SwapRemove(rec.observations, index) \in Seq(Obs)
    BY <1>1, SwapRemoveSeq
  <2>2. SwapRemove(rec.timestamps, index) \in Seq(Timestamps)
    BY <1>1, SwapRemoveSeq
  <2>3. counts \in [DOMAIN counts -> Nat \ {0}]
    BY <1>3 DEF Tally, Counters
  <2>4. QED
    BY <2>1, <2>2, <2>3
<1>5. new = IF removed.observations # << >> /\ old_asn = rec.selected_asn
            THEN RecomputeSelected(removed)
            ELSE removed
  BY DEF RemoveObservation, Replaced
<1> HIDE DEF counts
<1>6. /\ removed.observations = SwapRemove(rec.observations, index)
      /\ removed.timestamps = SwapRemove(rec.timestamps, index)
      /\ removed.asn_counts = counts
      /\ removed.selected_asn = rec.selected_asn
      /\ removed.selected_count = rec.selected_count
      /\ removed \in [observations : Seq(Obs), timestamps : Seq(Timestamps),
                      asn_counts : [DOMAIN removed.asn_counts -> Nat \ {0}],
                      selected_asn : Nat, selected_count : Nat]
  BY <1>1, <1>4, ReplaceVectors
<1> HIDE DEF removed
<1>7. Packed(removed) /\ Row(removed) = SetRoute(Row(rec), peer_id, NoRoute)
  BY <1>1, <1>6, SwapRemoveClearsRoute
<1>8. Core(removed)
  BY <1>3, <1>6, <1>7 DEF Core
<1>9. CASE removed.observations = << >>
  <2>1. new = removed
    BY <1>5, <1>9
  <2>2. PeersIn(removed) = {}
    BY <1>9 DEF PeersIn
  <2>3. Row(removed) = Row(NewRecord)
    BY <1>7, <2>2, NewRecordIsCore, NoRouteAt DEF Row
  <2>4. QED
    BY <1>7, <1>9, <2>1, <2>3
<1>10. CASE removed.observations # << >> /\ old_asn = rec.selected_asn
  <2>1. GoodRecord(new) /\ Row(new) = Row(removed)
    BY <1>5, <1>8, <1>10, CoreHasCounters, RescanIsGood
  <2>2. QED
    BY <1>7, <2>1 DEF GoodRecord
<1>11. CASE removed.observations # << >> /\ old_asn # rec.selected_asn
  <2>1. new = removed
    BY <1>5, <1>11
  <2>2. /\ IsBestOf(counts, rec.selected_asn)
        /\ rec.selected_count = CountOf(counts, rec.selected_asn)
    BY <1>1, <1>3, <1>11, LoserLosesPeer DEF counts
  <2>3. SelectionIsBest(removed)
    BY <1>6, <2>2 DEF SelectionIsBest, IsBestOf, CountOf
  <2>4. QED
    BY <1>7, <1>8, <1>11, <2>1, <2>3 DEF GoodRecord
<1>12. QED
  BY <1>9, <1>10, <1>11

-----------------------------------------------------------------------------
(* The invariant.                                                          *)

IInv == TypeOK /\ RecordsCoherent /\ SelectionsBest /\ AggregatedInSync

\* A good record is what the parts of the invariant say of one record.
LEMMA GoodRecordMeaning ==
    ASSUME NEW rec
    PROVE  GoodRecord(rec) <=>
              /\ RecordTypeOK(rec)
              /\ rec.observations # << >>
              /\ Len(rec.timestamps) = Len(rec.observations)
              /\ OneObservationPerPeer(rec)
              /\ CountersAreTallies(rec)
              /\ SelectionIsBest(rec)
<1>1. ASSUME GoodRecord(rec)
      PROVE  /\ RecordTypeOK(rec)
             /\ rec.observations # << >>
             /\ Len(rec.timestamps) = Len(rec.observations)
             /\ OneObservationPerPeer(rec)
             /\ CountersAreTallies(rec)
             /\ SelectionIsBest(rec)
  <2>1. Core(rec) /\ Packed(rec) /\ Counters(rec.asn_counts)
    BY <1>1, CoreCounters DEF GoodRecord, Core
  <2>2. rec.selected_asn \in Asns /\ rec.selected_count \in Nat \ {0}
    BY <1>1, GoodRecordFacts
  <2>3. DOMAIN rec.asn_counts \subseteq Asns
    BY <2>1, CoreCounters
  <2>4. RecordTypeOK(rec)
    BY <2>1, <2>2, <2>3 DEF RecordTypeOK, Core, Obs
  <2>5. CountersAreTallies(rec)
    BY <2>1, TallyIsCounters DEF Core
  <2>6. QED
    BY <1>1, <2>1, <2>4, <2>5 DEF GoodRecord, Packed
<1>2. ASSUME RecordTypeOK(rec),
             rec.observations # << >>,
             Len(rec.timestamps) = Len(rec.observations),
             OneObservationPerPeer(rec),
             CountersAreTallies(rec),
             SelectionIsBest(rec)
      PROVE  GoodRecord(rec)
  <2>1. Packed(rec)
    BY <1>2 DEF RecordTypeOK, Packed, Obs
  <2>2. Counters(rec.asn_counts) /\ DOMAIN rec.asn_counts \subseteq Asns
    BY <1>2, AsnsAssumption DEF RecordTypeOK, Counters
  <2>3. Tally(rec.asn_counts, Row(rec))
    BY <1>2, <2>1, <2>2, TallyIsCounters
  <2>4. rec \in [observations : Seq(Obs), timestamps : Seq(Timestamps),
                 asn_counts : [DOMAIN rec.asn_counts -> Nat \ {0}],
                 selected_asn : Nat, selected_count : Nat]
    BY <1>2, AsnsAssumption DEF RecordTypeOK, Obs
  <2>5. QED
    BY <1>2, <2>1, <2>3, <2>4 DEF GoodRecord, Core
<1>3. QED
  BY <1>1, <1>2

GoodState(records, export) ==
    /\ DOMAIN records \subseteq Prefix
    /\ records = [prefix \in DOMAIN records |-> records[prefix]]
    /\ \A prefix \in DOMAIN records : GoodRecord(records[prefix])
    /\ DOMAIN export = DOMAIN records
    /\ export = [prefix \in DOMAIN records |-> records[prefix].selected_asn]

\* The invariant says that every record is good and exported.
LEMMA InvariantMeaning == IInv <=> GoodState(by_prefix, aggregated)
<1>1. ASSUME IInv
      PROVE  GoodState(by_prefix, aggregated)
  <2>1. \A prefix \in DOMAIN by_prefix : GoodRecord(by_prefix[prefix])
    BY <1>1, GoodRecordMeaning DEF IInv, TypeOK, RecordsCoherent, SelectionsBest
  <2>2. QED
    BY <1>1, <2>1 DEF IInv, TypeOK, AggregatedInSync, GoodState
<1>2. ASSUME GoodState(by_prefix, aggregated)
      PROVE  IInv
  <2>1. \A prefix \in DOMAIN by_prefix :
           /\ RecordTypeOK(by_prefix[prefix])
           /\ by_prefix[prefix].observations # << >>
           /\ Len(by_prefix[prefix].timestamps) = Len(by_prefix[prefix].observations)
           /\ OneObservationPerPeer(by_prefix[prefix])
           /\ CountersAreTallies(by_prefix[prefix])
           /\ SelectionIsBest(by_prefix[prefix])
    BY <1>2, GoodRecordMeaning DEF GoodState
  <2>2. \A prefix \in DOMAIN by_prefix : by_prefix[prefix].selected_asn \in Asns
    BY <1>2, GoodRecordFacts DEF GoodState
  <2>3. TypeOK
    BY <1>2, <2>1, <2>2 DEF GoodState, TypeOK
  <2>4. RecordsCoherent
    BY <2>1 DEF RecordsCoherent
  <2>5. SelectionsBest
    BY <2>1 DEF SelectionsBest
  <2>6. AggregatedInSync
    BY <1>2 DEF GoodState, AggregatedInSync
  <2>7. QED
    BY <2>3, <2>4, <2>5, <2>6 DEF IInv
<1>3. QED
  BY <1>1, <1>2

\* The same after a step.
LEMMA InvariantMeaningPrimed == IInv' <=> GoodState(by_prefix', aggregated')
<1>1. (IInv <=> GoodState(by_prefix, aggregated))'
  BY InvariantMeaning, PTL
<1>2. QED
  BY <1>1

\* The record an update of a prefix starts from.
LEMMA RecordAtStarts ==
    ASSUME IInv, NEW prefix \in Prefix
    PROVE  StartRecord(RecordAt(prefix))
BY InvariantMeaning DEF GoodState, RecordAt, StartRecord

\* Storing a good record with its selection synced keeps the invariant.
LEMMA StoreKeepsInvariant ==
    ASSUME IInv, NEW prefix \in Prefix, NEW rec, GoodRecord(rec),
           by_prefix' = Put(by_prefix, prefix, rec),
           aggregated' = Put(aggregated, prefix, rec.selected_asn)
    PROVE  IInv'
<1>1. GoodState(by_prefix, aggregated)
  BY InvariantMeaning
<1>2. GoodState(by_prefix', aggregated')
  BY <1>1 DEF GoodState, Put
<1>3. QED
  BY <1>2, InvariantMeaningPrimed

\* The abstract table counts with the same Cardinality.
LEMMA SameCardinality == \A S : Table!Cardinality(S) = Cardinality(S)
BY DEF Cardinality, Table!Cardinality

\* The recounted export of the abstract table is the one the records give.
LEMMA ExportIsAggregated ==
    ASSUME IInv
    PROVE  aggregated = Table!Export(TableOfRecords)
<1>1. GoodState(by_prefix, aggregated)
  BY InvariantMeaning
<1>2. \A prefix \in Prefix : TableOfRecords[prefix] = Row(RecordAt(prefix))
  BY DEF TableOfRecords, Row
<1>3. ASSUME NEW prefix \in Prefix \ DOMAIN by_prefix
      PROVE  ~ Table!HasRoute(TableOfRecords[prefix])
  <2>1. TableOfRecords[prefix] = Row(NewRecord)
    BY <1>2 DEF RecordAt
  <2>2. QED
    BY <2>1, NewRecordIsCore DEF Table!HasRoute
<1>4. ASSUME NEW prefix \in DOMAIN by_prefix
      PROVE  /\ prefix \in Prefix
             /\ Table!HasRoute(TableOfRecords[prefix])
             /\ Table!Winner(TableOfRecords[prefix]) = aggregated[prefix]
  <2> DEFINE rec == by_prefix[prefix]
             row == Row(rec)
             counts == rec.asn_counts
  <2>1. /\ prefix \in Prefix /\ TableOfRecords[prefix] = row
        /\ GoodRecord(rec) /\ Core(rec) /\ Tally(counts, row) /\ Counters(counts)
        /\ aggregated[prefix] = rec.selected_asn
    BY <1>1, <1>2 DEF GoodState, RecordAt, GoodRecord, Core, Tally
  <2>2. /\ rec.selected_asn \in DOMAIN counts /\ rec.selected_asn \in Asns
        /\ IsBestOf(counts, rec.selected_asn)
    BY <2>1, GoodRecordFacts
  <2>3. \A asn \in Asns : /\ asn \in DOMAIN counts <=> Table!Voters(row, asn) # {}
                          /\ asn \in DOMAIN counts =>
                                counts[asn] = Cardinality(Table!Voters(row, asn))
    <3>1. \A asn \in Asns : CountOf(counts, asn) = Cardinality(Table!Voters(row, asn))
      BY <2>1 DEF Tally
    <3>2. \A asn : asn \in DOMAIN counts <=> CountOf(counts, asn) # 0
      BY <2>1 DEF Counters, CountOf
    <3>3. QED
      BY <3>1, <3>2, VotersFinite DEF CountOf
  <2>4. DOMAIN counts \subseteq Asns /\ Asns \subseteq Nat
    BY <2>1, CoreCounters
  <2> HIDE DEF row, counts
  <2>5. \A asn \in Asns : Table!IsWinner(row, asn) <=> IsBestOf(counts, asn)
    BY <2>3, <2>4, SameCardinality
       DEF Table!IsWinner, Table!Beats, IsBestOf, IsBetterSelection
  <2>6. Table!IsWinner(row, Table!Winner(row)) /\ Table!Winner(row) \in Asns
    BY <2>2, <2>5 DEF Table!Winner
  <2>7. Table!Winner(row) = rec.selected_asn
    BY <2>1, <2>2, <2>5, <2>6, BestIsUnique
  <2>8. Table!HasRoute(row)
    BY <2>2, <2>3 DEF Table!HasRoute, Table!Voters
  <2>9. QED
    BY <2>1, <2>7, <2>8
<1>5. DOMAIN by_prefix = {prefix \in Prefix : Table!HasRoute(TableOfRecords[prefix])}
  BY <1>3, <1>4
<1>6. DOMAIN aggregated = DOMAIN by_prefix
      /\ aggregated = [prefix \in DOMAIN by_prefix |-> aggregated[prefix]]
  BY <1>1 DEF GoodState
<1>7. QED
  BY <1>4, <1>5, <1>6 DEF Table!Export

\* The same after a step.
LEMMA ExportIsAggregatedPrimed == IInv' => (aggregated = Table!Export(TableOfRecords))'
<1>1. IInv => aggregated = Table!Export(TableOfRecords)
  BY ExportIsAggregated
<1>2. QED
  BY <1>1, PTL

-----------------------------------------------------------------------------
(* Steps: each keeps the invariant and is a step of the abstract table.    *)

\* What a step of the abstract table that sets one route looks like.
SetsRoute(prefix, peer_id, route) ==
    /\ TableOfRecords' = [TableOfRecords EXCEPT ![prefix][peer_id] = route]
    /\ aggregated' = Table!Export(TableOfRecords')

\* The rows of the table are those of the records, before and after a step.
LEMMA TableRows ==
    /\ TableOfRecords = [prefix \in Prefix |-> Row(RecordAt(prefix))]
    /\ TableOfRecords' = [prefix \in Prefix |-> Row(RecordAt(prefix)')]
<1>1. TableOfRecords = [prefix \in Prefix |-> Row(RecordAt(prefix))]
  BY DEF TableOfRecords, Row
<1>2. TableOfRecords' = [prefix \in Prefix |-> Row(RecordAt(prefix)')]
  BY DEF TableOfRecords, Row, RecordAt
<1>3. QED
  BY <1>1, <1>2

\* Replacing one record by a good one sets one route, and keeps the invariant.
LEMMA StoreStep ==
    ASSUME IInv, NEW prefix \in Prefix, NEW peer_id \in PeerIds, NEW route,
           NEW rec, GoodRecord(rec),
           Row(rec) = SetRoute(Row(RecordAt(prefix)), peer_id, route),
           by_prefix' = Put(by_prefix, prefix, rec),
           aggregated' = Put(aggregated, prefix, rec.selected_asn)
    PROVE  IInv' /\ SetsRoute(prefix, peer_id, route)
<1>1. IInv'
  BY StoreKeepsInvariant
<1>2. aggregated' = Table!Export(TableOfRecords')
  BY <1>1, ExportIsAggregatedPrimed
<1>3. \A other \in Prefix : RecordAt(other)' = IF other = prefix THEN rec ELSE RecordAt(other)
  BY DEF RecordAt, Put
<1>4. \A other \in Prefix : Row(RecordAt(other)') =
         IF other = prefix THEN SetRoute(Row(RecordAt(prefix)), peer_id, route)
                           ELSE Row(RecordAt(other))
  BY <1>3
<1>5. TableOfRecords' = [TableOfRecords EXCEPT ![prefix][peer_id] = route]
  BY <1>4, TableRows DEF SetRoute
<1>6. QED
  BY <1>1, <1>2, <1>5 DEF SetsRoute

\* The record and the index an update finds.
LEMMA UpdateFinds ==
    ASSUME IInv, NEW prefix \in Prefix, NEW peer_id \in PeerIds
    PROVE  LET rec == RecordAt(prefix)
               index == IndexOfPeer(rec, peer_id)
           IN  /\ StartRecord(rec) /\ Packed(rec)
               /\ index = 0 => peer_id \notin PeersIn(rec)
               /\ index # 0 => /\ index \in DOMAIN rec.observations
                               /\ rec.observations[index].peer_id = peer_id
<1>1. StartRecord(RecordAt(prefix)) /\ Packed(RecordAt(prefix))
  BY RecordAtStarts, StartRecordFacts
<1>2. QED
  BY <1>1, IndexOfPeerCases DEF Packed

\* A good record has a selection, so sync_aggregated writes it.
LEMMA StoreIsPut ==
    ASSUME NEW prefix, NEW rec, GoodRecord(rec), Store(prefix, rec)
    PROVE  /\ by_prefix' = Put(by_prefix, prefix, rec)
           /\ aggregated' = Put(aggregated, prefix, rec.selected_asn)
<1>1. rec.selected_count # 0
  BY GoodRecordFacts
<1>2. QED
  BY <1>1 DEF Store, Synced

\* An announcement sets the peer's route.
LEMMA AnnounceStep ==
    ASSUME IInv, NEW peer_id \in PeerIds, NEW prefix \in Prefix,
           NEW asn \in Asns, NEW timestamp \in Timestamps,
           Announce(peer_id, prefix, asn, timestamp)
    PROVE  IInv' /\ SetsRoute(prefix, peer_id, Route(asn, timestamp))
<1> DEFINE rec == RecordAt(prefix)
           index == IndexOfPeer(rec, peer_id)
<1>1. /\ StartRecord(rec) /\ Packed(rec)
      /\ index = 0 => peer_id \notin PeersIn(rec)
      /\ index # 0 => /\ index \in DOMAIN rec.observations
                      /\ rec.observations[index].peer_id = peer_id
  BY UpdateFinds
<1>2. CASE AnnounceSameOrigin(peer_id, prefix, asn, timestamp)
  <2> DEFINE new == Refresh(rec, index, timestamp)
  <2>1. /\ index \in DOMAIN rec.observations
        /\ rec.observations[index].peer_id = peer_id
        /\ rec.observations[index].origin_asn = asn
        /\ by_prefix' = Put(by_prefix, prefix, new)
        /\ aggregated' = aggregated
    BY <1>1, <1>2 DEF AnnounceSameOrigin
  <2>2. /\ GoodRecord(new) /\ new.selected_asn = rec.selected_asn
        /\ Row(new) = SetRoute(Row(rec), peer_id, Route(asn, timestamp))
    BY <1>1, <2>1, RefreshIsGood
  <2>3. prefix \in DOMAIN by_prefix /\ rec = by_prefix[prefix]
    BY <2>1 DEF RecordAt, NewRecord
  <2> HIDE DEF new
  <2>4. aggregated' = Put(aggregated, prefix, new.selected_asn)
    <3>1. GoodState(by_prefix, aggregated)
      BY InvariantMeaning
    <3>2. QED
      BY <2>1, <2>2, <2>3, <3>1 DEF GoodState, Put
  <2>5. QED
    BY <2>1, <2>2, <2>4, StoreStep
<1>3. CASE AnnounceNewOrigin(peer_id, prefix, asn, timestamp)
  <2> DEFINE new == ChangeOrigin(rec, index, asn, timestamp)
  <2>1. /\ index \in DOMAIN rec.observations
        /\ rec.observations[index].peer_id = peer_id
        /\ Store(prefix, new)
    BY <1>1, <1>3 DEF AnnounceNewOrigin
  <2>2. GoodRecord(new) /\ Row(new) = SetRoute(Row(rec), peer_id, Route(asn, timestamp))
    BY <1>1, <2>1, ChangeIsGood
  <2> HIDE DEF new
  <2>3. QED
    BY <2>1, <2>2, StoreIsPut, StoreStep
<1>4. CASE AnnounceNewPeer(peer_id, prefix, asn, timestamp)
  <2> DEFINE new == AddObservation(rec, peer_id, asn, timestamp)
  <2>1. peer_id \notin PeersIn(rec) /\ Store(prefix, new)
    BY <1>1, <1>4 DEF AnnounceNewPeer
  <2>2. GoodRecord(new) /\ Row(new) = SetRoute(Row(rec), peer_id, Route(asn, timestamp))
    BY <1>1, <2>1, AddIsGood
  <2> HIDE DEF new
  <2>3. QED
    BY <2>1, <2>2, StoreIsPut, StoreStep
<1>5. QED
  BY <1>2, <1>3, <1>4 DEF Announce

\* A withdrawal removes the peer's route.
LEMMA WithdrawStep ==
    ASSUME IInv, NEW peer_id \in PeerIds, NEW prefix \in Prefix,
           Withdraw(peer_id, prefix)
    PROVE  IInv' /\ SetsRoute(prefix, peer_id, NoRoute)
<1> DEFINE rec == RecordAt(prefix)
           index == IndexOfPeer(rec, peer_id)
           new == RemoveObservation(rec, index)
<1>1. /\ StartRecord(rec) /\ Packed(rec)
      /\ index # 0 => /\ index \in DOMAIN rec.observations
                      /\ rec.observations[index].peer_id = peer_id
  BY UpdateFinds
<1>2. index # 0 =>
         /\ new.observations # << >> => GoodRecord(new)
         /\ Row(new) = SetRoute(Row(rec), peer_id, NoRoute)
         /\ new.observations = << >> => Row(new) = Row(NewRecord)
  BY <1>1, RemoveIsGood
<1> HIDE DEF new
<1>3. CASE WithdrawUnknown(peer_id, prefix)
  <2>1. index = 0 /\ UNCHANGED <<by_prefix, aggregated>>
    BY <1>3 DEF WithdrawUnknown, vars
  <2>2. IInv'
    BY <2>1 DEF IInv, TypeOK, RecordsCoherent, SelectionsBest, AggregatedInSync
  <2>3. TableOfRecords' = TableOfRecords
    BY <2>1 DEF TableOfRecords, RecordAt
  <2>4. TableOfRecords[prefix][peer_id] = NoRoute
    BY <2>1 DEF TableOfRecords, RouteOfPeer
  <2>5. TableOfRecords' = [TableOfRecords EXCEPT ![prefix][peer_id] = NoRoute]
    BY <2>3, <2>4 DEF TableOfRecords
  <2>6. QED
    BY <2>2, <2>5, ExportIsAggregatedPrimed DEF SetsRoute
<1>4. CASE WithdrawLast(peer_id, prefix)
  <2>1. /\ index # 0 /\ new.observations = << >>
        /\ by_prefix' = Erase(by_prefix, prefix)
        /\ aggregated' = Erase(aggregated, prefix)
    BY <1>4 DEF WithdrawLast, new
  <2>2. GoodState(by_prefix, aggregated)
    BY InvariantMeaning
  <2>3. GoodState(by_prefix', aggregated')
    BY <2>1, <2>2 DEF GoodState, Erase
  <2>4. IInv'
    BY <2>3, InvariantMeaningPrimed
  <2>5. aggregated' = Table!Export(TableOfRecords')
    BY <2>4, ExportIsAggregatedPrimed
  <2>6. \A other \in Prefix :
           RecordAt(other)' = IF other = prefix THEN NewRecord ELSE RecordAt(other)
    BY <2>1 DEF RecordAt, Erase
  <2>7. \A other \in Prefix : Row(RecordAt(other)') =
           IF other = prefix THEN SetRoute(Row(RecordAt(prefix)), peer_id, NoRoute)
                             ELSE Row(RecordAt(other))
    BY <1>2, <2>1, <2>6
  <2>8. TableOfRecords' = [TableOfRecords EXCEPT ![prefix][peer_id] = NoRoute]
    BY <2>7, TableRows DEF SetRoute
  <2>9. QED
    BY <2>4, <2>5, <2>8 DEF SetsRoute
<1>5. CASE WithdrawOne(peer_id, prefix)
  <2>1. index # 0 /\ new.observations # << >> /\ Store(prefix, new)
    BY <1>5 DEF WithdrawOne, new
  <2>2. GoodRecord(new) /\ Row(new) = SetRoute(Row(rec), peer_id, NoRoute)
    BY <1>2, <2>1
  <2>3. QED
    BY <2>1, <2>2, StoreIsPut, StoreStep
<1>6. QED
  BY <1>3, <1>4, <1>5 DEF Withdraw

\* A clear empties the table.
LEMMA ClearStep ==
    ASSUME Clear
    PROVE  IInv' /\ Table!Clear
<1>1. GoodState(by_prefix', aggregated')
  BY DEF Clear, GoodState, EmptyMap
<1>2. IInv'
  BY <1>1, InvariantMeaningPrimed
<1>3. \A prefix \in Prefix : RecordAt(prefix)' = NewRecord
  BY DEF Clear, RecordAt, EmptyMap
<1>4. TableOfRecords' = Table!EmptyTable
  BY <1>3, TableRows, NewRecordIsCore DEF Table!EmptyTable
<1>5. QED
  BY <1>2, <1>4, ExportIsAggregatedPrimed DEF Table!Clear

\* A rebuild finds every selection and the export table as they should be.
LEMMA RebuildStep ==
    ASSUME IInv, RebuildAggregated
    PROVE  UNCHANGED vars
<1>1. GoodState(by_prefix, aggregated)
  BY InvariantMeaning
<1>2. \A prefix \in DOMAIN by_prefix :
         /\ RecomputeSelected(by_prefix[prefix]) = by_prefix[prefix]
         /\ by_prefix[prefix].selected_count # 0
  BY <1>1, RescanOfGoodRecord, GoodRecordFacts DEF GoodState
<1>3. by_prefix' = by_prefix
  BY <1>1, <1>2 DEF RebuildAggregated, GoodState
<1>4. aggregated' = aggregated
  BY <1>1, <1>2, <1>3 DEF RebuildAggregated, GoodState
<1>5. QED
  BY <1>3, <1>4 DEF vars

\* Nothing changes, nothing breaks.
LEMMA UnchangedKeepsInvariant == IInv /\ UNCHANGED vars => IInv'
BY DEF vars, IInv, TypeOK, RecordsCoherent, SelectionsBest, AggregatedInSync

-----------------------------------------------------------------------------
(* Theorems.                                                               *)

\* The invariant holds initially.
LEMMA InitInvariant == Init => IInv
<1>1. Init => GoodState(by_prefix, aggregated)
  BY DEF Init, GoodState, EmptyMap
<1>2. QED
  BY <1>1, InvariantMeaning

\* Every operation keeps it.
LEMMA NextInvariant == IInv /\ [Next]_vars => IInv'
<1> SUFFICES ASSUME IInv, [Next]_vars
             PROVE  IInv'
  OBVIOUS
<1>1. ASSUME NEW peer_id \in PeerIds, NEW prefix \in Prefix, NEW asn \in Asns,
             NEW timestamp \in Timestamps, Announce(peer_id, prefix, asn, timestamp)
      PROVE  IInv'
  BY <1>1, AnnounceStep
<1>2. ASSUME NEW peer_id \in PeerIds, NEW prefix \in Prefix, Withdraw(peer_id, prefix)
      PROVE  IInv'
  BY <1>2, WithdrawStep
<1>3. CASE Clear
  BY <1>3, ClearStep
<1>4. CASE RebuildAggregated
  BY <1>4, RebuildStep, UnchangedKeepsInvariant
<1>5. CASE UNCHANGED vars
  BY <1>5, UnchangedKeepsInvariant
<1>6. QED
  BY <1>1, <1>2, <1>3, <1>4, <1>5 DEF Next

\* The records, the selections and the export table stay right under every
\* sequence of announcements, withdrawals, clears and rebuilds.
THEOREM InvariantHolds == Spec => []IInv
BY InitInvariant, NextInvariant, PTL DEF Spec

\* Every member keeps to its C++ type (routing_state.h).
THEOREM TypesHold == Spec => []TypeOK
<1>1. IInv => TypeOK
  BY DEF IInv
<1>2. QED
  BY <1>1, InvariantHolds, PTL

\* The packed vectors and the counters agree after any updates (announce_impl,
\* withdraw_impl).
THEOREM RecordsStayCoherent == Spec => []RecordsCoherent
<1>1. IInv => RecordsCoherent
  BY DEF IInv
<1>2. QED
  BY <1>1, InvariantHolds, PTL

\* The winner kept without rescanning is the most backed, lowest ASN.
THEOREM SelectionsStayBest == Spec => []SelectionsBest
<1>1. IInv => SelectionsBest
  BY DEF IInv
<1>2. QED
  BY <1>1, InvariantHolds, PTL

\* The export table is never out of step with the records (sync_aggregated).
THEOREM AggregatedStaysInSync == Spec => []AggregatedInSync
<1>1. IInv => AggregatedInSync
  BY DEF IInv
<1>2. QED
  BY <1>1, InvariantHolds, PTL

\* The rebuild after a snapshot load has nothing to repair (rebuild_aggregated).
THEOREM RebuildRepairsNothing == Spec => RebuildFindsNothing
<1>1. IInv /\ [Next]_vars => [RebuildAggregated => UNCHANGED vars]_vars
  BY RebuildStep
<1>2. QED
  BY <1>1, InvariantHolds, PTL DEF Spec, RebuildFindsNothing

\* RoutingState implements RoutingTable: the incremental selection gives what a
\* full recount of every peer's last route gives, for any number of prefixes,
\* peers, ASNs and timestamps.
THEOREM Implementation == Spec => ImplementsRoutingTable
<1>1. Init => Table!Init
  <2> SUFFICES ASSUME Init
               PROVE  Table!Init
    OBVIOUS
  <2>1. \A prefix \in Prefix : RecordAt(prefix) = NewRecord
    BY DEF Init, RecordAt, EmptyMap
  <2>2. TableOfRecords = Table!EmptyTable
    BY <2>1, TableRows, NewRecordIsCore DEF Table!EmptyTable
  <2>3. QED
    BY <2>2, InitInvariant, ExportIsAggregated DEF Table!Init
<1>2. IInv /\ [Next]_vars => [Table!Next]_(Table!vars)
  <2> SUFFICES ASSUME IInv, [Next]_vars
               PROVE  [Table!Next]_(Table!vars)
    OBVIOUS
  <2>1. ASSUME NEW peer_id \in PeerIds, NEW prefix \in Prefix, NEW asn \in Asns,
               NEW timestamp \in Timestamps, Announce(peer_id, prefix, asn, timestamp)
        PROVE  Table!Next
    <3>1. SetsRoute(prefix, peer_id, Route(asn, timestamp))
      BY <2>1, AnnounceStep
    <3>2. Table!Announce(prefix, peer_id, asn, timestamp)
      BY <3>1 DEF SetsRoute, Route, Table!Announce
    <3>3. QED
      BY <3>2 DEF Table!Next
  <2>2. UNCHANGED vars => UNCHANGED Table!vars
    BY DEF vars, Table!vars, TableOfRecords, RecordAt
  <2>3. ASSUME NEW peer_id \in PeerIds, NEW prefix \in Prefix, Withdraw(peer_id, prefix)
        PROVE  Table!Next
    <3>1. SetsRoute(prefix, peer_id, NoRoute)
      BY <2>3, WithdrawStep
    <3>2. Table!Withdraw(prefix, peer_id)
      BY <3>1 DEF SetsRoute, Table!Withdraw
    <3>3. QED
      BY <3>2 DEF Table!Next
  <2>4. CASE Clear
    BY <2>4, ClearStep DEF Table!Next
  <2>5. CASE RebuildAggregated
    BY <2>2, <2>5, RebuildStep
  <2>6. CASE UNCHANGED vars
    BY <2>2, <2>6
  <2>7. QED
    BY <2>1, <2>3, <2>4, <2>5, <2>6 DEF Next
<1>3. QED
  BY <1>1, <1>2, InvariantHolds, PTL DEF Spec, ImplementsRoutingTable, Table!Spec

-----------------------------------------------------------------------------
(* Why a selection moves.                                                  *)

\* In a good record the selected ASN has at least as many backers as any other,
\* and beats it on a tie.
LEMMA SelectionBeats ==
    ASSUME NEW rec, GoodRecord(rec), NEW asn \in Asns, asn # rec.selected_asn,
           NEW ours, ours = Cardinality(Backers(rec, rec.selected_asn)),
           NEW theirs, theirs = Cardinality(Backers(rec, asn))
    PROVE  /\ IsFiniteSet(Backers(rec, rec.selected_asn)) /\ IsFiniteSet(Backers(rec, asn))
           /\ ours \in Nat /\ theirs \in Nat
           /\ theirs < ours \/ (theirs = ours /\ rec.selected_asn < asn)
<1> DEFINE best == rec.selected_asn
           counts == rec.asn_counts
<1>1. Core(rec) /\ Packed(rec) /\ Counters(counts) /\ DOMAIN counts \subseteq Asns
  BY CoreCounters DEF GoodRecord, Core
<1>2. best \in DOMAIN counts /\ best \in Asns /\ IsBestOf(counts, best)
  BY GoodRecordFacts
<1>3. \A x : Backers(rec, x) = Table!Voters(Row(rec), x)
  BY <1>1, BackersAreVoters
<1>4. /\ IsFiniteSet(Backers(rec, best)) /\ IsFiniteSet(Backers(rec, asn))
      /\ ours \in Nat /\ theirs \in Nat
  BY <1>3, VotersFinite
<1>5. CountOf(counts, best) = ours /\ CountOf(counts, asn) = theirs
  BY <1>1, <1>2, <1>3 DEF Core, Tally
<1>6. counts[best] = ours /\ ours > 0
  BY <1>1, <1>2, <1>5 DEF CountOf, Counters
<1>7. CASE asn \in DOMAIN counts
  <2>1. counts[asn] = theirs
    BY <1>5, <1>7 DEF CountOf
  <2>2. IsBetterSelection(best, ours, asn, theirs)
    BY <1>2, <1>6, <1>7, <2>1 DEF IsBestOf
  <2>3. QED
    BY <1>4, <2>2, CoreCounters DEF IsBetterSelection, GoodRecord
<1>8. CASE asn \notin DOMAIN counts
  BY <1>4, <1>5, <1>6, <1>8 DEF CountOf
<1>9. QED
  BY <1>4, <1>7, <1>8

\* Between two good records, a selection that lost none of its backers is not
\* overtaken by an ASN that gained none.
LEMMA OvertakingNeedsCause ==
    ASSUME NEW before, GoodRecord(before), NEW after, GoodRecord(after),
           before.selected_asn # after.selected_asn,
           Backers(before, before.selected_asn) \subseteq Backers(after, before.selected_asn),
           Backers(after, after.selected_asn) \subseteq Backers(before, after.selected_asn)
    PROVE  FALSE
<1> DEFINE old == before.selected_asn
           new == after.selected_asn
           old1 == Cardinality(Backers(before, old))
           new1 == Cardinality(Backers(before, new))
           old2 == Cardinality(Backers(after, old))
           new2 == Cardinality(Backers(after, new))
<1>1. old \in Asns /\ new \in Asns /\ old \in Nat /\ new \in Nat
  BY GoodRecordFacts, AsnsAssumption
<1>2. /\ IsFiniteSet(Backers(before, new))
      /\ old1 \in Nat /\ new1 \in Nat
      /\ new1 < old1 \/ (new1 = old1 /\ old < new)
  BY <1>1, SelectionBeats
<1>3. /\ IsFiniteSet(Backers(after, old))
      /\ old2 \in Nat /\ new2 \in Nat
      /\ old2 < new2 \/ (old2 = new2 /\ new < old)
  BY <1>1, SelectionBeats
<1>4. old1 <= old2
  BY <1>3, FS_Subset
<1>5. new2 <= new1
  BY <1>2, FS_Subset
<1> HIDE DEF old, new, old1, new1, old2, new2
<1>6. QED
  BY <1>1, <1>2, <1>3, <1>4, <1>5

\* The backers of a prefix with a record are those of the record.
LEMMA BackersOfRecord ==
    ASSUME NEW prefix \in Prefix, NEW asn \in Asns, prefix \in DOMAIN by_prefix
    PROVE  BackersOf[prefix][asn] = Backers(by_prefix[prefix], asn)
BY DEF BackersOf

\* The same in the next state.
LEMMA BackersOfRecordPrimed ==
    ASSUME NEW prefix \in Prefix, NEW asn \in Asns, prefix \in DOMAIN by_prefix'
    PROVE  BackersOf'[prefix][asn] = Backers(by_prefix'[prefix], asn)
BY DEF BackersOf, Backers

\* The exported origin of a prefix moves only if the old origin lost a peer or
\* the new one gained one in that very update (announce_impl, withdraw_impl).
THEOREM SwitchesHaveCause == Spec => SwitchHasCause
<1> DEFINE Caused(prefix) ==
        aggregated[prefix] # aggregated'[prefix] =>
          \/ BackersOf[prefix][aggregated[prefix]] \ BackersOf'[prefix][aggregated[prefix]] # {}
          \/ BackersOf'[prefix][aggregated'[prefix]] \ BackersOf[prefix][aggregated'[prefix]] # {}
<1>1. ASSUME IInv, IInv', NEW prefix \in DOMAIN aggregated \cap DOMAIN aggregated'
      PROVE  Caused(prefix)
  <2>1. GoodState(by_prefix, aggregated) /\ GoodState(by_prefix', aggregated')
    BY <1>1, InvariantMeaning, InvariantMeaningPrimed
  <2> DEFINE before == by_prefix[prefix]
             after == by_prefix'[prefix]
             old == before.selected_asn
             new == after.selected_asn
  <2>2. /\ prefix \in Prefix /\ prefix \in DOMAIN by_prefix /\ prefix \in DOMAIN by_prefix'
        /\ GoodRecord(before) /\ GoodRecord(after)
        /\ aggregated[prefix] = old /\ aggregated'[prefix] = new
    BY <1>1, <2>1 DEF GoodState
  <2>3. old \in Asns /\ new \in Asns
    BY <2>2, GoodRecordFacts
  <2>4. /\ BackersOf[prefix][old] = Backers(before, old)
        /\ BackersOf[prefix][new] = Backers(before, new)
    BY <2>2, <2>3, BackersOfRecord
  <2>5. /\ BackersOf'[prefix][old] = Backers(after, old)
        /\ BackersOf'[prefix][new] = Backers(after, new)
    BY <2>2, <2>3, BackersOfRecordPrimed
  <2>6. \/ old = new
        \/ ~ (Backers(before, old) \subseteq Backers(after, old))
        \/ ~ (Backers(after, new) \subseteq Backers(before, new))
    BY <2>2, OvertakingNeedsCause
  <2> HIDE DEF before, after, old, new
  <2>7. QED
    BY <2>2, <2>4, <2>5, <2>6
<1>2. IInv /\ IInv' =>
        [\A prefix \in DOMAIN aggregated \cap DOMAIN aggregated' : Caused(prefix)]_vars
  BY <1>1
<1>3. QED
  BY <1>2, InvariantHolds, PTL DEF SwitchHasCause

=============================================================================
