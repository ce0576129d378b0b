------------------------ MODULE SelectionScanProofs ------------------------
(* The rescan loop returns what RecomputeSelected returns, in every order. *)
EXTENDS SelectionScan, DataLemmas

IInv == TypeOK /\ BestOfVisited

\* What the types say of the counters.
LEMMA ScanFacts ==
    ASSUME TypeOK
    PROVE  /\ Counters(asn_counts)
           /\ \A asn \in DOMAIN asn_counts : asn_counts[asn] \in 1 .. MaxCount
           /\ DOMAIN asn_counts \subseteq Nat
           /\ MaxCount \in Nat
BY CountedAsnsAssumption, MaxCountAssumption DEF TypeOK, Counters

\* A visit keeps the best of those visited.
LEMMA VisitKeepsBest ==
    ASSUME IInv, NEW asn \in unvisited, Visit(asn)
    PROVE  IInv'
<1> DEFINE count == asn_counts[asn]
           better == IsBetterSelection(asn, count, selected_asn, selected_count)
<1>1. /\ asn \in DOMAIN asn_counts /\ asn \in Nat /\ asn \in CountedAsns
      /\ count \in 1 .. MaxCount /\ MaxCount \in Nat
      /\ \A other \in DOMAIN asn_counts : other \in Nat /\ asn_counts[other] \in Nat \ {0}
  BY ScanFacts DEF IInv, TypeOK
<1>2. /\ asn_counts' = asn_counts
      /\ unvisited' = unvisited \ {asn}
      /\ selected_asn' = IF better THEN asn ELSE selected_asn
      /\ selected_count' = IF better THEN count ELSE selected_count
  BY DEF Visit
<1>3. selected_asn \in Nat /\ selected_count \in Nat
  BY CountedAsnsAssumption, MaxCountAssumption DEF IInv, TypeOK
<1>4. TypeOK'
  BY <1>1, <1>2 DEF IInv, TypeOK
<1>5. Visited' = Visited \cup {asn} /\ asn \notin Visited /\ Visited \subseteq DOMAIN asn_counts
  BY <1>1, <1>2 DEF Visited, IInv, TypeOK
<1>6. BestOfVisited'
  <2>1. CASE Visited = {}
    <3>1. better /\ Visited' = {asn}
      BY <1>1, <1>5, <2>1 DEF IInv, BestOfVisited, IsBetterSelection
    <3>2. QED
      BY <1>2, <3>1 DEF BestOfVisited
  <2>2. CASE Visited # {}
    <3>1. /\ selected_asn \in Visited
          /\ selected_count = asn_counts[selected_asn]
          /\ \A other \in Visited \ {selected_asn} :
                IsBetterSelection(selected_asn, selected_count, other, asn_counts[other])
      BY <2>2 DEF IInv, BestOfVisited
    <3>2. CASE better
      <4>1. \A other \in Visited : IsBetterSelection(asn, count, other, asn_counts[other])
        BY <1>1, <1>3, <1>5, <3>1, <3>2 DEF IsBetterSelection
      <4>2. QED
        BY <1>2, <1>5, <3>2, <4>1 DEF BestOfVisited
    <3>3. CASE ~ better
      <4>1. IsBetterSelection(selected_asn, selected_count, asn, count)
        BY <1>1, <1>3, <1>5, <3>1, <3>3 DEF IsBetterSelection
      <4>2. QED
        BY <1>2, <1>5, <3>1, <3>3, <4>1 DEF BestOfVisited
    <3>4. QED
      BY <3>2, <3>3
  <2>3. QED
    BY <2>1, <2>2
<1>7. QED
  BY <1>4, <1>6 DEF IInv

\* When all are visited, the best of them is the only best.
LEMMA InvariantImpliesResult == IInv => OrderDoesNotMatter
<1> SUFFICES ASSUME IInv, unvisited = {}
             PROVE  LET rec == RecomputeSelected([NewRecord EXCEPT !.asn_counts = asn_counts])
                    IN  selected_asn = rec.selected_asn /\ selected_count = rec.selected_count
  BY DEF OrderDoesNotMatter
<1> DEFINE rec == [NewRecord EXCEPT !.asn_counts = asn_counts]
           best == CHOOSE asn \in DOMAIN asn_counts : IsBestOf(asn_counts, asn)
<1>1. rec.asn_counts = asn_counts /\ Visited = DOMAIN asn_counts
  BY DEF NewRecord, Visited
<1>2. CASE DOMAIN asn_counts = {}
  BY <1>1, <1>2 DEF RecomputeSelected, WithSelection, NewRecord, IInv, BestOfVisited
<1>3. CASE DOMAIN asn_counts # {}
  <2>1. /\ selected_asn \in DOMAIN asn_counts
        /\ selected_count = asn_counts[selected_asn]
        /\ IsBestOf(asn_counts, selected_asn)
    BY <1>1, <1>3 DEF IInv, BestOfVisited, IsBestOf
  <2>2. IsBestOf(asn_counts, best)
    BY <2>1
  <2>3. best = selected_asn
    BY <2>1, <2>2, BestIsUnique, ScanFacts DEF IInv
  <2> HIDE DEF best
  <2>4. RecomputeSelected(rec) = WithSelection(rec, best, asn_counts[best])
    BY <1>1, <1>3 DEF RecomputeSelected, best
  <2>5. /\ RecomputeSelected(rec).selected_asn = best
        /\ RecomputeSelected(rec).selected_count = asn_counts[best]
    BY <2>4 DEF WithSelection, NewRecord
  <2>6. QED
    BY <2>1, <2>3, <2>5
<1>4. QED
  BY <1>2, <1>3

\* The invariant of the scan.
LEMMA InvariantHolds == Spec => []IInv
<1>1. Init => IInv
  BY MaxCountAssumption DEF Init, IInv, TypeOK, BestOfVisited, Visited
<1>2. IInv /\ [Next]_vars => IInv'
  <2>1. IInv /\ Next => IInv'
    BY VisitKeepsBest DEF Next
  <2>2. IInv /\ UNCHANGED vars => IInv'
    BY DEF vars, IInv, TypeOK, BestOfVisited, Visited
  <2>3. QED
    BY <2>1, <2>2
<1>3. QED
  BY <1>1, <1>2, PTL DEF Spec

\* At any point of the scan the selection is the best of the counters visited so far
\* (recompute_selected_from_counts).
THEOREM SelectionIsBestSoFar == Spec => []BestOfVisited
<1>1. IInv => BestOfVisited
  BY DEF IInv
<1>2. QED
  BY InvariantHolds, <1>1, PTL

\* The loop over the unordered counters is deterministic in its result
\* (recompute_selected_from_counts): RecomputeSelected is what it computes.
THEOREM ScanOrderDoesNotMatter == Spec => []OrderDoesNotMatter
BY InvariantHolds, InvariantImpliesResult, PTL

=============================================================================
