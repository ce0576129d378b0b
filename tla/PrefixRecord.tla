---------------------------- MODULE PrefixRecord ----------------------------
(***************************************************************************)
(* The per-prefix record of routing_state.h and the functions of           *)
(* routing_state.cpp that work on one record: the packed observation and   *)
(* timestamp vectors, the per-ASN counters, and the incrementally kept     *)
(* winner.  A record is                                                    *)
(*   [observations, timestamps, asn_counts, selected_asn, selected_count]. *)
(***************************************************************************)
EXTENDS Naturals, Sequences, FiniteSets, SequencesExt, HashMap

NewRecord ==
    [observations |-> << >>, timestamps |-> << >>, asn_counts |-> EmptyMap,
     selected_asn |-> 0, selected_count |-> 0]

-----------------------------------------------------------------------------
(* ASN counters and the selection order: most peers, then lowest ASN.      *)

IsBetterSelection(candidate_asn, candidate_count, current_asn, current_count) ==
    \/ candidate_count > current_count
    \/ candidate_count = current_count /\ candidate_asn < current_asn

CountOf(counts, asn) == IF asn \in DOMAIN counts THEN counts[asn] ELSE 0

IncrementAsnCount(counts, asn) == Put(counts, asn, CountOf(counts, asn) + 1)

DecrementAsnCount(counts, asn) ==
    IF CountOf(counts, asn) <= 1
    THEN Erase(counts, asn)
    ELSE Put(counts, asn, counts[asn] - 1)

WithSelection(rec, asn, count) ==
    [rec EXCEPT !.selected_asn = asn, !.selected_count = count]

IsBestOf(counts, asn) ==
    /\ asn \in DOMAIN counts
    /\ \A other \in DOMAIN counts \ {asn} :
          IsBetterSelection(asn, counts[asn], other, counts[other])

\* Mutant: the rescan breaks ties the other way.
RecomputePrefersHighest(rec) ==
    IF DOMAIN rec.asn_counts = {}
    THEN WithSelection(rec, 0, 0)
    ELSE LET counts == rec.asn_counts
             best == CHOOSE asn \in DOMAIN counts : \A other \in DOMAIN counts \ {asn} :
                        \/ counts[asn] > counts[other]
                        \/ counts[asn] = counts[other] /\ asn > other
         IN  WithSelection(rec, best, counts[best])

\* The loop over the unordered asn_counts, by its result. Module SelectionScan
\* runs the loop itself, in every order, and shows that this is the result.
RecomputeSelected(rec) ==
    IF DOMAIN rec.asn_counts = {}
    THEN WithSelection(rec, 0, 0)
    ELSE LET best == CHOOSE asn \in DOMAIN rec.asn_counts :
                        IsBestOf(rec.asn_counts, asn)
         IN  WithSelection(rec, best, rec.asn_counts[best])

\* The origin whose counter has just grown takes the selection if it is better.
OfferSelection(rec, asn) ==
    LET count == rec.asn_counts[asn] IN
    IF IsBetterSelection(asn, count, rec.selected_asn, rec.selected_count)
    THEN WithSelection(rec, asn, count)
    ELSE rec

-----------------------------------------------------------------------------
(* Observations.                                                           *)

\* The index the linear search stops at, 0 when the peer has no observation.
IndexOfPeer(rec, peer_id) ==
    SelectInSeq(rec.observations, LAMBDA obs : obs.peer_id = peer_id)

Refresh(rec, index, timestamp) ==
    [rec EXCEPT !.timestamps[index] = timestamp]

\* Mutant: the rescan after the selected origin has lost a peer is missing.
ChangeOriginWithoutRescan(rec, index, asn, timestamp) ==
    LET old_asn == rec.observations[index].origin_asn
    IN  OfferSelection([rec EXCEPT !.observations[index].origin_asn = asn,
                                   !.timestamps[index] = timestamp,
                                   !.asn_counts =
                                       IncrementAsnCount(DecrementAsnCount(@, old_asn), asn)],
                       asn)

ChangeOrigin(rec, index, asn, timestamp) ==
    LET old_asn == rec.observations[index].origin_asn
        changed == [rec EXCEPT !.observations[index].origin_asn = asn,
                               !.timestamps[index] = timestamp,
                               !.asn_counts =
                                   IncrementAsnCount(DecrementAsnCount(@, old_asn), asn)]
    IN  IF old_asn = rec.selected_asn
        THEN RecomputeSelected(changed)
        ELSE OfferSelection(changed, asn)

AddObservation(rec, peer_id, asn, timestamp) ==
    LET added == [rec EXCEPT !.observations =
                                 Append(@, [peer_id |-> peer_id, origin_asn |-> asn]),
                             !.timestamps = Append(@, timestamp),
                             !.asn_counts = IncrementAsnCount(@, asn)]
    IN  IF rec.selected_count = 0
        THEN WithSelection(added, asn, added.asn_counts[asn])
        ELSE OfferSelection(added, asn)

\* Mutant: the last element is dropped without taking the place of the removed one.
DropLast(seq, index) == Front(seq)

\* Packed removal: the last element takes the place of the removed one.
SwapRemove(seq, index) == Front([seq EXCEPT ![index] = Last(seq)])

\* Mutant: the timestamps are not moved along with the observations.
RemoveLeavesTimestamp(rec, index) ==
    LET old_asn == rec.observations[index].origin_asn
        removed == [rec EXCEPT !.observations = SwapRemove(@, index),
                               !.timestamps = Front(@),
                               !.asn_counts = DecrementAsnCount(@, old_asn)]
    IN  IF removed.observations # << >> /\ old_asn = rec.selected_asn
        THEN RecomputeSelected(removed)
        ELSE removed

\* Mutant: the rescan after the selected origin has lost a peer is missing.
RemoveWithoutRescan(rec, index) ==
    [rec EXCEPT !.observations = SwapRemove(@, index),
                !.timestamps = SwapRemove(@, index),
                !.asn_counts = DecrementAsnCount(@, rec.observations[index].origin_asn)]

\* A record left without observations is erased by the caller before the
\* selection is looked at again.
RemoveObservation(rec, index) ==
    LET old_asn == rec.observations[index].origin_asn
        removed == [rec EXCEPT !.observations = SwapRemove(@, index),
                               !.timestamps = SwapRemove(@, index),
                               !.asn_counts = DecrementAsnCount(@, old_asn)]
    IN  IF removed.observations # << >> /\ old_asn = rec.selected_asn
        THEN RecomputeSelected(removed)
        ELSE removed

-----------------------------------------------------------------------------
(* What a record must satisfy.                                             *)

\* The peers of the record whose observed origin is asn.
Backers(rec, asn) ==
    {rec.observations[i].peer_id :
        i \in {j \in DOMAIN rec.observations : rec.observations[j].origin_asn = asn}}

ObservedOrigins(rec) ==
    {rec.observations[i].origin_asn : i \in DOMAIN rec.observations}

OneObservationPerPeer(rec) ==
    \A i, j \in DOMAIN rec.observations :
        rec.observations[i].peer_id = rec.observations[j].peer_id => i = j

CountersAreTallies(rec) ==
    /\ DOMAIN rec.asn_counts = ObservedOrigins(rec)
    /\ \A asn \in DOMAIN rec.asn_counts :
          rec.asn_counts[asn] = Cardinality(Backers(rec, asn))

SelectionIsBest(rec) ==
    /\ IsBestOf(rec.asn_counts, rec.selected_asn)
    /\ rec.selected_count = rec.asn_counts[rec.selected_asn]

=============================================================================
