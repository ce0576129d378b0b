--------------------------- MODULE SelectionScan ---------------------------
(***************************************************************************)
(* recompute_selected_from_counts, one iteration per step.  asn_counts is  *)
(* an unordered_map, so an iteration visits any entry not visited yet.     *)
(***************************************************************************)
EXTENDS PrefixRecord

CONSTANTS
    CountedAsns,   \* the ASNs a counter may be kept for
    MaxCount       \* the highest counter

ASSUME CountedAsnsAssumption == CountedAsns \subseteq Nat
ASSUME MaxCountAssumption    == MaxCount \in Nat

VARIABLES
    asn_counts,
    unvisited,       \* the entries the loop has still to come to
    selected_asn,
    selected_count

vars == <<asn_counts, unvisited, selected_asn, selected_count>>

\* Any counters, and the two assignments before the loop.
Init ==
    /\ \E asns \in SUBSET CountedAsns : asn_counts \in [asns -> 1 .. MaxCount]
    /\ unvisited = DOMAIN asn_counts
    /\ selected_asn = 0
    /\ selected_count = 0

\* Mutant: no tie-break, the first of the largest counters stays.
VisitWithoutTieBreak(asn) ==
    LET better == asn_counts[asn] > selected_count IN
    /\ asn \in unvisited
    /\ unvisited' = unvisited \ {asn}
    /\ selected_asn' = IF better THEN asn ELSE selected_asn
    /\ selected_count' = IF better THEN asn_counts[asn] ELSE selected_count
    /\ UNCHANGED asn_counts

Visit(asn) ==
    LET better == IsBetterSelection(asn, asn_counts[asn], selected_asn, selected_count) IN
    /\ asn \in unvisited
    /\ unvisited' = unvisited \ {asn}
    /\ selected_asn' = IF better THEN asn ELSE selected_asn
    /\ selected_count' = IF better THEN asn_counts[asn] ELSE selected_count
    /\ UNCHANGED asn_counts

Next == \E asn \in unvisited : Visit(asn)

Spec == Init /\ [][Next]_vars

-----------------------------------------------------------------------------

TypeOK ==
    /\ DOMAIN asn_counts \subseteq CountedAsns
    /\ asn_counts \in [DOMAIN asn_counts -> 1 .. MaxCount]
    /\ unvisited \subseteq DOMAIN asn_counts
    /\ selected_asn \in CountedAsns \cup {0}
    /\ selected_count \in 0 .. MaxCount

\* Whatever order the unordered map is walked in, the loop ends with the same
\* selection, the one RecomputeSelected returns; ASN 0, which is also the value the
\* loop starts from, is no exception.
OrderDoesNotMatter ==
    unvisited = {} =>
        LET rec == RecomputeSelected([NewRecord EXCEPT !.asn_counts = asn_counts])
        IN  selected_asn = rec.selected_asn /\ selected_count = rec.selected_count

\* Half way through, the selection is the best of the entries visited so far: what
\* makes the order irrelevant at the end.
Visited == DOMAIN asn_counts \ unvisited

BestOfVisited ==
    IF Visited = {}
    THEN selected_asn = 0 /\ selected_count = 0
    ELSE /\ selected_asn \in Visited
         /\ selected_count = asn_counts[selected_asn]
         /\ \A asn \in Visited \ {selected_asn} :
               IsBetterSelection(selected_asn, selected_count, asn, asn_counts[asn])

=============================================================================
