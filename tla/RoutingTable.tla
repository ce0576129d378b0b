---------------------------- MODULE RoutingTable ----------------------------
(***************************************************************************)
(* What RoutingState promises, without its data structures: for every      *)
(* prefix and peer the last route the peer announced and did not withdraw, *)
(* and for every prefix with a route one exported origin, always the one   *)
(* a full recount of the routes would choose.                              *)
(***************************************************************************)
EXTENDS Naturals, FiniteSets

CONSTANTS
    Prefix,
    Peer,
    Asns,
    Timestamps,
    NoRoute      \* stands for "this peer has no route for this prefix"

VARIABLES
    table,       \* table[prefix][peer] is a route or NoRoute
    exported     \* the origin exported for each prefix that has a route

vars == <<table, exported>>

Route == [origin_asn : Asns, timestamp : Timestamps]

Voters(row, asn) ==
    {peer \in Peer : row[peer] # NoRoute /\ row[peer].origin_asn = asn}

Beats(row, asn, other) ==
    LET votes == Cardinality(Voters(row, asn))
        rival == Cardinality(Voters(row, other))
    IN  votes > rival \/ (votes = rival /\ asn < other)

IsWinner(row, asn) ==
    /\ Voters(row, asn) # {}
    /\ \A other \in Asns \ {asn} : Voters(row, other) # {} => Beats(row, asn, other)

Winner(row) == CHOOSE asn \in Asns : IsWinner(row, asn)

HasRoute(row) == \E peer \in Peer : row[peer] # NoRoute

\* The full recount.
Export(tab) == [prefix \in {x \in Prefix : HasRoute(tab[x])} |-> Winner(tab[prefix])]

EmptyTable == [prefix \in Prefix |-> [peer \in Peer |-> NoRoute]]

-----------------------------------------------------------------------------

Init ==
    /\ table = EmptyTable
    /\ exported = Export(table)

Announce(prefix, peer, asn, timestamp) ==
    /\ table' = [table EXCEPT ![prefix][peer] =
                    [origin_asn |-> asn, timestamp |-> timestamp]]
    /\ exported' = Export(table')

Withdraw(prefix, peer) ==
    /\ table' = [table EXCEPT ![prefix][peer] = NoRoute]
    /\ exported' = Export(table')

Clear ==
    /\ table' = EmptyTable
    /\ exported' = Export(table')

Next ==
    \/ \E prefix \in Prefix, peer \in Peer, asn \in Asns, timestamp \in Timestamps :
          Announce(prefix, peer, asn, timestamp)
    \/ \E prefix \in Prefix, peer \in Peer : Withdraw(prefix, peer)
    \/ Clear

Spec == Init /\ [][Next]_vars

=============================================================================
