------------------------------- MODULE MCIngest -------------------------------
(* Small instances of Ingest for TLC. *)
EXTENDS Ingest, TLC

CONSTANTS net_a, net_b

TwoPrefixes == {net_a, net_b}

\* A peer with all its members, and what is left of one without them.
PeerA    == [host |-> "rrc00", peer |-> "10.0.0.1", peer_asn |-> 1]
PeerB    == [host |-> "", peer |-> "", peer_asn |-> 0]
TwoPeers == {PeerA, PeerB}

\* Two texts of one prefix, one of the other, one that is none.
TextsOfPrefixes == "a" :> net_a @@ "a'" :> net_a @@ "b" :> net_b @@ "bad" :> BadPrefix

Text(data) == [type |-> "ris_message", data |-> data]

Update(path, announcements, withdrawals) ==
    [type |-> "UPDATE", host |-> "rrc00", peer |-> "10.0.0.1", peer_asn |-> 9,
     timestamp |-> 7, path |-> path, announcements |-> announcements,
     withdrawals |-> withdrawals]

\* The other peer.
Anonymous(data) ==
    [data EXCEPT !.host = NoValue, !.peer = NoValue, !.peer_asn = NoValue]

NoRoutes == [prefix \in TwoPrefixes |-> [peer \in TwoPeers |-> NoRoute]]
Route1   == [origin_asn |-> 1, timestamp |-> 7]

\* No snapshot, or one with a route of either peer.
TwoTables ==
    {NoRoutes,
     [NoRoutes EXCEPT ![net_a][PeerB] = Route1, ![net_b][PeerA] = Route1]}

\* Announcing prefixes of two next hops, withdrawing, both in one message, also of
\* one prefix in two texts; an origin above 2^32, one that is an AS set, and none;
\* lists and entries of the wrong kind, no timestamp.
Updates ==
    {Text(Update(<<5, 1>>, << <<"a">>, NoValue, <<NoValue, "b">> >>, << >>)),
     Text(Update(<<10>>, << <<"a", "b">> >>, <<"a'">>)),
     Text(Update(<<5, NoValue>>, << <<"a">> >>, <<NoValue, "b">>)),
     Text([Anonymous(Update(<<2>>, << <<"b">> >>, NoValue)) EXCEPT
              !.timestamp = NoValue]),
     Text(Anonymous(Update(<< >>, << <<"b">> >>, <<"a">>)))}

\* No events: another type of data, another type of message, a text that is no JSON.
Ignored ==
    {Text([Update(<<1>>, << <<"a">> >>, << >>) EXCEPT !.type = "OPEN"]),
     [type |-> NoValue, data |-> Update(<<1>>, << <<"a">> >>, << >>)],
     NotJson}

\* A prefix that cannot be parsed comes first, or after one that was applied.
Malformed ==
    {Text(Update(<<1>>, << <<"bad", "a">> >>, << >>)),
     Text(Anonymous(Update(<<1>>, << <<"a">>, <<"bad">> >>, <<"b">>)))}

AllTexts == Updates \cup Ignored \cup Malformed

=============================================================================
