---------------------------- MODULE MCIngestGrowth ----------------------------
(* Small instances of IngestGrowth for TLC. *)
EXTENDS IngestGrowth

CONSTANTS net_v4, net_v6

OneV4       == {net_v4}
OneV6       == {net_v6}
TwoPrefixes == {net_v4, net_v6}

PeerA    == [host |-> "rrc00", peer |-> "10.0.0.1", peer_asn |-> 1]
PeerB    == [host |-> "", peer |-> "", peer_asn |-> 0]
TwoPeers == {PeerA, PeerB}

TextsOfPrefixes == "v4" :> net_v4 @@ "v6" :> net_v6 @@ "bad" :> BadPrefix

Update(path, announcements, withdrawals) ==
    [type |-> "ris_message",
     data |-> [type |-> "UPDATE", host |-> "rrc00", peer |-> "10.0.0.1", peer_asn |-> 1,
               timestamp |-> 7, path |-> path, announcements |-> announcements,
               withdrawals |-> withdrawals]]

Anonymous(text) ==
    [text EXCEPT !.data.host = NoValue, !.data.peer = NoValue, !.data.peer_asn = NoValue]

NoRoutes   == [prefix \in TwoPrefixes |-> [peer \in TwoPeers |-> NoRoute]]
Route(asn) == [origin_asn |-> asn, timestamp |-> 7]

\* No snapshot, or one with two origins of a prefix.
TwoTables ==
    {NoRoutes,
     [NoRoutes EXCEPT ![net_v4] = PeerA :> Route(1) @@ PeerB :> Route(2)]}

\* Both families at once, a withdrawal without anything announced, messages without
\* events, one that fails.
FiveTexts ==
    {Update(<<2>>, << <<"v4", "v6">> >>, NoValue),
     Update(<<2>>, NoValue, <<"v4">>),
     Anonymous(Update(NoValue, << <<"v4">> >>, << >>)),
     Anonymous(Update(<<1>>, << <<"v6", "bad">> >>, << >>)),
     [type |-> "ris_message", data |-> NoValue]}

\* A feed that says the same again and again.
OneText == {Update(<<2>>, << <<"v4", "v6">> >>, NoValue)}

=============================================================================
