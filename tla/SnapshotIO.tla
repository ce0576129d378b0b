------------------------------ MODULE SnapshotIO ------------------------------
(***************************************************************************)
(* SnapshotIO with the two parts it saves and restores, over restarts of   *)
(* the process: the ingest loop updates the registry and the routing state *)
(* together, a save rewrites the snapshot file in place line by line, a    *)
(* load at the next start brings both back.  The process may die at any    *)
(* point; a file it was writing then ends where the last flush ended, in   *)
(* the middle of a line or between two.                                    *)
(***************************************************************************)
EXTENDS RoutingState, PeerRegistry

CONSTANTS
    PrefixRank,  \* the place of a prefix in the order of family and text
    Splitting    \* the peers whose host or address holds a tab or a line end

\* The routing state is told the ids that the registry gives.
ASSUME SameIdsAssumption == PeerIds = UsableIds
ASSUME RankAssumption ==
    /\ PrefixRank \in [Prefix -> Nat]
    /\ \A p, q \in Prefix : PrefixRank[p] = PrefixRank[q] => p = q
ASSUME SplittingAssumption == Splitting \subseteq Peers

VARIABLES
    pc,
    file,           \* the snapshot file, see FileOf
    pending_peers,  \* what the save has still to write, or the load to restore
    pending_rows,
    saved,          \* history: the routes when the last save began
    complete,       \* history: the file has all of them
    routes          \* history: RoutesByPeer, so that a step has both tables at hand

memory == <<by_prefix, aggregated, by_info, by_id, next_peer_id>>
disk == <<file, saved, complete>>
pending == <<pending_peers, pending_rows>>
snapshotVars == <<memory, disk, pending, pc, routes>>

\* What a file holds: how far its section headers go, the peer lines (by id), the
\* observation lines, and whether there is a line in it that the parser rejects.
FileOf(stage, peers, rows, rejected) ==
    [stage |-> stage, peers |-> peers, rows |-> rows, rejected |-> rejected]

\* The routes by peer identity: what a snapshot is to preserve.
RouteOf(prefix, peer) ==
    IF Known(peer)
    THEN RouteOfPeer(RecordAt(prefix), by_info[peer])
    ELSE NoRoute

RoutesByPeer == [prefix \in Prefix |-> [peer \in Peers |-> RouteOf(prefix, peer)]]

SnapshotInit ==
    /\ Init
    /\ RegistryInit
    /\ pc = "down"
    /\ file = FileOf("absent", EmptyMap, {}, FALSE)
    /\ pending_peers = EmptyMap
    /\ pending_rows = {}
    /\ saved = RoutesByPeer
    /\ complete = FALSE
    /\ routes = RoutesByPeer

\* The memory of the process is gone; its successor starts from nothing.
Exit ==
    /\ Clear
    /\ ClearRegistry
    /\ pending_peers' = EmptyMap
    /\ pending_rows' = {}
    /\ pc' = "down"

-----------------------------------------------------------------------------
(* load_snapshot.                                                          *)

\* No file, or one without any content.
StartEmpty ==
    /\ pc = "down"
    /\ file.stage \in {"absent", "empty"}
    /\ ~file.rejected
    /\ pc' = "running"
    /\ UNCHANGED <<memory, disk, pending>>

\* Mutant: a line that does not parse is skipped.
StartLoadSkipping ==
    /\ pc = "down"
    /\ file.stage \in {"peers", "observations"}
    /\ Clear
    /\ ClearRegistry
    /\ pending_peers' = file.peers
    /\ pending_rows' = file.rows
    /\ pc' = "inserting"
    /\ UNCHANGED disk

\* The whole file has been parsed, registry and state are cleared.
StartLoad ==
    /\ pc = "down"
    /\ file.stage \in {"peers", "observations"}
    /\ ~file.rejected
    /\ Clear
    /\ ClearRegistry
    /\ pending_peers' = file.peers
    /\ pending_rows' = file.rows
    /\ pc' = "inserting"
    /\ UNCHANGED disk

\* The parser throws and main returns 1 without touching the file.
StartFails ==
    /\ pc = "down"
    /\ file.rejected
    /\ UNCHANGED snapshotVars

\* Mutant: peers get fresh ids while the observations keep the old ones.
InsertPeerRenumbered(peer_id) ==
    /\ pc = "inserting"
    /\ peer_id \in DOMAIN pending_peers
    /\ GetOrAdd(pending_peers[peer_id])
    /\ pending_peers' = Erase(pending_peers, peer_id)
    /\ UNCHANGED <<by_prefix, aggregated, disk, pending_rows, pc>>

\* The peers come out of an unordered map.
InsertPeer(peer_id) ==
    /\ pc = "inserting"
    /\ peer_id \in DOMAIN pending_peers
    /\ InsertWithId(peer_id, pending_peers[peer_id])
    /\ pending_peers' = Erase(pending_peers, peer_id)
    /\ UNCHANGED <<by_prefix, aggregated, disk, pending_rows, pc>>

InsertFails(peer_id) ==
    /\ pc = "inserting"
    /\ peer_id \in DOMAIN pending_peers
    /\ ~Insertable(peer_id, pending_peers[peer_id])
    /\ Exit
    /\ UNCHANGED disk

\* Mutant: observations are restored before all peers are.
InsertsDoneEarly ==
    /\ pc = "inserting"
    /\ pc' = "restoring"
    /\ UNCHANGED <<memory, disk, pending>>

InsertsDone ==
    /\ pc = "inserting"
    /\ DOMAIN pending_peers = {}
    /\ pc' = "restoring"
    /\ UNCHANGED <<memory, disk, pending>>

\* The sort order of the saved and of the loaded observations. A row differs from
\* every other in its prefix or its peer, so the later keys of the sort never count.
Precedes(left, right) ==
    \/ PrefixRank[left.prefix] < PrefixRank[right.prefix]
    \/ left.prefix = right.prefix /\ left.peer_id < right.peer_id

FirstRow(rows) ==
    CHOOSE row \in rows : \A other \in rows \ {row} : Precedes(row, other)

\* Mutant: the timestamp is left to its default argument.
RestoreRowUndated ==
    LET row == FirstRow(pending_rows) IN
    /\ pc = "restoring"
    /\ pending_rows # {}
    /\ ContainsId(row.peer_id)
    /\ Announce(row.peer_id, row.prefix, row.origin_asn, 0)
    /\ pending_rows' = pending_rows \ {row}
    /\ UNCHANGED <<by_info, by_id, next_peer_id, disk, pending_peers, pc>>

RestoreRow ==
    LET row == FirstRow(pending_rows) IN
    /\ pc = "restoring"
    /\ pending_rows # {}
    /\ ContainsId(row.peer_id)
    /\ Announce(row.peer_id, row.prefix, row.origin_asn, row.timestamp)
    /\ pending_rows' = pending_rows \ {row}
    /\ UNCHANGED <<by_info, by_id, next_peer_id, disk, pending_peers, pc>>

Rebuild ==
    /\ pc = "restoring"
    /\ pending_rows = {}
    /\ RebuildAggregated
    /\ pc' = "running"
    /\ UNCHANGED <<by_info, by_id, next_peer_id, disk, pending>>

-----------------------------------------------------------------------------
(* The ingest loop: an event's peer becomes an id, then the event is       *)
(* applied.                                                                *)

AnnounceFrom(peer, prefix, asn, timestamp) ==
    /\ pc = "running"
    /\ GetOrAdd(peer)
    /\ Announce(IdOf(peer), prefix, asn, timestamp)
    /\ UNCHANGED <<disk, pending, pc>>

WithdrawFrom(peer, prefix) ==
    /\ pc = "running"
    /\ GetOrAdd(peer)
    /\ Withdraw(IdOf(peer), prefix)
    /\ UNCHANGED <<disk, pending, pc>>

-----------------------------------------------------------------------------
(* save_snapshot.                                                          *)

UsedPeerIds == {row.peer_id : row \in StoredObservations}

\* Mutant: all peers are saved, used or not.
SaveBeginsUnpruned ==
    /\ pc = "running"
    /\ pending_peers' = by_id
    /\ pending_rows' = StoredObservations
    /\ file' = FileOf("empty", EmptyMap, {}, FALSE)
    /\ saved' = RoutesByPeer
    /\ complete' = FALSE
    /\ pc' = "writing"
    /\ UNCHANGED memory

\* The peers in use are looked up, then the old file is truncated. (Were one of
\* them unknown, the save would throw before that.)
SaveBegins ==
    /\ pc = "running"
    /\ UsedPeerIds \subseteq DOMAIN by_id
    /\ pending_peers' = [peer_id \in UsedPeerIds |-> by_id[peer_id]]
    /\ pending_rows' = StoredObservations
    /\ file' = FileOf("empty", EmptyMap, {}, FALSE)
    /\ saved' = RoutesByPeer
    /\ complete' = FALSE
    /\ pc' = "writing"
    /\ UNCHANGED memory

WriteHeader ==
    /\ pc = "writing"
    /\ file.stage = "empty"
    /\ file' = [file EXCEPT !.stage = "peers"]
    /\ UNCHANGED <<memory, saved, complete, pending, pc>>

FirstPeer == CHOOSE peer_id \in DOMAIN pending_peers :
                \A other \in DOMAIN pending_peers : peer_id <= other

\* Nothing is escaped: a tab or a line end in a name leaves other than four fields,
\* in a file that is written to its end as in any other.
WritePeer ==
    /\ pc = "writing"
    /\ file.stage = "peers"
    /\ DOMAIN pending_peers # {}
    /\ file' = [file EXCEPT !.peers = Put(@, FirstPeer, pending_peers[FirstPeer]),
                            !.rejected = @ \/ pending_peers[FirstPeer] \in Splitting]
    /\ pending_peers' = Erase(pending_peers, FirstPeer)
    /\ UNCHANGED <<memory, saved, complete, pending_rows, pc>>

WriteSection ==
    /\ pc = "writing"
    /\ file.stage = "peers"
    /\ DOMAIN pending_peers = {}
    /\ file' = [file EXCEPT !.stage = "observations"]
    /\ UNCHANGED <<memory, saved, complete, pending, pc>>

WriteRow ==
    /\ pc = "writing"
    /\ file.stage = "observations"
    /\ pending_rows # {}
    /\ file' = [file EXCEPT !.rows = @ \cup {FirstRow(pending_rows)}]
    /\ pending_rows' = pending_rows \ {FirstRow(pending_rows)}
    /\ UNCHANGED <<memory, saved, complete, pending_peers, pc>>

\* The stream is closed and the process ends.
SaveEnds ==
    /\ pc = "writing"
    /\ file.stage = "observations"
    /\ pending_rows = {}
    /\ complete' = TRUE
    /\ Exit
    /\ UNCHANGED <<file, saved>>

-----------------------------------------------------------------------------
(* Failures.                                                               *)

\* The process is killed, at any time. In the middle of a save, writes that fail
\* have the same effect: nobody looks at the state of the stream.
Crash ==
    /\ pc # "down"
    /\ Exit
    /\ UNCHANGED disk

TornInSave ==
    /\ pc = "writing"
    /\ Exit
    /\ UNCHANGED <<saved, complete>>

\* The line the file ends with is one the parser rejects.
CrashInLine ==
    /\ TornInSave
    /\ file' = [file EXCEPT !.rejected = TRUE]

\* The line ends within the ASN of the peer, or within a name after a tab: it parses
\* as another identity.
CrashInPeer ==
    /\ TornInSave
    /\ file.stage = "peers"
    /\ DOMAIN pending_peers # {}
    /\ \E peer \in (Peers \ Splitting) \ {pending_peers[FirstPeer]} :
          file' = [file EXCEPT !.peers = Put(@, FirstPeer, peer)]

\* The line ends within the timestamp: it parses with a smaller one.
CrashInRow ==
    /\ TornInSave
    /\ file.stage = "observations"
    /\ pending_rows # {}
    /\ \E timestamp \in Timestamps :
          /\ timestamp < FirstRow(pending_rows).timestamp
          /\ file' = [file EXCEPT !.rows =
                @ \cup {[FirstRow(pending_rows) EXCEPT !.timestamp = timestamp]}]

-----------------------------------------------------------------------------

Load ==
    \/ StartEmpty \/ StartLoad \/ StartFails
    \/ \E peer_id \in 1 .. LastFreeId : InsertPeer(peer_id) \/ InsertFails(peer_id)
    \/ InsertsDone \/ RestoreRow \/ Rebuild

Update ==
    \E peer \in Peers, prefix \in Prefix :
        \/ \E asn \in Asns, timestamp \in Timestamps : AnnounceFrom(peer, prefix, asn, timestamp)
        \/ WithdrawFrom(peer, prefix)

Save == SaveBegins \/ WriteHeader \/ WritePeer \/ WriteSection \/ WriteRow \/ SaveEnds

Failure == Crash \/ CrashInLine \/ CrashInPeer \/ CrashInRow

SnapshotNext ==
    /\ Load \/ Update \/ Save \/ Failure
    /\ routes' = RoutesByPeer'

SnapshotSpec == SnapshotInit /\ [][SnapshotNext]_snapshotVars

-----------------------------------------------------------------------------
(* Properties.                                                             *)

\* The file of a save that ran to its end is accepted unless a peer in use has a name
\* that splits its line; and then its observations find their peers, which are there
\* once each, with no other peer beside them (save_snapshot, load_snapshot).
CompleteFileLoads ==
    complete =>
        /\ file.rejected <=>
              \E prefix \in Prefix, peer \in Splitting : saved[prefix][peer] # NoRoute
        /\ {row.peer_id : row \in file.rows} = DOMAIN file.peers
        /\ \A i, j \in DOMAIN file.peers : file.peers[i] = file.peers[j] => i = j

\* A file that the parser rejects is never overwritten: the starts that fail over it
\* leave it as it is, and none goes on without it to save another state in its place
\* (load_snapshot, main).
RejectedFileIsKept ==
    [][file.rejected /\ pc # "writing" => file' = file]_snapshotVars

\* Whatever a crash left of the file, no start meets a row whose peer is not in the
\* registry: "observation references unknown peer_id" never happens to a file the
\* program wrote itself.
RowsHavePeers ==
    pc = "restoring" => \A row \in pending_rows : ContainsId(row.peer_id)

\* A restart brings back exactly the routes that were saved, peer by peer, though
\* ids of unused peers were dropped (docs/architecture.md: "preserve enough
\* information for correct withdraw handling after restart").
RestartRestoresRoutes ==
    [][pc = "restoring" /\ pc' = "running" /\ complete => routes' = saved]_snapshotVars

\* What is loaded from a cut off file is part of what was being saved: no route is
\* invented or given to another peer or origin; only a timestamp may be shortened.
PartialLoadIsPartial ==
    [][pc = "restoring" /\ pc' = "running" =>
        \A prefix \in Prefix, peer \in Peers :
            \/ routes'[prefix][peer] = NoRoute
            \/ /\ saved[prefix][peer] # NoRoute
               /\ routes'[prefix][peer].origin_asn = saved[prefix][peer].origin_asn]_snapshotVars

\* Seen by peer identity, registry and routing state together are one routing table:
\* ids never mix up the routes of two peers, also not a peer new after a restart
\* with one restored from the file (next_peer_id_, peer_registry.cpp).
TableByPeer == INSTANCE RoutingTable WITH
    Peer <- Peers, table <- routes, exported <- aggregated

ImplementsTableByPeer == TableByPeer!Spec

=============================================================================
