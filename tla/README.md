# A TLA+ model of ASNPrefixMap

ASNPrefixMap listens to RIS Live BGP updates, keeps for every prefix which peer
announces it with which origin ASN, and exports the mapping of prefixes to
origins. This directory holds TLA+ modules of its parts, TLC configurations that
check them on small instances, and TLAPS proofs about every part modelled. Every
module is translated from the sources under `src/`; `PROJECT.json` names the
lines each definition stands for.

## 1. The system

| Part | State it keeps | Operations |
|---|---|---|
| `RoutingState` (`routing_state.*`) | per family: prefix -> record (packed observations, parallel timestamps, per-ASN counters, selected origin) and prefix -> exported origin | `announce`, `withdraw`, `restore_observation`, `rebuild_aggregated`, `clear`, reads |
| `PeerRegistry` (`peer/`) | identity -> id, id -> identity, next id | `get_or_add`, `insert_with_id`, `contains`, `get`, `clear` |
| `SnapshotIO` (`snapshot/`) | the snapshot file | `save_snapshot`, `load_snapshot` |
| `RisLiveWebSocketSource` (`source/`) | connection, read buffer, backoff delay | `next_message` with connect, subscribe, backoff, reset; destructor |
| RIS Live parser (`parser/`) | none | one raw message -> announce events, then withdraw events |
| main loop (`main.cpp`) | the two stop flags, the statistics of the run | pull, parse, apply; save and export at the end |
| `FileJsonlSource`, `BgpSource` (`source/`) | file position | `next_message` |
| `GrowthStatsTracker` (`stats/`) | sets of all prefixes and ASNs seen, rolling window of rates | event counting, `sample_now`, plateau detection |
| binary prefixes (`prefix/`) | none | parsing with masking, printing |
| configuration, error texts, demo | none worth modelling | |

How they interact: one thread runs everything by direct calls. `main` asks the
source for a message (a blocking call), hands it to the parser, whose callback
resolves the peer in the registry once per message and applies each event to the
routing state and the statistics. A snapshot is loaded before the loop and saved
after it. The only concurrency is the two stop flags, set by the signal handler
and by a detached thread that waits for a key, and the network.

What is hard, and what makes each part right:

* **RoutingState** avoids recomputation: removal swaps the last observation into
  the hole in two parallel vectors, counters are adjusted, and the winner is
  rescanned only when the selected origin loses a peer. After any sequence of
  updates the record must be what a recount gives, and the export table in step.
* **PeerRegistry**: an id must never mean two peers, also when ids restored with
  gaps mix with new ones.
* **SnapshotIO** rewrites its file in place and drops unused peers: a restart must
  bring back the same routes for the same peers, and a file cut off by a crash
  must not bring back wrong ones.
* **The source** carries its delay between outages in two variables and checks
  the stop flag at certain points only: exact backoff, whole messages, no reading
  of a connection that is not subscribed, no call begun after a stop, ending and
  recovering.
* **Parser and loop**: events are applied one by one, errors unwind through the
  parser, a signal drops the message in hand and a key press does not.
* **Growth statistics** keep sums and differences incrementally and are sampled
  only between messages: no prefix may be lost or counted twice between two
  lines, and a plateau must be the slow growth of a whole window, told once.
* **Binary prefixes** are the keys of everything: texts of one network must give
  one key, at every length from 0 to the host's, and a snapshot must give it back.

`PROJECT.json` lists these as hazards, each at its line, with the properties that
would notice it going wrong.

## 2. The modules

| Module | Models | Remarks |
|---|---|---|
| `HashMap` | `std::unordered_map` | functions whose domain is the set of keys |
| `PrefixRecord` | one `PrefixRecord` and the helpers on it | pure operators; the record is a TLA+ record with the C++ member names |
| `RoutingState` | the class | one action per path through `announce_impl` and `withdraw_impl`, plus `Clear` and `RebuildAggregated`. The two families run the same templates on disjoint keys, so each pair of maps is one function |
| `RoutingTable` | what it promises | the last route per prefix and peer, and a full recount of the votes after every update |
| `SelectionScan` | the loop of `recompute_selected_from_counts` | one iteration per step in any order of the unordered map; justifies `RecomputeSelected` |
| `PeerRegistry` | the class | ids modulo `PeerIdLimit`; its specification is `RegistrySpec`, its types `RegistryTypeOK` |
| `SnapshotIO` | save, load and the process life around them | EXTENDS `RoutingState` and `PeerRegistry`; one step per line written and per peer or row restored; a crash between any two, or within a line; peers whose name splits their line (`Splitting`) |
| `MessageSource` | what `next_message` promises its caller about stops | four phases of a call: idle, asked, barred (it has noticed the stop and starts no network call any more), ended |
| `RisLiveSource` | `RisLiveWebSocketSource` | `pc` is the point the thread is at; every network call is a state of its own whose return is a separate action |
| `RisLiveParser` | `parse_ris_live_message` | pure operators from a text, a tree of JSON members with `NoValue` for one that is missing or of the wrong kind, to the sequence of its events |
| `Ingest` | creating the source, main loop, stops, save and export | EXTENDS `RisLiveParser`; INSTANCEs `MessageSource` for the source and `RoutingTable` with peers as identities: that registry and routing state together are such a table is `ImplementsTableByPeer` of `SnapshotIO` |
| `GrowthStats` | `GrowthStatsTracker` | the ever-seen sets, the last sample's counts, the window with its sum, the detection; time in ticks, rates as whole multiples of 1/`RateUnit` |
| `IngestGrowth` | what `main` does about statistics, around `Ingest` | EXTENDS `Ingest` and INSTANCEs `GrowthStats`: each step of the loop together with the report it makes; sampling when due, the last sample, the lines of the CSV file |
| `BinaryPrefix` | `parse_prefix` and `to_string` | a length is what stands after the slash, and `Stoul` what `std::stoul` makes of it; an address is its bits at the real widths; the masks are taken bit by bit and byte by byte as in the code, the shift by the full width with the outcomes processors give |
| `MC...` | - | values of the constants for TLC |
| `DataLemmas` | - | lemmas about the operators of `PrefixRecord`, and about naturals, recursive functions and sequences, for the proofs of all modules |
| `...Proofs` | - | the theorems about a module and the lemmas they rest on; those about the registry are in `SnapshotIOProofs`, those about `IngestGrowth` in `IngestProofs` |

Definitions headed `Mutant:` are variants of the definition after them with a
plausible bug. They are used by nothing in the specifications; `PROJECT.json`
says which property notices each of them when it takes the definition's place.

Refinement chain: `SelectionScan` shows that the loop computes what
`PrefixRecord!RecomputeSelected` says; `RoutingState` implements `RoutingTable`
by peer id; `SnapshotIO` implements `RoutingTable` by peer identity, over
restarts; `Ingest` uses that table. On the other side `RisLiveSource` implements
`MessageSource`, on which `Ingest` is built, and `IngestGrowth` implements
`GrowthStats`: the loop reports to the tracker in one of the orders that module
allows, so what is checked of the tracker alone holds in the program.

## 3. What the runs check

| Run | Bounds | Shows |
|---|---|---|
| `routing` | 1 prefix, 4 peers (symmetric), ASNs 0-2, 2 timestamps | `RecordsCoherent`, `SelectionsBest`, `AggregatedInSync`, `SwitchHasCause`, `ImplementsRoutingTable`, `RebuildFindsNothing` |
| `selection_scan_orders` | all counters of up to 4 ASNs with values up to 3 | `OrderDoesNotMatter` |
| `snapshot` | 1 prefix per family, 2 peers (symmetric), ids 1-2, 1 ASN, 2 timestamps, unlimited restarts | `RowsHavePeers`, `RestartRestoresRoutes`, `PartialLoadIsPartial`, `ImplementsTableByPeer` |
| `snapshot_peers` | 1 prefix, 2 peers (symmetric) and one whose name splits its line, ids 1-4, 2 timestamps, unlimited restarts | `CompleteFileLoads`, `MapsAreInverse`, `RejectedFileIsKept`, `IdsAreStable` |
| `source` | reconnecting off, on without limit, or on with 5 attempts; delays 2, 4, 8, 12, 12 in chunks of 3; drops noticed or silent | `TypeOK`, `ReadsOnlySubscribed`, `OneWholeMessage`, `BackoffIsExponential`, `GivesUpWhenExhausted`, `NoConnectAfterStop`, `StopTerminatesIfNoticed`, `Recovers`, `ImplementsMessageSource` |
| `source_silent_stop` | drops are silent | refutes `StopTerminates` |
| `ingest_loop` | no message limit, or a limit of 2; 10 kinds of messages, 2 prefixes, one of them with 2 texts, 2 peers, 2 loaded tables, counters modulo 3 | `MessageAppliedWhole`, `SavedIsWhole`, `EventsAccounted`, `SignalFreezesTable`, `StopEnds` |
| `ingest_malformed` | a message with a malformed prefix | refutes `MalformedIgnored` |
| `growth` | 3 prefixes, 1 ASN, every loaded state, a window of 2, intervals up to 2 ticks | `WindowSumIsExact`, `GrowthAddsUp`, `PlateauIsSlowGrowth`, `QuietIsDetected` |
| `ingest_growth` | message limits 1 and 3, 5 kinds of messages, 2 loaded tables, samples due every tick, statistics on or off | `SeenCoversTable`, `PlateauIsTold`, `ImplementsGrowthStats`, `LinesAreCurrent` |
| `growth_unsampled` | statistics off, no message limit, 1 kind of message, counters modulo 2 | refutes `PlateauIsReported` |
| `prefix` | real widths of addresses, an `unsigned long` of 10 bits; 2 addresses of each family, lengths 0-130, 255, 256, 280 and no number; 9 of them with every combination of blanks, sign and trailing text; with and without slash, colon, dot | `ParsedIsCanonical`, `AcceptsExactly`, `RoundTrip` |

Type correctness of the routing state, the registry and the prefixes, the
loop invariant of the rescan (`BestOfVisited`), the freshness of the next id and the
absence of reads after a stop are not checked by runs of their own: they are proved
(section 4), for all instances.

Why the bounds are enough. In one record the code compares the counters of two
ASNs at a time and swaps one observation with the last one: with four peers and
three ASNs there are ties, strict majorities, losses of the lead and removals at
the first, middle and last index, all at once. Records do not interact; that none
leaks into another is seen by the two prefixes of `snapshot`, whose table is refined
as well. With three peers and four ids of `snapshot_peers` restored ids have gaps
below new ones; any mixture of additions and insertions, also those the program does
not make, is what the theorems about `RegistrySpec` are about. Restarts are
unlimited, and with as many ids as peers in `snapshot` an id is soon dropped and
given to the other one; the one ASN of `snapshot` is enough because the choice between origins
is the business of `routing`, while its timestamps tell the routes of two
peers apart. Exchanging the peers changes nothing, since all orders in a save or
a load go by ids and prefixes. In `snapshot` all names are plain, so that a rejected
file is one that was cut off; in `snapshot_peers` a name does it as well, with
two other peers before, behind or beside it in the order of ids. The delays of
`source` double three times, the last time into the maximum, and one chunk is shorter than a whole one. The feed of
`Ingest` is unlimited: its counters wrap at `SizeLimit` as `std::size_t` does, and
a small `SizeLimit`, above every message limit checked, keeps the states finite. The
messages of the two ingest runs leave out each member the parser looks for, or give
it another kind, at least once.
`growth` has a window that fills, slides and empties of rates from no growth to
the whole table at once, on either side of the threshold, before and after the
minimal runtime; its counters, which decide nothing, are modulo 1. In
`ingest_growth` three messages leave room for two samples in the loop and the last
one; `growth_unsampled` needs one message that is repeated. `prefix` has all
lengths, one address of ones and one of alternating bits: what happens to one bit
depends on no other. Its `unsigned long` of 10 bits is four times what the code
compares with, so that a number above 255 is narrowed into the range of lengths, and
a negated one wraps into it and out of it.

The named bounds: `LastFreeId` (no id above it is handed out), `AttemptCap` (the
attempt counters saturate; with a limit it lies above the limit, without one above
the attempt that reaches the maximal delay), `MaxInterval` (the clock of the
growth statistics waits for a sample after so many ticks; an uptime beyond
`MinRuntime` counts as `MinRuntime`; startup leaves room in it for the interval
before the first sample).

Three runs show disagreements between the code and what is written about it
(`findings` in `PROJECT.json`): `source_silent_stop` (the read has no timeout, so
a connection that died silently blocks a requested stop for ever; for the same
reason an outage that is not noticed is never recovered from); `ingest_malformed`
(a malformed prefix ends the process without saving); and `growth_unsampled` (with
the shipped settings no plateau is ever reported, for samples are taken only while the
statistics file is written, `main.cpp:235`; that the detection works when they are
taken is `QuietIsDetected`).

Five behaviours that the models have and that no document speaks about clearly
enough to call them disagreements: with reconnecting switched off a connection
that breaks is replaced all the same, once and without delay; a peer with a tab or a
line end in its host or address makes a completely written snapshot unreadable, for
nothing is escaped (`CompleteFileLoads` has this as its first part); a connection that is
subscribed and breaks at once, again and again, never gets beyond the first delay
nor to the limit of attempts, which count within one outage; the average weighs
every sample alike, so that irregular samples, the last one of a run above all, may
report a plateau that the growth per time does not have (`PlateauIsSlowGrowth`
speaks of regular samples); and `parse_prefix` takes lengths with blanks, a sign or
trailing text, `AcceptedAnyway` in `AcceptsExactly`.

Deadlock is checked except where the process ends (`RisLiveSource`, `Ingest`,
`IngestGrowth`), or the loop or function does (`SelectionScan`, `BinaryPrefix`).

### Fairness

* `RisLiveSource!FairSpec`: weak fairness of the thread's own steps, for one
  thread runs them and nothing suspends it; and of the return of network calls,
  *as soon as the network lets them return*: a connect to a reachable server
  succeeds and to an unreachable one fails, a live connection delivers (RIS Live
  is a continuous feed), a connection known to be broken raises an error. A
  silent connection enables no return, and nothing in the code makes one. Stops
  and outages are not fair.
* `Ingest!FairSpec`: weak fairness of the main thread, and of an answer of
  `next_message` once a stop is requested; without a stop a call may sit out any
  outage. The second is `MessageSource!Fairness`, which `source` shows of
  `RisLiveSource` under the condition `NeverSilent`, and `source_silent_stop`
  refutes without it.
* `GrowthStats!FairSpec`: time passes, and samples are taken again and again,
  for in the loop every message lets a sample be taken that is due, and RIS Live
  is a continuous feed. Only `QuietIsDetected` needs it.
* `IngestGrowth!GrowthFairSpec`: the main thread runs, the source answers a stop,
  the feed goes on, and time passes. Only the refutation of `PlateauIsReported` needs
  it: the process neither stops nor waits, it goes on without samples.

## 4. What is proved

The proofs hold for every value of the constants: all prefixes, origins,
timestamps, peers and ids, delays and limits, messages, texts and addresses. What
is assumed are the named `ASSUME`s of the modules:

* the families are disjoint, ASNs are naturals, `NoRoute` is no route; peers, and
  for the tracker prefixes and ASNs, are finite in number (`PeerIdsAssumption`,
  `PeersAssumption`, `FiniteAssumption`);
* ids stay below `PeerIdLimit` (`IdsAssumption`), the routing state is told the ids
  the registry gives (`SameIdsAssumption`), and the order of family and text puts
  each prefix in a place of its own (`RankAssumption`);
* a message gives events whose peer, origin and timestamp are in the sets the tables
  are made of (`MessagesAssumption`), and a loaded table is one (`TablesAssumption`);
* attempt limits lie below `AttemptCap`; rates are whole multiples of 1/`RateUnit`
  (`RateAssumption`); addresses of a family have its separators in their text, and an
  `unsigned long` is wider than a byte (`ULongAssumption`).

Which peers have a name that splits its line (`SplittingAssumption`), and whether
statistics are written (`OutputAssumption`), is left open.

`BackoffDoubles` alone has a hypothesis besides, `BackoffFits`: twice the maximal
delay fits its type (above that the code's delays wrap to something else), and
`AttemptCap`, a bound of the model, comes after the attempt that reaches the maximum.

| Module | Theorem | States |
|---|---|---|
| `RoutingStateProofs` | `TypesHold` | `Spec => []TypeOK` |
| | `RecordsStayCoherent` | `Spec => []RecordsCoherent` |
| | `SelectionsStayBest` | `Spec => []SelectionsBest` |
| | `AggregatedStaysInSync` | `Spec => []AggregatedInSync` |
| | `RebuildRepairsNothing` | `Spec => RebuildFindsNothing` |
| | `Implementation` | `Spec => ImplementsRoutingTable` |
| | `SwitchesHaveCause` | `Spec => SwitchHasCause` |
| `SelectionScanProofs` | `SelectionIsBestSoFar` | `Spec => []BestOfVisited` |
| | `ScanOrderDoesNotMatter` | `Spec => []OrderDoesNotMatter` |
| `SnapshotIOProofs` | `IdsKeepTypes` | `RegistrySpec => []RegistryTypeOK` |
| | `MapsStayInverse` | `RegistrySpec => []MapsAreInverse` |
| | `NextIdStaysFresh` | `RegistrySpec => []NextIdIsFresh` |
| | `IdsStayStable` | `RegistrySpec => IdsAreStable` |
| | `CompleteFilesLoad` | `SnapshotSpec => []CompleteFileLoads` |
| | `RejectedFileStays` | `SnapshotSpec => RejectedFileIsKept` |
| | `RowsKeepPeers` | `SnapshotSpec => []RowsHavePeers` |
| | `RestartRestores` | `SnapshotSpec => RestartRestoresRoutes` |
| | `PartialLoadStaysPartial` | `SnapshotSpec => PartialLoadIsPartial` |
| | `ImplementationByPeer` | `SnapshotSpec => ImplementsTableByPeer` |
| `RisLiveSourceProofs` | `TypesHold` | `Spec => []TypeOK` |
| | `ReadsStaySubscribed` | `Spec => []ReadsOnlySubscribed` |
| | `MessagesStayWhole` | `Spec => []OneWholeMessage` |
| | `GivesUpInTime` | `Spec => []GivesUpWhenExhausted` |
| | `StopPreventsConnects` | `Spec => NoConnectAfterStop` |
| | `StopPreventsReads` | `Spec => NoReadAfterStop` |
| | `BackoffDoubles` | `BackoffFits` gives `Spec => []BackoffIsExponential` |
| | `SourceKeepsPromise` | `Spec => Promise!Spec`, the safety half of `ImplementsMessageSource` |
| `IngestProofs` | `FilesAreWhole` | `Spec => []SavedIsWhole` |
| | `SignalStopsApplying` | `Spec => SignalFreezesTable` |
| | `EventsAreAccounted` | `Spec => []EventsAccounted` |
| | `MessagesAreAppliedWhole` | `Spec => []MessageAppliedWhole` |
| | `TrackerOnlyWatches` | `GrowthSpec => Spec` |
| | `SeenCovers` | `GrowthSpec => []SeenCoversTable` |
| | `LinesStayCurrent` | `GrowthSpec => LinesAreCurrent` |
| | `PlateauIsToldOnce` | `GrowthSpec => []PlateauIsTold` |
| | `LoopImplementsGrowthStats` | `GrowthSpec => ImplementsGrowthStats` |
| `GrowthStatsProofs` | `GrowthIsComplete` | `Spec => []GrowthAddsUp` |
| | `RollingSumIsExact` | `Spec => []WindowSumIsExact` |
| | `PlateauIsRight` | `Spec => PlateauIsSlowGrowth` |
| `BinaryPrefixProofs` | `TypesHold` | `Spec => []TypeOK` |
| | `ParsedStaysCanonical` | `Spec => []ParsedIsCanonical` |
| | `AcceptedAreExactly` | `Spec => []AcceptsExactly` |
| | `SnapshotKeysSurvive` | `Spec => []RoundTrip` |

**Routing state.** No property is inductive alone: that counters are tallies needs
that a peer occurs once, the winner needs the tallies, the export table needs the
winner, and all need the types. Their conjunction, record by record, is the
inductive invariant `IInv` of `RoutingStateProofs` (`InvariantHolds`). The lemmas
of `DataLemmas` say what each helper does to one good record: swap-removal
keeps every other observation with its timestamp, a counter changes by one
exactly when its set of backers does, the best of a finite set of counters exists
and is unique (the least ASN of those with the largest counter; the least element is
the library's minimum of a well-founded order), and an offer or a rescan gives
that best. Each action of
`RoutingState` then replaces one record by a good one. For `Implementation`, a
winner of the counters is a winner of the votes, since the backers of an ASN in
the record are its voters in the row; so each action maps to the abstract
announce or withdraw, a rebuild to a stutter, a clear to a clear. `SwitchesHaveCause`
is an argument about the abstract table: two origins with unchanged backers before
and after an update compare as before.

For the scan the invariant is `TypeOK` with `BestOfVisited`; when nothing is left
to visit, the best of the visited is the unique best of all.

**Registry.** `MapsAreInverse` is not inductive: `get_or_add` writes `by_id_`
at the next id without looking whether it is in use, so it needs `NextIdIsFresh`,
which in turn needs the types, for an id that wraps would not be fresh.

**Snapshots.** The invariant `SnapshotInv` has four parts. `MemoryInv`: the
invariants of routing state and registry, and `Linked`, that every id with a route
is that of a registered peer. Without `Linked` a new peer could be given an id that
still has the routes of another; with it each update under an id is the same update
under the identity (`MemorySet`), and as the registry takes peers and ids onto each
other one to one, each origin has as many voters among peers as among ids
(`VotersByPeer`), so both recounts give one export table (`ExportByPeer`).
`FileInv`: what holds of the file whenever the process dies. Its lines have keys of
their own and routes that were being saved; once there is a line of observations,
all peers are there. `SaveInv`: what is written and what is pending make up the
memory. `LoadInv`: what is restored and what is pending make up the file, so that
the next row is never one that is there already, which would be counted as a repeated
announcement. A complete file has every saved route by identity (`FileIsComplete`),
though the ids differ from one life of the process to the next. That it is rejected
exactly if a saved peer splits its line (`CompleteFilesLoad`) needs that the peers
written and those pending are the ones with routes, and `RejectedFileStays` that no
process gets past a rejected file: whoever is neither down nor writing has read a file
without such a line. The steps of the
processes then map to announce, withdraw and clear of the table by peer; a load is a
clear and the announcements of its rows, a save is nothing.

**Source.** The invariant says where the connection exists and is subscribed
(`ConnectedInv`), that between two reads the buffer holds nothing or the start of
one message (`BufferInv`), that what was slept and what remains share out the
delay (`SleptInv`), and how the local attempt counter relates to the tries of the
outage at each point (`AttemptInv`): the counter is one ahead while the thread
sleeps, which is where a try too many could come from. The two properties of a
stop follow from the guards, the second with the set of points a call made after
the stop can be at. `BackoffIsExponential` speaks of the delay just slept; its
invariant `BackoffInv` says what both variables that carry the delay hold at every
point, as the power of two of the number of tries, and that only the first attempt of
the process has no delay before it.

**Ingest loop.** `FilesInv`: outside of a message the table is the one at its
boundary, and what has been written is that table; `CountsInv`: what was applied is
what was emitted, modulo the width, also in the middle of a message. For
`MessageAppliedWhole` the invariant `ApplyingInv` says that applying the events that
are left gives the table with the whole message applied (`Completed`), which each
event keeps because announcements come before withdrawals and the routes of one
message are alike. That the events of the parser are those of the message's lists is
a lemma about flattened sequences.

**Growth statistics.** `SeenInv`: what was seen at the last sample and what was found
since are what is seen now, so no difference wraps. `WindowInv`: the rates in the
window are those of the last samples, and the sum kept is their sum; a sum over a
sequence is what a recursive function gives, and that such a function exists
and what it gives after an append or a removal is proved by induction over the length.
In the loop, `TrackerInv` says that tracker and loop agree on counters and active
prefixes except while a message is worked off, and `ToldInv` that the flag of the
last sample and what was printed stay in step. `TrackerOnlyWatches` carries all that
is proved of `Ingest` over to the loop with statistics.

**Prefixes.** The invariant says what has been established at each point of
`parse_prefix`; the loop of `apply_mask_v6` has the classical loop invariant: the
bytes before `index` are masked, the others are as read, and `bits_left` is what
is left of the length at this byte (`BitsAt`). That a printed key parses to itself
needs that masking twice is masking once. For `AcceptedAreExactly` what `std::stoul`
yields is put back to what was written: a negated number is a length exactly if both
add up to 0 modulo the width (`Negated`).

The strengthened invariants were checked by TLC on the instances of the runs before
they were proved. Induction over naturals is used where it was needed, in the form of
`SetInduction`: the library's induction theorems take an operator as a parameter and
cannot be instantiated, a set of naturals can.

Only model-checked is liveness, which is out of the provers' reach, and ENABLED with
it: `StopTerminatesIfNoticed`, `Recovers`, the liveness half of
`ImplementsMessageSource`, `StopEnds`, `QuietIsDetected`. The three refuted properties
need TLC by nature. All other properties of the runs are proved.

## 5. What is not modelled

* Texts: the layout of exports and of the CSV file, durations, logging, error
  texts. In `SnapshotIO` a line is the row it stands for, or one the parser
  rejects, because it is cut off or a name in it splits it; or, cut within its last
  field or within a name after a tab, a row with a smaller timestamp or another peer.
  A name with tabs and line ends so placed that its pieces are lines with the right
  number of fields is left out. In `BinaryPrefix` a text is the separators the code
  looks for, what `inet_pton` makes of the address, and the length as blanks, sign,
  digits and rest; `inet_pton` and `inet_ntop` are taken to be inverse to each other. In `Ingest` parsing a prefix is
  the function `PrefixOf`, under which several texts are one prefix.
* `nlohmann::json`: a text has the members it finds. An exception of another kind
  than the one the parser catches (a number too large for a `double`) would end the
  process as `ApplyThrows` does.
* Rounding: rates and sums of the growth statistics are exact in the model, in
  the code a `double` that adds up and subtracts. The wrap of a delay beyond 2^63
  and of ids beyond 2^32 is in the models, but above the bounds of the runs.
* The hashes and family names of prefixes: they decide nothing but speed and text.
* Snapshots edited by hand: duplicate ids, unknown sections, numbers out of
  range. Only files the program wrote, whole or cut off, occur.
* A configuration that loads and saves different files, or loads none: in
  `SnapshotIO` a start reads what the last save wrote.
* Lost file-system blocks after a power failure: the file keeps what was flushed.
* Boost.Beast, TLS and the server are the network of `RisLiveSource`: a call
  returns with success or an error, or does not return.
* The configuration is read once: its values are constants. The demo program has
  no state.

## 6. Plan

Done: routing core, registry, source with its contract, snapshot, ingest loop,
growth statistics alone and in the loop, binary prefixes; all safety and action
properties of them and the refinements are proved.

Left:

1. The contract of a source is proved of `RisLiveSource` and assumed in `Ingest` by
   INSTANCE; a module with both, one thread running through the two, would show
   that no state of the loop is lost between them.
2. The save of `SnapshotIO` and the loop of `Ingest` meet in `main`; that a loop
   over `SnapshotIO` implements the one over `RoutingTable` is argued by
   `ImplementationByPeer` and could be stated.
3. The configuration: which values `load_config` lets through, against the
   assumptions on the constants.
