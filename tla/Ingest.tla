-------------------------------- MODULE Ingest --------------------------------
(***************************************************************************)
(* The main loop of main.cpp with the RIS Live parser: messages come from  *)
(* the source one at a time, each is parsed into announce and withdraw     *)
(* events that are applied one by one, and when the loop ends the state is *)
(* saved and exported.  Signal handler and keypress thread set their flags *)
(* at any moment.  Registry and routing state are the one routing table by *)
(* peer identity that SnapshotIO shows them to implement.                  *)
(***************************************************************************)
EXTENDS RisLiveParser

CONSTANTS
    Prefix, Peer, Asns, Timestamps, NoRoute,   \* as in RoutingTable
    LoadedTables,   \* what loading the snapshot may have left, the empty table if
                    \* there was none
    Messages,       \* the texts the source may hand over
    PrefixOf,       \* parse_prefix: what a text stands for, several may be the same
    BadPrefix,      \* PrefixOf a text parse_prefix throws on
    MessageLimits,  \* what max_messages may be configured to, 0 for no limit
    StopOnKeypress, \* stop_on_keypress
    SizeLimit       \* 2^w for the width w of std::size_t: the counters wrap

ASSUME CountersAssumption == MessageLimits \subseteq Nat /\ SizeLimit \in Nat \ {0}
ASSUME TablesAssumption ==
    LoadedTables \subseteq
        [Prefix -> [Peer -> [origin_asn : Asns, timestamp : Timestamps] \cup {NoRoute}]]
ASSUME PrefixesAssumption ==
    /\ PrefixOf \in [DOMAIN PrefixOf -> Prefix \cup {BadPrefix}]
    /\ BadPrefix \notin Prefix

PrefixLists == Seq(DOMAIN PrefixOf \cup {NoValue})

ASSUME MessagesAssumption ==
    \A text \in Messages : IsUpdate(text) =>
        LET data == text.data
        IN  /\ BuildPeerInfo(data) \in Peer
            /\ OrZero(data.timestamp) \in Timestamps
            /\ HasOriginAsn(data) => Uint32(Last(data.path)) \in Asns
            /\ data.announcements \in {NoValue} \cup Seq({NoValue} \cup PrefixLists)
            /\ data.withdrawals \in {NoValue} \cup PrefixLists

VARIABLES
    table, exported,        \* peer_registry and state
    pc,
    signal,                 \* g_signal_stop_requested
    key,                    \* stop_requested
    phase,                  \* of the source, see MessageSource
    max_messages,           \* as configured, never written
    message,
    events,                 \* the events of message still to be emitted
    emitted_events,
    raw_messages_received, parsed_events_total, announces_applied,
    withdraws_applied, ignored_messages,       \* IngestionStats
    snapshot, tables,       \* what the files written at the end hold: a sequence
                            \* of one element, empty as long as nothing is written
    outcome,                \* how main returns, once it does
    boundary                \* history: the table when the last message was done

\* Mutant: the key press is forgotten.
ShutdownRequestedBySignal == signal

ShutdownRequested == signal \/ key

Table  == INSTANCE RoutingTable
Source == INSTANCE MessageSource WITH stop <- ShutdownRequested

routing == <<table, exported>>
flags   == <<signal, key, max_messages>>
inputs  == <<flags, phase>>
current == <<message, events, emitted_events>>
stats   == <<raw_messages_received, parsed_events_total, announces_applied,
             withdraws_applied, ignored_messages>>
files   == <<snapshot, tables>>
vars    == <<routing, pc, inputs, current, stats, files, outcome, boundary>>

-----------------------------------------------------------------------------
(* The loop.                                                               *)

\* std::string message;
NoMessage == NotJson

Init ==
    /\ table \in LoadedTables /\ exported = Table!Export(table)
    /\ pc = "starting"
    /\ signal = FALSE /\ key = FALSE /\ max_messages \in MessageLimits
    /\ message = NoMessage /\ events = << >> /\ emitted_events = 0
    /\ raw_messages_received = 0 /\ parsed_events_total = 0
    /\ announces_applied = 0 /\ withdraws_applied = 0 /\ ignored_messages = 0
    /\ snapshot = << >> /\ tables = << >>
    /\ outcome = "running"
    /\ boundary = table
    /\ Source!Init

Counted(counter, n) == (counter + n) % SizeLimit

\* create_source, the last thing before the loop.
CreateSource ==
    /\ pc = "starting"
    /\ pc' = "loop"
    /\ UNCHANGED <<routing, inputs, current, stats, files, outcome, boundary>>

\* The input file cannot be opened, or the configuration names no source there is.
CreateSourceThrows ==
    /\ pc = "starting"
    /\ pc' = "exited"
    /\ outcome' = "failure"
    /\ UNCHANGED <<routing, inputs, current, stats, files, boundary>>

AskSource ==
    /\ pc = "loop"
    /\ ~ShutdownRequested
    /\ pc' = "waiting"
    /\ UNCHANGED <<routing, flags, current, stats, files, outcome, boundary>>
    /\ Source!Ask

LoopEnds ==
    /\ pc = "loop"
    /\ ShutdownRequested
    /\ pc' = "stopping"
    /\ UNCHANGED <<routing, inputs, current, stats, files, outcome, boundary>>

\* next_message returns true, or false at the end of a file, after the last
\* attempt to reconnect, or because it noticed the stop.
Deliver ==
    /\ pc = "waiting"
    /\ message' \in Messages
    /\ pc' = "received"
    /\ UNCHANGED <<routing, flags, events, emitted_events, stats, files, outcome, boundary>>
    /\ Source!Deliver

SourceEnds ==
    /\ pc = "waiting"
    /\ pc' = "stopping"
    /\ UNCHANGED <<routing, flags, current, stats, files, outcome, boundary>>
    /\ Source!End

SourceBarred ==
    /\ UNCHANGED <<routing, pc, flags, current, stats, files, outcome, boundary>>
    /\ Source!Bar

\* Only a signal drops the message; after a key press it is still processed.
DropMessage ==
    /\ pc = "received"
    /\ signal
    /\ pc' = "stopping"
    /\ UNCHANGED <<routing, inputs, current, stats, files, outcome, boundary>>

\* Mutant: the signal is not looked at once a message is there.
AcceptMessageAlways ==
    /\ pc = "received"
    /\ raw_messages_received' = Counted(raw_messages_received, 1)
    /\ events' = EventsOf(message)
    /\ emitted_events' = 0
    /\ pc' = "applying"
    /\ UNCHANGED <<routing, inputs, message, parsed_events_total, announces_applied,
                   withdraws_applied, ignored_messages, files, outcome, boundary>>

AcceptMessage ==
    /\ pc = "received"
    /\ ~signal
    /\ raw_messages_received' = Counted(raw_messages_received, 1)
    /\ events' = EventsOf(message)
    /\ emitted_events' = 0
    /\ pc' = "applying"
    /\ UNCHANGED <<routing, inputs, message, parsed_events_total, announces_applied,
                   withdraws_applied, ignored_messages, files, outcome, boundary>>

Emitted ==
    /\ pc = "applying"
    /\ events # << >>
    /\ PrefixOf[Head(events).prefix] # BadPrefix
    /\ events' = Tail(events)
    /\ emitted_events' = emitted_events + 1
    /\ UNCHANGED <<pc, inputs, message, raw_messages_received, parsed_events_total,
                   ignored_messages, files, outcome, boundary>>

ApplyAnnounce ==
    /\ Emitted
    /\ Head(events).type = "announce"
    /\ LET event == Head(events)
       IN  Table!Announce(PrefixOf[event.prefix], event.peer, event.origin_asn,
                          event.timestamp)
    /\ announces_applied' = Counted(announces_applied, 1)
    /\ UNCHANGED withdraws_applied

ApplyWithdraw ==
    /\ Emitted
    /\ Head(events).type = "withdraw"
    /\ Table!Withdraw(PrefixOf[Head(events).prefix], Head(events).peer)
    /\ withdraws_applied' = Counted(withdraws_applied, 1)
    /\ UNCHANGED announces_applied

\* Mutant: the handler saves what there is.
ApplyThrowsSaving ==
    /\ pc = "applying"
    /\ events # << >>
    /\ PrefixOf[Head(events).prefix] = BadPrefix
    /\ pc' = "stopping"
    /\ UNCHANGED <<routing, inputs, current, stats, files, outcome, boundary>>

\* parse_prefix throws through the parser into main's handler: nothing is saved.
ApplyThrows ==
    /\ pc = "applying"
    /\ events # << >>
    /\ PrefixOf[Head(events).prefix] = BadPrefix
    /\ pc' = "exited"
    /\ outcome' = "failure"
    /\ UNCHANGED <<routing, inputs, current, stats, files, boundary>>

LimitReached == max_messages # 0 /\ raw_messages_received >= max_messages

\* Mutant: the loop is left at the limit before the events are counted.
FinishMessageUncounted ==
    /\ pc = "applying"
    /\ events = << >>
    /\ parsed_events_total' =
          IF LimitReached THEN parsed_events_total ELSE Counted(parsed_events_total, emitted_events)
    /\ ignored_messages' = Counted(ignored_messages, IF emitted_events = 0 THEN 1 ELSE 0)
    /\ pc' = IF LimitReached THEN "stopping" ELSE "loop"
    /\ boundary' = table
    /\ UNCHANGED <<routing, inputs, current, raw_messages_received, announces_applied,
                   withdraws_applied, files, outcome>>

FinishMessage ==
    /\ pc = "applying"
    /\ events = << >>
    /\ parsed_events_total' = Counted(parsed_events_total, emitted_events)
    /\ ignored_messages' = Counted(ignored_messages, IF emitted_events = 0 THEN 1 ELSE 0)
    /\ pc' = IF LimitReached THEN "stopping" ELSE "loop"
    /\ boundary' = table
    /\ UNCHANGED <<routing, inputs, current, raw_messages_received, announces_applied,
                   withdraws_applied, files, outcome>>

-----------------------------------------------------------------------------
(* After the loop.                                                         *)

SaveSnapshot ==
    /\ pc = "stopping"
    /\ snapshot' = <<table>>
    /\ pc' = "exporting"
    /\ UNCHANGED <<routing, inputs, current, stats, tables, outcome, boundary>>

\* The output cannot be opened: the tables are not exported either.
SaveThrows ==
    /\ pc = "stopping"
    /\ pc' = "exited"
    /\ outcome' = "failure"
    /\ UNCHANGED <<routing, inputs, current, stats, files, boundary>>

ExportTables ==
    /\ pc = "exporting"
    /\ tables' = <<exported>>
    /\ pc' = "exited"
    /\ outcome' = "success"
    /\ UNCHANGED <<routing, inputs, current, stats, snapshot, boundary>>

\* The streams cannot be opened: export_tables does not look.
ExportFails ==
    /\ pc = "exporting"
    /\ pc' = "exited"
    /\ outcome' = "success"
    /\ UNCHANGED <<routing, inputs, current, stats, files, boundary>>

-----------------------------------------------------------------------------
(* Asynchronous stops.                                                     *)

Signal ==
    /\ outcome = "running"
    /\ ~signal
    /\ signal' = TRUE
    /\ UNCHANGED <<routing, pc, key, max_messages, current, stats, files, outcome, boundary>>
    /\ Source!Barring

Keypress ==
    /\ outcome = "running"
    /\ StopOnKeypress
    /\ ~key
    /\ key' = TRUE
    /\ UNCHANGED <<routing, pc, signal, max_messages, current, stats, files, outcome,
                   boundary>>
    /\ Source!Barring

SourceAnswers == Deliver \/ SourceEnds \/ SourceBarred

MainStep ==
    \/ CreateSource \/ CreateSourceThrows
    \/ AskSource \/ LoopEnds \/ DropMessage \/ AcceptMessage
    \/ ApplyAnnounce \/ ApplyWithdraw \/ ApplyThrows \/ FinishMessage
    \/ SaveSnapshot \/ SaveThrows
    \/ ExportTables \/ ExportFails

Next == MainStep \/ SourceAnswers \/ Signal \/ Keypress

Spec == Init /\ [][Next]_vars

\* The main thread runs, and with a stop requested the source answers: that is
\* MessageSource!Fairness, which RisLiveSource has unless a connection dies silently.
FairSpec == Spec /\ WF_vars(MainStep) /\ WF_vars(ShutdownRequested /\ SourceAnswers)

-----------------------------------------------------------------------------
(* Properties.                                                             *)

\* The prefixes a list of texts stands for, and those of all announcements.
PrefixesIn(texts) == {PrefixOf[text] : text \in Range(texts) \ {NoValue}}

Withdrawn(data) == IF data.withdrawals = NoValue THEN {} ELSE PrefixesIn(data.withdrawals)

Announced(data) ==
    IF data.announcements = NoValue
    THEN {}
    ELSE UNION {PrefixesIn(texts) : texts \in Range(data.announcements) \ {NoValue}}

\* What one UPDATE means for the table it finds: the peer's route for an announced
\* prefix is replaced if the origin could be read, its route for a withdrawn prefix
\* is gone, also when the same message announced it, and nothing else changes.
EffectOfUpdate(tab, data) ==
    [prefix \in Prefix |-> [peer \in Peer |->
        CASE peer # BuildPeerInfo(data) -> tab[prefix][peer]
          [] peer = BuildPeerInfo(data) /\ prefix \in Withdrawn(data) -> NoRoute
          [] /\ peer = BuildPeerInfo(data)
             /\ prefix \in Announced(data) \ Withdrawn(data)
             /\ HasOriginAsn(data) ->
                [origin_asn |-> Uint32(Last(data.path)), timestamp |-> OrZero(data.timestamp)]
          [] OTHER -> tab[prefix][peer]]]

Effect(tab, text) == IF IsUpdate(text) THEN EffectOfUpdate(tab, text.data) ELSE tab

\* When a message has been worked off, the table is the old one with the whole
\* message applied, however its events were interleaved in it
\* (append_announce_events and append_withdraw_events, the callback in main).
MessageAppliedWhole ==
    pc = "applying" /\ events = << >> => table = Effect(boundary, message)

\* Between messages every parsed event has been applied and counted once, as an
\* announce or as a withdraw.
EventsAccounted ==
    pc \notin {"applying", "exited"} =>
        parsed_events_total = (announces_applied + withdraws_applied) % SizeLimit

\* What is saved and exported is the table after a whole number of messages, and
\* the files agree: no stop, limit or error lets a half-applied message out, and
\* success is reported only if a snapshot was written.
SavedIsWhole ==
    /\ snapshot # << >> => snapshot = <<boundary>>
    /\ tables # << >> => snapshot # << >> /\ tables[1] = Table!Export(snapshot[1])
    /\ outcome = "success" => snapshot # << >>

\* A message that is taken after the signal arrived is never applied: once both
\* have happened the table does not change any more.
SignalFreezesTable ==
    [][signal /\ pc \in {"starting", "loop", "waiting", "received", "stopping", "exporting"} =>
          pc' # "applying" /\ UNCHANGED routing]_vars

\* A requested stop, by signal or by key, ends the process.
StopEnds == (signal \/ key) ~> pc = "exited"

\* The parser's comment of malformed messages: "malformed messages are ignored and
\* produce no events". No message ends the ingest with an error.
MalformedIgnored == [][pc = "applying" => pc' # "exited"]_vars

=============================================================================
