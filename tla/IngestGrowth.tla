----------------------------- MODULE IngestGrowth -----------------------------
(***************************************************************************)
(* The main loop of Ingest together with the GrowthStatsTracker it feeds:  *)
(* the tracker is seeded from the loaded table, told of every message and  *)
(* event, sampled between two messages when a sample is due and once more  *)
(* after the loop; the samples are the lines of the CSV file.              *)
(***************************************************************************)
EXTENDS Ingest, FiniteSets, SequencesExt

CONSTANTS
    PrefixV4, PrefixV6, PlateauEnabled, WindowSamples, Threshold, MinRuntime,
    RateUnit, MaxInterval,    \* as in GrowthStats
    StatsInterval,            \* stats_interval_ms in ticks
    StatsOutputSettings       \* what stats_output_enabled may be configured to

ASSUME FamiliesAssumption == Prefix = PrefixV4 \cup PrefixV6
ASSUME IntervalAssumption == StatsInterval \in Nat
ASSUME OutputAssumption == StatsOutputSettings \subseteq BOOLEAN

VARIABLES
    seen, counters, active, last_sample, clock, window, plateau, found, past,
    stats_output_enabled,   \* as configured, never written
    stage,                  \* "startup", "ingest", "sampling", "reported": what main
                            \* does about statistics before pc goes on
    until_sample,           \* the time left until next_stats_sample_at
    csv,                    \* the lines written
    messages_printed        \* how often print_plateau_message was called

Growth == INSTANCE GrowthStats

tracker    == <<seen, counters, active, last_sample, clock, window, plateau, found, past>>
sampling   == <<stats_output_enabled, stage, until_sample, csv, messages_printed>>
growthVars == <<vars, tracker, sampling>>

-----------------------------------------------------------------------------

\* Mutant: only the selected origins are seeded.
ObservationsSelected ==
    {[prefix |-> prefix, origin_asn |-> exported[prefix]] : prefix \in DOMAIN exported}

\* stored_observations, as far as seed_from_state looks at it.
Observations ==
    {[prefix |-> at[1], origin_asn |-> table[at[1]][at[2]].origin_asn] :
        at \in {x \in Prefix \X Peer : table[x[1]][x[2]] # NoRoute}}

ActivePrefixes == DOMAIN exported

GrowthInit ==
    /\ Init
    /\ Growth!InitWith(Observations)
    /\ stats_output_enabled \in StatsOutputSettings
    /\ stage = "startup"
    /\ until_sample = 0
    /\ csv = << >>
    /\ messages_printed = 0

-----------------------------------------------------------------------------

\* The first sample is due an interval after the file was opened.
OpenStats ==
    /\ stage = "startup" /\ pc = "starting"
    /\ stage' = "ingest"
    /\ until_sample' = IF stats_output_enabled THEN StatsInterval ELSE 0
    /\ UNCHANGED <<vars, tracker, stats_output_enabled, csv, messages_printed>>

\* The constructor of StatsCsvWriter throws.
OpenStatsThrows ==
    /\ stage = "startup" /\ pc = "starting"
    /\ stats_output_enabled
    /\ pc' = "exited" /\ outcome' = "failure"
    /\ UNCHANGED <<routing, inputs, current, stats, files, boundary, tracker, sampling>>

Untracked == UNCHANGED <<tracker, sampling>>

MessageAccepted ==
    /\ stage = "ingest"
    /\ AcceptMessage
    /\ Growth!OnMessageReceived
    /\ UNCHANGED sampling

\* Mutant: on_announce is not called.
AnnounceTrackedNot ==
    /\ stage = "ingest"
    /\ ApplyAnnounce
    /\ Untracked

AnnounceTracked ==
    /\ stage = "ingest"
    /\ ApplyAnnounce
    /\ Growth!OnAnnounce(Head(events).origin_asn, PrefixOf[Head(events).prefix])
    /\ UNCHANGED sampling

WithdrawTracked ==
    /\ stage = "ingest"
    /\ ApplyWithdraw
    /\ Growth!OnWithdraw(PrefixOf[Head(events).prefix])
    /\ UNCHANGED sampling

\* Mutant: the active prefixes are counted before the message is applied.
MessageCountedStale ==
    /\ stage = "ingest"
    /\ FinishMessage
    /\ Growth!OnMessageDone(emitted_events, DOMAIN Table!Export(boundary))
    /\ stage' = "sampling"
    /\ UNCHANGED <<seen, last_sample, window, plateau, clock, found, past,
                   stats_output_enabled, until_sample, csv, messages_printed>>

\* The limit is looked at here, after the sampling in the code.
MessageCounted ==
    /\ stage = "ingest"
    /\ FinishMessage
    /\ Growth!OnMessageDone(emitted_events, ActivePrefixes)
    /\ stage' = "sampling"
    /\ UNCHANGED <<seen, last_sample, window, plateau, clock, found, past,
                   stats_output_enabled, until_sample, csv, messages_printed>>

\* Mutant: the message is printed as long as there is a plateau.
WriteSampleAgain ==
    /\ Growth!SampleNow
    /\ csv' = Append(csv, Growth!Sample)
    /\ messages_printed' = messages_printed + (IF plateau'.detected THEN 1 ELSE 0)

WriteSample ==
    /\ Growth!SampleNow
    /\ csv' = Append(csv, Growth!Sample)
    /\ messages_printed' = messages_printed + (IF plateau'.on_last_sample THEN 1 ELSE 0)

TakeSample ==
    /\ stage = "sampling"
    /\ stats_output_enabled /\ until_sample = 0
    /\ WriteSample
    /\ stage' = "ingest"
    /\ until_sample' = StatsInterval
    /\ UNCHANGED <<vars, stats_output_enabled>>

NoSample ==
    /\ stage = "sampling"
    /\ ~(stats_output_enabled /\ until_sample = 0)
    /\ stage' = "ingest"
    /\ UNCHANGED <<vars, tracker, stats_output_enabled, until_sample, csv,
                   messages_printed>>

\* After the loop, however it ended: the last sample.
Report ==
    /\ stage = "ingest" /\ pc = "stopping"
    /\ IF stats_output_enabled
       THEN WriteSample
       ELSE UNCHANGED <<tracker, csv, messages_printed>>
    /\ stage' = "reported"
    /\ UNCHANGED <<vars, stats_output_enabled, until_sample>>

Save ==
    /\ stage = "reported"
    /\ SaveSnapshot \/ SaveThrows \/ ExportTables \/ ExportFails
    /\ Untracked

Loop ==
    /\ stage = "ingest"
    /\ \/ CreateSource \/ CreateSourceThrows
       \/ AskSource \/ LoopEnds \/ DropMessage \/ ApplyThrows
    /\ Untracked

\* The thread that waits for a key is started last.
Asynchronous ==
    /\ \/ SourceAnswers
       \/ Signal
       \/ stage # "startup" /\ Keypress
    /\ Untracked

\* The bound on intervals leaves room for the one before the first sample.
Tick ==
    /\ outcome = "running"
    /\ stage = "startup" => clock.interval + StatsInterval < MaxInterval
    /\ Growth!Tick
    /\ until_sample' = IF until_sample > 0 THEN until_sample - 1 ELSE 0
    /\ UNCHANGED <<vars, stats_output_enabled, stage, csv, messages_printed>>

GrowthMainStep ==
    \/ OpenStats \/ OpenStatsThrows
    \/ Loop \/ MessageAccepted \/ AnnounceTracked \/ WithdrawTracked \/ MessageCounted
    \/ TakeSample \/ NoSample \/ Report \/ Save

GrowthNext == GrowthMainStep \/ Asynchronous \/ Tick

GrowthSpec == GrowthInit /\ [][GrowthNext]_growthVars

\* The main thread runs, the source answers a stop as in FairSpec, the feed goes on,
\* and time passes.
GrowthFairSpec ==
    /\ GrowthSpec
    /\ WF_growthVars(GrowthMainStep)
    /\ WF_growthVars(ShutdownRequested /\ SourceAnswers /\ Untracked)
    /\ WF_growthVars(Deliver /\ Untracked)
    /\ WF_growthVars(Tick)

-----------------------------------------------------------------------------
(* Properties.                                                             *)

\* The loop uses the tracker as GrowthStats describes it: between two samples only
\* reports change it, and the prefixes it counts as active have all been reported.
ImplementsGrowthStats == Growth!Spec

\* Every route's origin and prefix was seen, whether loaded, announced, selected or
\* not: the totals of a sample never fall below what the table holds
\* (seed_from_state, apply_event).
SeenCoversTable ==
    \A prefix \in Prefix, peer \in Peer :
        table[prefix][peer] # NoRoute =>
            prefix \in seen.prefixes /\ table[prefix][peer].origin_asn \in seen.asns

\* Every line has the active prefixes and the counts of that moment, although the
\* prefixes are only recounted after messages with events; and however the loop ends
\* without an error, there is one more line with what print_stats prints.
LinesAreCurrent ==
    [][/\ csv' # csv =>
             /\ Last(csv').active = Growth!ActiveCounts(ActivePrefixes)
             /\ Last(csv').counters =
                   [raw |-> raw_messages_received, parsed |-> parsed_events_total,
                    announces |-> announces_applied, withdraws |-> withdraws_applied]
       /\ stage # "reported" /\ stage' = "reported" /\ stats_output_enabled => csv' # csv
      ]_growthVars

\* A feed in which nothing new turns up any more is reported as a plateau, if
\* detection is enabled and the process goes on.  README.md:110 says "When the rate
\* drops below a threshold for a sustained period, the system reports that the
\* routing table is broadly complete", and README.md:20 calls the detection
\* automatic; the loop takes no sample without the statistics output (main.cpp:235).
PlateauIsReported ==
    PlateauEnabled /\ WindowSamples > 0 /\ Threshold > 0 =>
        (<>[][seen' = seen]_growthVars => <>(messages_printed > 0 \/ outcome # "running"))

\* The operator is told of a plateau exactly once, with the sample that found it or
\* at the end, if the run reports plateau_detected=true.
PlateauIsTold ==
    messages_printed = IF plateau.detected THEN 1 ELSE 0

=============================================================================
