------------------------------ MODULE GrowthStats ------------------------------
(***************************************************************************)
(* GrowthStatsTracker: which prefixes and ASNs were ever seen, how many of *)
(* them are new in each sample, and the detection of the plateau from the  *)
(* rolling average of the rates.  Time is counted in ticks; a rate is a    *)
(* whole number of 1/RateUnit prefixes per tick.                           *)
(***************************************************************************)
EXTENDS Integers, Sequences, FiniteSets, SequencesExt

CONSTANTS
    PrefixV4, PrefixV6, Asns,
    PlateauEnabled,   \* PlateauSettings::enabled
    WindowSamples,    \* window_samples
    Threshold,        \* prefix_rate_threshold, as a rate
    MinRuntime,       \* min_runtime_sec in ticks; a longer uptime counts as this one
    RateUnit,
    MaxInterval,      \* bound: two samples are at most this many ticks apart
    SizeLimit         \* 2^w for the width w of std::size_t: the counters wrap

ASSUME SettingsAssumption ==
    PlateauEnabled \in BOOLEAN /\ {WindowSamples, Threshold, MinRuntime} \subseteq Nat
ASSUME RateAssumption ==
    /\ RateUnit \in Nat /\ MaxInterval \in Nat
    /\ \A interval \in 1 .. MaxInterval : RateUnit % interval = 0
ASSUME CountersAssumption == SizeLimit \in Nat \ {0}
\* There are finitely many keys of each kind: fixed-width integers in the code.
ASSUME FiniteAssumption ==
    IsFiniteSet(PrefixV4) /\ IsFiniteSet(PrefixV6) /\ IsFiniteSet(Asns)

VARIABLES
    seen,          \* ever_seen_asns_ and ever_seen_prefixes_v4_, _v6_
    counters,      \* raw_messages_received_ ... withdraws_applied_
    active,        \* active_prefixes_v4_, active_prefixes_v6_
    last_sample,   \* last_sample_asn_count_, last_sample_prefix_count_
    clock,         \* the time since started_at_ and since last_sample_at_
    window,        \* recent_prefix_rates_, recent_prefix_rate_sum_
    plateau,       \* plateau_detected_ ... plateau_detected_on_last_sample_
    found,         \* history: prefixes seen for the first time since the last sample
    past           \* history: found and interval of the samples in the window

tracker == <<seen, counters, active, last_sample, window, plateau>>
history == <<found, past>>
vars    == <<tracker, clock, history>>

EitherFamily == PrefixV4 \cup PrefixV6

ActiveCounts(prefixes) ==
    [v4 |-> Cardinality(prefixes \cap PrefixV4), v6 |-> Cardinality(prefixes \cap PrefixV6)]

\* Mutant: what was loaded counts as new in the first sample.
SeedFromStateAsNew(observations) ==
    LET asns     == {o.origin_asn : o \in observations}
        prefixes == {o.prefix : o \in observations}
    IN  /\ seen = [asns |-> asns, prefixes |-> prefixes]
        /\ active = ActiveCounts(prefixes)
        /\ last_sample = [asns |-> 0, prefixes |-> 0]

\* The prefixes with an observation are those in the aggregated maps.
SeedFromState(observations) ==
    LET asns     == {o.origin_asn : o \in observations}
        prefixes == {o.prefix : o \in observations}
    IN  /\ seen = [asns |-> asns, prefixes |-> prefixes]
        /\ active = ActiveCounts(prefixes)
        /\ last_sample = [asns |-> Cardinality(asns), prefixes |-> Cardinality(prefixes)]

\* The constructor, then seed_from_state.
InitWith(observations) ==
    /\ SeedFromState(observations)
    /\ counters = [raw |-> 0, parsed |-> 0, announces |-> 0, withdraws |-> 0]
    /\ clock = [uptime |-> 0, interval |-> 0]
    /\ window = [rates |-> << >>, sum |-> 0]
    /\ plateau = [detected |-> FALSE, on_last_sample |-> FALSE, uptime |-> 0]
    /\ found = 0
    /\ past = << >>

Init ==
    \E observations \in SUBSET [prefix : EitherFamily, origin_asn : Asns] : InitWith(observations)

-----------------------------------------------------------------------------
(* What the ingest loop reports.                                           *)

Counted(counter, n) == (counter + n) % SizeLimit

OnMessageReceived ==
    /\ counters' = [counters EXCEPT !.raw = Counted(@, 1)]
    /\ UNCHANGED <<seen, active, last_sample, window, plateau, clock, history>>

\* on_parsed_events and, if there were events, set_active_prefix_counts.
OnMessageDone(emitted_events, active_prefixes) ==
    /\ counters' = [counters EXCEPT !.parsed = Counted(@, emitted_events)]
    /\ active' = IF emitted_events = 0 THEN active ELSE ActiveCounts(active_prefixes)

Discovered(prefix) == found' = found + (IF prefix \in seen.prefixes THEN 0 ELSE 1)

OnAnnounce(asn, prefix) ==
    /\ seen' = [asns |-> seen.asns \cup {asn}, prefixes |-> seen.prefixes \cup {prefix}]
    /\ counters' = [counters EXCEPT !.announces = Counted(@, 1)]
    /\ Discovered(prefix)
    /\ UNCHANGED <<active, last_sample, window, plateau, clock, past>>

\* Also a withdrawn prefix counts as seen.
OnWithdraw(prefix) ==
    /\ seen' = [seen EXCEPT !.prefixes = @ \cup {prefix}]
    /\ counters' = [counters EXCEPT !.withdraws = Counted(@, 1)]
    /\ Discovered(prefix)
    /\ UNCHANGED <<active, last_sample, window, plateau, clock, past>>

-----------------------------------------------------------------------------
(* sample_now.                                                             *)

TotalAsns     == Cardinality(seen.asns)
TotalPrefixes == Cardinality(seen.prefixes)

\* The subtractions are of unsigned numbers: GrowthAddsUp has that they never wrap.
NewAsns     == TotalAsns - last_sample.asns
NewPrefixes == TotalPrefixes - last_sample.prefixes

Rate(count, interval) == IF interval > 0 THEN (count * RateUnit) \div interval ELSE 0

\* What sample_now returns: a line of the CSV file.
Sample ==
    [total_asns |-> TotalAsns, total_prefixes |-> TotalPrefixes, active |-> active,
     new_asns |-> NewAsns, new_prefixes |-> NewPrefixes,
     new_prefixes_per_sec |-> Rate(NewPrefixes, clock.interval), counters |-> counters]

\* Mutant: a rate that leaves the window stays in the sum.
PushRateKeepsSum(win, rate) ==
    LET pushed == Append(win.rates, rate) IN
    [rates |-> IF Len(pushed) > WindowSamples THEN Tail(pushed) ELSE pushed,
     sum   |-> win.sum + rate]

\* The window never holds more than WindowSamples rates, so the loop that drops the
\* oldest ones drops at most one.
PushRate(win, rate) ==
    LET pushed == Append(win.rates, rate) IN
    IF Len(pushed) > WindowSamples
    THEN [rates |-> Tail(pushed), sum |-> win.sum + rate - Head(pushed)]
    ELSE [rates |-> pushed, sum |-> win.sum + rate]

\* Mutant: the window need not be full.
DetectsEarly(win) ==
    /\ ~plateau.detected
    /\ clock.uptime >= MinRuntime
    /\ win.sum < Threshold * Len(win.rates)

Detects(win) ==
    /\ ~plateau.detected
    /\ Len(win.rates) = WindowSamples
    /\ clock.uptime >= MinRuntime
    /\ win.sum < Threshold * Len(win.rates)

LastSamples(seq) == IF Len(seq) > WindowSamples THEN Tail(seq) ELSE seq

SampleNow ==
    /\ IF PlateauEnabled /\ WindowSamples > 0
       THEN LET win == PushRate(window, Rate(NewPrefixes, clock.interval)) IN
            /\ window' = win
            /\ plateau' = IF Detects(win)
                          THEN [detected |-> TRUE, on_last_sample |-> TRUE,
                                uptime |-> clock.uptime]
                          ELSE [plateau EXCEPT !.on_last_sample = FALSE]
       ELSE /\ plateau' = [plateau EXCEPT !.on_last_sample = FALSE]
            /\ UNCHANGED window
    /\ last_sample' = [asns |-> TotalAsns, prefixes |-> TotalPrefixes]
    /\ clock' = [clock EXCEPT !.interval = 0]
    /\ found' = 0
    /\ past' = LastSamples(Append(past, [found |-> found, interval |-> clock.interval]))
    /\ UNCHANGED <<seen, counters, active>>

-----------------------------------------------------------------------------

\* std::chrono::steady_clock moves on.
Tick ==
    /\ clock.interval < MaxInterval
    /\ clock' = [uptime   |-> IF clock.uptime < MinRuntime THEN clock.uptime + 1 ELSE MinRuntime,
                 interval |-> clock.interval + 1]
    /\ UNCHANGED <<tracker, history>>

\* More events than SizeLimit count like fewer.
MessageDone ==
    \E emitted_events \in 0 .. SizeLimit, active_prefixes \in SUBSET seen.prefixes :
        /\ OnMessageDone(emitted_events, active_prefixes)
        /\ UNCHANGED <<seen, last_sample, window, plateau, clock, history>>

Announced == \E asn \in Asns, prefix \in EitherFamily : OnAnnounce(asn, prefix)
Withdrawn == \E prefix \in EitherFamily : OnWithdraw(prefix)

Next ==
    \/ OnMessageReceived \/ MessageDone \/ Announced \/ Withdrawn
    \/ SampleNow \/ Tick

Spec == Init /\ [][Next]_vars

\* Time passes, and messages keep coming, each of which lets the loop take a sample
\* that is due.
FairSpec == Spec /\ WF_vars(Tick) /\ WF_vars(SampleNow)

-----------------------------------------------------------------------------
(* Properties.                                                             *)

SumOf(seq) ==
    LET sum[i \in 0 .. Len(seq)] == IF i = 0 THEN 0 ELSE sum[i - 1] + seq[i]
    IN  sum[Len(seq)]

\* The window never grows beyond its size, and the sum that is kept incrementally is
\* the sum of its rates after any number of samples (recent_prefix_rate_sum_; in
\* exact arithmetic).
WindowSumIsExact ==
    /\ Len(window.rates) <= WindowSamples
    /\ window.sum = SumOf(window.rates)

\* Nothing is lost or counted twice between samples, and no difference of unsigned
\* counts wraps: what the next sample reports as new is what was seen for the first
\* time since the last one, also right after a snapshot was loaded.
GrowthAddsUp ==
    /\ NewPrefixes = found
    /\ NewAsns \in 0 .. Cardinality(seen.asns)

Regular(samples) ==
    \E interval \in 1 .. MaxInterval : \A i \in DOMAIN samples : samples[i].interval = interval

SlowGrowth(samples) ==
    SumOf([i \in DOMAIN samples |-> samples[i].found]) * RateUnit
        < Threshold * SumOf([i \in DOMAIN samples |-> samples[i].interval])

\* With regular samples the plateau is detected by the first one at which, over the
\* whole window, fewer prefixes were found than the threshold allows in that time,
\* and the process has run long enough (README: "rolling average of prefix discovery
\* rate").
PlateauIsSlowGrowth ==
    [][SampleNow /\ PlateauEnabled /\ ~plateau.detected /\ Regular(past') =>
          (plateau'.detected <=>
              Len(past') = WindowSamples /\ clock.uptime >= MinRuntime /\ SlowGrowth(past'))]_vars

\* Once no new prefixes turn up the plateau is detected in the end: an early burst
\* leaves the window and the sum.
QuietIsDetected ==
    PlateauEnabled /\ WindowSamples > 0 /\ Threshold > 0 =>
        (<>[][seen' = seen]_vars => <>plateau.detected)

=============================================================================
