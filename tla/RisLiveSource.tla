---------------------------- MODULE RisLiveSource ----------------------------
(***************************************************************************)
(* RisLiveWebSocketSource: the blocking pull source that connects,         *)
(* subscribes, reads one WebSocket message per call of next_message and    *)
(* reconnects with exponential backoff.  pc is where the calling thread    *)
(* is; the network and the stop flag change at any moment.  A network call *)
(* is a pc of its own: it may never return.                                *)
(***************************************************************************)
EXTENDS Integers, Sequences

CONSTANTS
    InitialDelay,      \* reconnect_initial_delay_ms
    MaxDelay,          \* reconnect_max_delay_ms as configured
    AttemptLimits,     \* what reconnect_max_attempts may be configured to, 0 for
                       \* no limit
    SleepChunk,        \* kSleepChunkMs
    SizeLimit,         \* 2^w for the width w of std::size_t
    AttemptCap,        \* bound: the attempt counters saturate here
    DropKinds          \* how a connection dies: "broken" fails the next call on
                       \* it, "silent" just never answers again

ASSUME DelaysAssumption    == InitialDelay \in Nat /\ MaxDelay \in Nat
ASSUME AttemptsAssumption  == /\ AttemptLimits \subseteq Nat /\ AttemptCap \in Nat
                              /\ \A limit \in AttemptLimits : limit < AttemptCap
ASSUME ChunkAssumption     == SleepChunk \in Nat \ {0}
ASSUME SizeAssumption      == /\ SizeLimit \in Nat
                              /\ InitialDelay < SizeLimit /\ MaxDelay < SizeLimit
ASSUME DropsAssumption     == DropKinds \subseteq {"broken", "silent"}

VARIABLES
    pc,
    connected,               \* connected_ && websocket_: the two differ only
                             \* inside a failing connect()
    buffer,                  \* buffer_, as pieces of messages
    json,                    \* what next_message returned last
    next_reconnect_delay_ms,
    delay_before_reconnect,
    attempt,                 \* locals of reconnect_with_backoff ...
    delay_ms,
    delay_before_attempt,
    remaining,               \* ... and of sleep_with_stop
    stop,                    \* what shutdown_requested_() reads
    reconnect_enabled,       \* as configured, never written
    reconnect_max_attempts,  \* likewise
    reachable,               \* the server answers new connections
    link,                    \* the connection under websocket_
    subscribed,              \* the request went out on this connection
    ever_subscribed,         \* history: a subscription has succeeded
    tries,                   \* history: connects since the last subscription
    slept                    \* history: ms slept since the last failure

source  == <<connected, next_reconnect_delay_ms, delay_before_reconnect>>
locals  == <<attempt, delay_ms, delay_before_attempt, remaining>>
frames  == <<buffer, json>>
config  == <<reconnect_enabled, reconnect_max_attempts>>
flags   == <<stop, config>>
network == <<reachable, link>>
history == <<ever_subscribed, tries, slept>>
vars    == <<pc, source, locals, frames, flags, network, subscribed, history>>

Least(a, b)    == IF a <= b THEN a ELSE b
Saturating(n)  == Least(n, AttemptCap)
EffectiveMaxDelay == IF InitialDelay > MaxDelay THEN InitialDelay ELSE MaxDelay

\* Mutant: the source is built without the predicate.
ShutdownNeverSeen == FALSE

ShutdownRequested == stop

Init ==
    /\ pc = "caller"
    /\ connected = FALSE
    /\ buffer = << >>
    /\ json = << >>
    /\ next_reconnect_delay_ms = InitialDelay
    /\ delay_before_reconnect = FALSE
    /\ attempt = 0 /\ delay_ms = 0 /\ delay_before_attempt = FALSE /\ remaining = 0
    /\ stop = FALSE
    /\ reconnect_enabled \in BOOLEAN
    /\ reconnect_max_attempts \in AttemptLimits
    /\ reachable \in BOOLEAN
    /\ link = "none"
    /\ subscribed = FALSE
    /\ ever_subscribed = FALSE /\ tries = 0 /\ slept = 0

-----------------------------------------------------------------------------
(* next_message and ensure_connected.                                      *)

\* The ingest loop asks for the next message.
Call ==
    /\ pc = "caller"
    /\ pc' = "loop"
    /\ UNCHANGED <<source, locals, frames, flags, network, subscribed, history>>

Return(from) ==
    /\ pc = from
    /\ ShutdownRequested
    /\ pc' = "done"
    /\ UNCHANGED <<source, locals, frames, flags, network, subscribed, history>>

LoopStops == Return("loop")

\* Mutant: buffer_ is not consumed before the read.
ReadNextAppends ==
    /\ pc = "loop"
    /\ ~ShutdownRequested
    /\ connected
    /\ pc' = "read"
    /\ UNCHANGED <<source, locals, frames, flags, network, subscribed, history>>

\* Mutant: the loop does not look at the stop flag.
ReadNextUnchecked ==
    /\ pc = "loop"
    /\ connected
    /\ pc' = "read"
    /\ buffer' = << >>
    /\ UNCHANGED <<source, locals, json, flags, network, subscribed, history>>

ReadNext ==
    /\ pc = "loop"
    /\ ~ShutdownRequested
    /\ connected
    /\ pc' = "read"
    /\ buffer' = << >>
    /\ UNCHANGED <<source, locals, json, flags, network, subscribed, history>>

\* Without reconnecting there is one try per call, at once.
ConnectOnce ==
    /\ pc = "loop"
    /\ ~ShutdownRequested
    /\ ~connected
    /\ ~reconnect_enabled
    /\ pc' = "connect"
    /\ tries' = Saturating(tries + 1)
    /\ UNCHANGED <<source, locals, frames, flags, network, subscribed,
                   ever_subscribed, slept>>

Reconnect ==
    /\ pc = "loop"
    /\ ~ShutdownRequested
    /\ ~connected
    /\ reconnect_enabled
    /\ pc' = "attempt"
    /\ attempt' = 0
    /\ delay_ms' = next_reconnect_delay_ms
    /\ delay_before_attempt' = delay_before_reconnect
    /\ UNCHANGED <<source, remaining, frames, flags, network, subscribed, history>>

-----------------------------------------------------------------------------
(* reconnect_with_backoff and sleep_with_stop.                             *)

AttemptStops == Return("attempt")

AttemptAtOnce ==
    /\ pc = "attempt"
    /\ ~ShutdownRequested
    /\ ~delay_before_attempt
    /\ attempt' = Saturating(attempt + 1)
    /\ tries' = Saturating(tries + 1)
    /\ pc' = "connect"
    /\ UNCHANGED <<source, delay_ms, delay_before_attempt, remaining, frames, flags,
                   network, subscribed, ever_subscribed, slept>>

AttemptLater ==
    /\ pc = "attempt"
    /\ ~ShutdownRequested
    /\ delay_before_attempt
    /\ attempt' = Saturating(attempt + 1)
    /\ remaining' = delay_ms
    /\ pc' = "sleep"
    /\ UNCHANGED <<source, delay_ms, delay_before_attempt, frames, flags, network,
                   subscribed, history>>

\* Either check of sleep_with_stop: before a chunk or after the last one.
SleepStops == Return("sleep")

Sleep ==
    LET chunk == Least(remaining, SleepChunk) IN
    /\ pc = "sleep"
    /\ remaining > 0
    /\ ~ShutdownRequested
    /\ remaining' = remaining - chunk
    /\ slept' = slept + chunk
    /\ UNCHANGED <<pc, source, attempt, delay_ms, delay_before_attempt, frames, flags,
                   network, subscribed, ever_subscribed, tries>>

\* Mutant: sleep_with_stop ends with return true.
SleepEndsUnchecked ==
    /\ pc = "sleep"
    /\ remaining = 0
    /\ pc' = "connect"
    /\ tries' = Saturating(tries + 1)
    /\ UNCHANGED <<source, locals, frames, flags, network, subscribed,
                   ever_subscribed, slept>>

SleepEnds ==
    /\ pc = "sleep"
    /\ remaining = 0
    /\ ~ShutdownRequested
    /\ pc' = "connect"
    /\ tries' = Saturating(tries + 1)
    /\ UNCHANGED <<source, locals, frames, flags, network, subscribed,
                   ever_subscribed, slept>>

-----------------------------------------------------------------------------
(* connect, send_subscribe and the handling of their exceptions.           *)

ConnectSucceeds ==
    /\ pc = "connect"
    /\ reachable
    /\ connected' = TRUE
    /\ link' = "live"
    /\ subscribed' = FALSE
    /\ pc' = "subscribe"
    /\ UNCHANGED <<next_reconnect_delay_ms, delay_before_reconnect, locals, frames,
                   flags, reachable, history>>

\* Mutant: connected_ stays set.
ResetConnectionKeepsFlag ==
    /\ connected' = connected
    /\ delay_before_reconnect' = TRUE
    /\ link' = "none"
    /\ subscribed' = FALSE
    /\ buffer' = << >>

ResetConnection ==
    /\ connected' = FALSE
    /\ delay_before_reconnect' = TRUE
    /\ link' = "none"
    /\ subscribed' = FALSE
    /\ buffer' = << >>

\* Mutant: no maximum.
DoubledDelayUnlimited == (delay_ms * 2) % SizeLimit

DoubledDelay == Least((delay_ms * 2) % SizeLimit, EffectiveMaxDelay)

\* Mutant: one attempt too many.
GivesUpLate ==
    \/ ~reconnect_enabled
    \/ reconnect_max_attempts # 0 /\ attempt > reconnect_max_attempts

\* Mutant: 0 is taken for a limit.
GivesUpWithoutLimit == ~reconnect_enabled \/ attempt >= reconnect_max_attempts

GivesUp ==
    \/ ~reconnect_enabled
    \/ reconnect_max_attempts # 0 /\ attempt >= reconnect_max_attempts

TryFails ==
    /\ ResetConnection
    /\ IF GivesUp
       THEN /\ pc' = "done"
            /\ UNCHANGED <<delay_ms, delay_before_attempt, next_reconnect_delay_ms>>
       ELSE /\ pc' = "attempt"
            /\ delay_before_attempt' = TRUE
            /\ delay_ms' = DoubledDelay
            /\ next_reconnect_delay_ms' = DoubledDelay
    /\ slept' = 0
    /\ UNCHANGED <<attempt, remaining, json, flags, reachable, ever_subscribed, tries>>

ConnectFails ==
    /\ pc = "connect"
    /\ ~reachable
    /\ TryFails

\* Mutant: the delay is not set back after a success.
SubscribeKeepsDelay ==
    /\ pc = "subscribe"
    /\ link # "broken"
    /\ subscribed' = TRUE
    /\ delay_before_reconnect' = FALSE
    /\ pc' = "read"
    /\ buffer' = << >>
    /\ ever_subscribed' = TRUE /\ tries' = 0 /\ slept' = 0
    /\ UNCHANGED <<connected, next_reconnect_delay_ms, locals, json, flags, network>>

\* A write on a silent connection succeeds: it only fills a local buffer. Both
\* callers return true and next_message goes on to clear the buffer and read.
SubscribeSucceeds ==
    /\ pc = "subscribe"
    /\ link # "broken"
    /\ subscribed' = TRUE
    /\ next_reconnect_delay_ms' = InitialDelay
    /\ delay_before_reconnect' = FALSE
    /\ pc' = "read"
    /\ buffer' = << >>
    /\ ever_subscribed' = TRUE /\ tries' = 0 /\ slept' = 0
    /\ UNCHANGED <<connected, locals, json, flags, network>>

SubscribeFails ==
    /\ pc = "subscribe"
    /\ link = "broken"
    /\ TryFails

-----------------------------------------------------------------------------
(* websocket_->read and the destructor's close.                            *)

MidMessage == buffer # << >> /\ buffer[Len(buffer)] = "first"

\* The start of a message is in the buffer before its end has arrived.
MessageBegins ==
    /\ pc = "read"
    /\ link = "live"
    /\ subscribed
    /\ ~MidMessage
    /\ buffer' = Append(buffer, "first")
    /\ UNCHANGED <<pc, source, locals, json, flags, network, subscribed, history>>

MessageEnds ==
    /\ pc = "read"
    /\ link = "live"
    /\ MidMessage
    /\ buffer' = Append(buffer, "last")
    /\ json' = buffer'
    /\ pc' = "caller"
    /\ UNCHANGED <<source, locals, flags, network, subscribed, history>>

ReadFails ==
    /\ pc = "read"
    /\ link = "broken"
    /\ ResetConnection
    /\ slept' = 0
    /\ pc' = "loop"
    /\ UNCHANGED <<next_reconnect_delay_ms, locals, json, flags, reachable,
                   ever_subscribed, tries>>

\* After next_message has returned false. An error of the close is swallowed, a
\* silent connection lets it wait.
Destroy ==
    /\ pc = "done"
    /\ ~connected \/ link # "silent"
    /\ pc' = "closed"
    /\ UNCHANGED <<source, locals, frames, flags, network, subscribed, history>>

-----------------------------------------------------------------------------
(* The surroundings.                                                       *)

\* A signal or the key press, at any time.
StopRequested ==
    /\ ~stop
    /\ stop' = TRUE
    /\ UNCHANGED <<pc, source, locals, frames, config, network, subscribed, history>>

\* A server that closes the connection is an outage that ends at once.
OutageBegins ==
    /\ reachable
    /\ reachable' = FALSE
    /\ link' \in IF link = "live" THEN DropKinds ELSE {link}
    /\ UNCHANGED <<pc, source, locals, frames, flags, subscribed, history>>

OutageEnds ==
    /\ ~reachable
    /\ reachable' = TRUE
    /\ UNCHANGED <<pc, source, locals, frames, flags, link, subscribed, history>>

ProgramStep ==
    \/ Call \/ LoopStops \/ ReadNext \/ ConnectOnce \/ Reconnect
    \/ AttemptStops \/ AttemptAtOnce \/ AttemptLater
    \/ SleepStops \/ Sleep \/ SleepEnds

NetworkCallReturns ==
    \/ ConnectSucceeds \/ ConnectFails
    \/ SubscribeSucceeds \/ SubscribeFails
    \/ MessageBegins \/ MessageEnds \/ ReadFails
    \/ Destroy

Surroundings == StopRequested \/ OutageBegins \/ OutageEnds

Next == ProgramStep \/ NetworkCallReturns \/ Surroundings

Spec == Init /\ [][Next]_vars

\* The one thread runs, and a network call returns as soon as the network lets
\* it: the server keeps sending on a live connection (RIS Live is a continuous
\* feed), and a call fails when the connection is known to be broken. Nothing is
\* assumed of the stop flag, of outages or of silent connections.
FairSpec == Spec /\ WF_vars(ProgramStep) /\ WF_vars(NetworkCallReturns)

-----------------------------------------------------------------------------
(* Properties.                                                             *)

PCs == {"caller", "loop", "attempt", "sleep", "connect", "subscribe", "read",
        "done", "closed"}

\* Every member has a value of its kind, and no delay exceeds the larger of the two
\* configured delays.
TypeOK ==
    /\ pc \in PCs
    /\ {connected, delay_before_reconnect, delay_before_attempt, stop,
        reconnect_enabled, reachable, subscribed, ever_subscribed} \subseteq BOOLEAN
    /\ buffer \in Seq({"first", "last"}) /\ json \in Seq({"first", "last"})
    /\ {next_reconnect_delay_ms, delay_ms, remaining} \subseteq 0 .. EffectiveMaxDelay
    /\ {attempt, tries} \subseteq 0 .. AttemptCap
    /\ slept \in 0 .. EffectiveMaxDelay
    /\ link \in {"none", "live", "broken", "silent"}

\* The source never waits for messages on a connection that is not open or on
\* which the subscription was not sent, whichever call failed before: a connection
\* without subscription would be read from forever (ensure_connected trusts
\* connected_ alone, ris_live_websocket_source.cpp).
ReadsOnlySubscribed ==
    /\ pc = "read" => connected /\ subscribed /\ link # "none"
    /\ pc \in {"caller", "loop"} /\ connected => subscribed

\* next_message returns one whole message and nothing of another one, also after a
\* connection that broke in the middle of a message (buffer_.consume).
OneWholeMessage == json \in {<< >>, <<"first", "last">>}

\* 2 ^ n.
PowerOfTwo[n \in 0 .. AttemptCap] == IF n = 0 THEN 1 ELSE 2 * PowerOfTwo[n - 1]

\* Before the n-th try of an outage exactly InitialDelay * 2^(n-1) ms have been
\* slept, at most the effective maximum; only the very first try of the process
\* is made at once (reconnect_with_backoff, sleep_with_stop).
BackoffIsExponential ==
    reconnect_enabled /\ pc = "connect" =>
        slept = IF tries = 1 /\ ~ever_subscribed
                THEN 0
                ELSE Least(InitialDelay * PowerOfTwo[tries - 1], EffectiveMaxDelay)

\* Without a stop the source gives up only after exactly the configured tries in
\* a row have failed in the current outage, and it never makes one more.
GivesUpWhenExhausted ==
    /\ reconnect_enabled /\ reconnect_max_attempts # 0 => tries <= reconnect_max_attempts
    /\ pc \in {"done", "closed"} /\ ~stop =>
          ~reconnect_enabled \/ (reconnect_max_attempts # 0 /\ tries = reconnect_max_attempts)

\* Once a stop is requested no new connect is begun, wherever the thread is.
NoConnectAfterStop == [][stop /\ pc' = "connect" => pc = "connect"]_vars

\* A stop that is there when the ingest loop asks for the next message lets the
\* source neither connect nor read any more.
NoReadAfterStop ==
    [](stop /\ pc = "caller" => [](pc \notin {"connect", "read"}))

\* Assumption of the liveness properties: dead connections are noticed.
NeverSilent == [](link # "silent")

\* A requested stop ends the source (main.cpp: "a blocking source read may delay
\* shutdown slightly").
StopTerminates == stop ~> pc = "closed"

\* A requested stop ends the source, its destructor included, wherever the thread
\* is and with reconnecting on or off, if dead connections are noticed.
StopTerminatesIfNoticed == NeverSilent => StopTerminates

\* After the last outage messages flow again, with reconnecting enabled and no
\* limit on the attempts (README: "Automatic reconnect on transient network
\* failures"), if dead connections are noticed.
Recovers ==
    NeverSilent /\ reconnect_enabled /\ reconnect_max_attempts = 0 =>
        (<>[](reachable /\ ~stop) => []<>(pc = "caller"))

\* How a caller sees the source: a call has noticed the stop as soon as the next
\* thing the thread does is a look at it.
Phase ==
    CASE pc = "caller"           -> "idle"
      [] pc \in {"done", "closed"} -> "ended"
      [] pc \in {"loop", "attempt", "sleep"} /\ stop -> "barred"
      [] OTHER                   -> "asked"

Promise == INSTANCE MessageSource WITH phase <- Phase

\* next_message keeps the contract the ingest loop is built on; that it returns
\* after a stop needs dead connections to be noticed.
ImplementsMessageSource ==
    /\ Promise!Spec
    /\ NeverSilent => Promise!Fairness

=============================================================================
