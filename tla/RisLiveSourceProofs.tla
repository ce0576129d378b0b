------------------------- MODULE RisLiveSourceProofs -------------------------
(* The source's connection, buffer and attempts, for all delays and limits. *)
EXTENDS RisLiveSource, DataLemmas, SequenceTheorems

-----------------------------------------------------------------------------
(* The inductive invariant.                                                *)

\* Where connected_ is set, the connection exists; it is subscribed except between
\* connect and send_subscribe.
ConnectedInv ==
    /\ connected => link # "none" /\ (subscribed \/ pc = "subscribe")
    /\ pc \in {"subscribe", "read"} => connected
    /\ pc \in {"attempt", "sleep", "connect"} => ~connected

\* What the buffer holds while a message is read.
BufferInv == pc = "read" => buffer \in {<< >>, <<"first">>}

\* slept and remaining share out the delay; nothing is slept outside of an outage.
SleptInv ==
    /\ pc \in {"caller", "loop", "attempt", "read"} => slept = 0
    /\ pc = "sleep" => slept + remaining = delay_ms

\* attempt counts the tries of the outage, one ahead while the thread sleeps.
AttemptInv ==
    reconnect_enabled =>
        /\ pc \in {"caller", "loop", "read"} => tries = 0
        /\ pc \in {"attempt", "connect", "subscribe"} => tries = attempt
        /\ pc = "sleep" => attempt = Saturating(tries + 1)
        /\ reconnect_max_attempts # 0 =>
              /\ tries <= reconnect_max_attempts
              /\ pc = "attempt" => attempt < reconnect_max_attempts
              /\ pc = "sleep" => tries < reconnect_max_attempts

ConfigInv == reconnect_max_attempts \in AttemptLimits

IInv ==
    /\ TypeOK /\ ConfigInv
    /\ ConnectedInv /\ BufferInv /\ OneWholeMessage
    /\ SleptInv /\ AttemptInv /\ GivesUpWhenExhausted

-----------------------------------------------------------------------------
(* Numbers.                                                                *)

\* What the constants are, as the assumptions say.
LEMMA ConstantFacts ==
    /\ EffectiveMaxDelay \in Nat /\ InitialDelay \in 0 .. EffectiveMaxDelay
    /\ SleepChunk \in Nat \ {0} /\ SizeLimit \in Nat \ {0} /\ AttemptCap \in Nat
    /\ \A limit \in AttemptLimits : limit \in Nat /\ limit < AttemptCap
BY DelaysAssumption, AttemptsAssumption, ChunkAssumption, SizeAssumption DEF EffectiveMaxDelay

\* What members are set to.
LEMMA StartValues ==
    /\ 0 \in 0 .. EffectiveMaxDelay /\ InitialDelay \in 0 .. EffectiveMaxDelay
    /\ 0 \in 0 .. AttemptCap
    /\ << >> \in Seq({"first", "last"})
BY ConstantFacts

\* Counting up stays in range and is exact below the cap.
LEMMA SaturatingFacts ==
    ASSUME NEW n \in 0 .. AttemptCap
    PROVE  /\ Saturating(n + 1) \in 0 .. AttemptCap
           /\ n < AttemptCap => Saturating(n + 1) = n + 1
BY ConstantFacts DEF Saturating, Least

\* A message is the two parts of it.
LEMMA AppendToOne ==
    ASSUME NEW x, NEW y
    PROVE  Append(<<x>>, y) = <<x, y>>
<1> DEFINE appended == Append(<<x>>, y)
<1>1. <<x>> \in Seq({x, y}) /\ Len(<<x>>) = 1 /\ <<x>>[1] = x
  OBVIOUS
<1>2. appended \in Seq({x, y}) /\ Len(appended) = 2 /\ appended[1] = x /\ appended[2] = y
  BY <1>1, AppendProperties
<1>3. <<x, y>> \in Seq({x, y}) /\ Len(<<x, y>>) = 2 /\ <<x, y>>[1] = x /\ <<x, y>>[2] = y
  OBVIOUS
<1>4. ASSUME NEW s \in Seq({x, y}), NEW t \in Seq({x, y}),
             Len(s) = 2, Len(t) = 2, s[1] = t[1], s[2] = t[2]
      PROVE  s = t
  BY <1>4, SeqEqual
<1>5. QED
  BY ONLY <1>2, <1>3, <1>4

\* The doubled delay stays within the maximum, whatever the multiplication wraps to.
LEMMA DoubledDelayIsBounded ==
    ASSUME TypeOK
    PROVE  DoubledDelay \in 0 .. EffectiveMaxDelay
<1>1. delay_ms \in Nat /\ delay_ms * 2 \in Nat
  BY ConstantFacts DEF TypeOK
<1>2. (delay_ms * 2) % SizeLimit \in Nat
  BY <1>1, ConstantFacts
<1>3. QED
  BY <1>2, ConstantFacts DEF DoubledDelay, Least

-----------------------------------------------------------------------------
(* The initial states and the steps.                                       *)

\* The invariant holds before the first call.
LEMMA InitHolds == Init => IInv
<1> SUFFICES ASSUME Init PROVE IInv
  OBVIOUS
<1>1. TypeOK
  BY StartValues DEF Init, TypeOK, PCs
<1>2. reconnect_max_attempts \in Nat
  BY ConstantFacts DEF Init
<1>3. QED
  BY <1>1, <1>2 DEF Init, IInv, ConfigInv, ConnectedInv, BufferInv, OneWholeMessage, SleptInv,
     AttemptInv, GivesUpWhenExhausted

\* Calls, returns and checks of next_message and ensure_connected.
LEMMA CallKeeps ==
    ASSUME IInv, Call \/ LoopStops \/ ReadNext \/ ConnectOnce \/ Reconnect
    PROVE  IInv'
<1> USE DEF source, locals, frames, config, flags, network, history
<1>1. CASE Call
  BY <1>1 DEF Call, IInv, TypeOK, PCs, ConfigInv, ConnectedInv, BufferInv, OneWholeMessage,
     SleptInv, AttemptInv, GivesUpWhenExhausted
<1>2. CASE LoopStops
  BY <1>2 DEF LoopStops, Return, ShutdownRequested, IInv, TypeOK, PCs, ConfigInv, ConnectedInv,
     BufferInv, OneWholeMessage, SleptInv, AttemptInv, GivesUpWhenExhausted
<1>3. CASE ReadNext
  BY <1>3 DEF ReadNext, IInv, TypeOK, PCs, ConfigInv, ConnectedInv, BufferInv, OneWholeMessage,
     SleptInv, AttemptInv, GivesUpWhenExhausted
<1>4. CASE ConnectOnce
  <2>1. Saturating(tries + 1) \in 0 .. AttemptCap
    BY SaturatingFacts DEF IInv, TypeOK
  <2>2. QED
    BY <1>4, <2>1 DEF ConnectOnce, IInv, TypeOK, PCs, ConfigInv, ConnectedInv, BufferInv,
       OneWholeMessage, SleptInv, AttemptInv, GivesUpWhenExhausted
<1>5. CASE Reconnect
  BY <1>5, ConstantFacts DEF Reconnect, IInv, TypeOK, PCs, ConfigInv, ConnectedInv, BufferInv,
     OneWholeMessage, SleptInv, AttemptInv, GivesUpWhenExhausted
<1>6. QED
  BY <1>1, <1>2, <1>3, <1>4, <1>5

\* reconnect_with_backoff and sleep_with_stop.
LEMMA BackoffKeeps ==
    ASSUME IInv,
           AttemptStops \/ AttemptAtOnce \/ AttemptLater \/ SleepStops \/ Sleep \/ SleepEnds
    PROVE  IInv'
<1> USE DEF source, locals, frames, config, flags, network, history
<1>1. CASE AttemptStops
  BY <1>1 DEF AttemptStops, Return, ShutdownRequested, IInv, TypeOK, PCs, ConfigInv, ConnectedInv,
     BufferInv, OneWholeMessage, SleptInv, AttemptInv, GivesUpWhenExhausted
<1>2. /\ Saturating(attempt + 1) \in 0 .. AttemptCap /\ Saturating(tries + 1) \in 0 .. AttemptCap
      /\ attempt < AttemptCap => Saturating(attempt + 1) = attempt + 1
      /\ tries < AttemptCap => Saturating(tries + 1) = tries + 1
  BY SaturatingFacts DEF IInv, TypeOK
<1>3. reconnect_max_attempts \in Nat /\ reconnect_max_attempts < AttemptCap /\ AttemptCap \in Nat
  BY ConstantFacts DEF IInv, ConfigInv
<1>4. CASE AttemptAtOnce
  BY <1>2, <1>3, <1>4 DEF AttemptAtOnce, IInv, TypeOK, PCs, ConfigInv, ConnectedInv, BufferInv,
     OneWholeMessage, SleptInv, AttemptInv, GivesUpWhenExhausted
<1>5. CASE AttemptLater
  BY <1>2, <1>3, <1>5 DEF AttemptLater, IInv, TypeOK, PCs, ConfigInv, ConnectedInv, BufferInv,
     OneWholeMessage, SleptInv, AttemptInv, GivesUpWhenExhausted
<1>6. CASE SleepStops
  BY <1>6 DEF SleepStops, Return, ShutdownRequested, IInv, TypeOK, PCs, ConfigInv, ConnectedInv,
     BufferInv, OneWholeMessage, SleptInv, AttemptInv, GivesUpWhenExhausted
<1>7. CASE Sleep
  <2>1. /\ remaining' \in 0 .. EffectiveMaxDelay /\ slept' \in 0 .. EffectiveMaxDelay
        /\ slept' + remaining' = delay_ms
    <3>1. /\ remaining \in Nat /\ slept \in Nat /\ slept + remaining = delay_ms
          /\ delay_ms <= EffectiveMaxDelay /\ EffectiveMaxDelay \in Nat /\ SleepChunk \in Nat
      BY <1>7, ConstantFacts DEF Sleep, IInv, TypeOK, SleptInv
    <3>2. PICK chunk \in 0 .. remaining : remaining' = remaining - chunk /\ slept' = slept + chunk
      BY <1>7, <3>1 DEF Sleep, Least
    <3>3. QED
      BY <3>1, <3>2
  <2>2. QED
    BY <1>7, <2>1 DEF Sleep, IInv, TypeOK, PCs, ConfigInv, ConnectedInv, BufferInv,
       OneWholeMessage, SleptInv, AttemptInv, GivesUpWhenExhausted
<1>8. CASE SleepEnds
  BY <1>2, <1>3, <1>8 DEF SleepEnds, IInv, TypeOK, PCs, ConfigInv, ConnectedInv, BufferInv,
     OneWholeMessage, SleptInv, AttemptInv, GivesUpWhenExhausted
<1>9. QED
  BY <1>1, <1>4, <1>5, <1>6, <1>7, <1>8

\* A failed try resets the connection, and gives up or doubles the delay.
LEMMA TryFailsKeeps ==
    ASSUME IInv, pc \in {"connect", "subscribe"}, TryFails
    PROVE  IInv'
<1> USE DEF source, locals, frames, config, flags, network, history
<1>1. DoubledDelay \in 0 .. EffectiveMaxDelay
  BY DoubledDelayIsBounded DEF IInv
<1>2. reconnect_max_attempts \in Nat
  BY ConstantFacts DEF IInv, ConfigInv
<1>3. /\ connected' = FALSE /\ link' = "none" /\ subscribed' = FALSE /\ buffer' = << >>
      /\ delay_before_reconnect' = TRUE /\ slept' = 0 /\ pc' \in {"done", "attempt"}
      /\ UNCHANGED <<attempt, remaining, json, stop, reconnect_enabled, reconnect_max_attempts,
                     reachable, ever_subscribed, tries>>
  BY DEF TryFails, ResetConnection
<1>4. CASE GivesUp
  <2>1. pc' = "done" /\ UNCHANGED <<delay_ms, delay_before_attempt, next_reconnect_delay_ms>>
    BY <1>4 DEF TryFails
  <2>2. GivesUpWhenExhausted'
    BY <1>2, <1>3, <1>4, <2>1 DEF IInv, TypeOK, AttemptInv, GivesUp, GivesUpWhenExhausted
  <2>3. TypeOK'
    BY <1>3, <2>1, StartValues DEF IInv, TypeOK, PCs
  <2>4. QED
    BY <1>2, <1>3, <2>1, <2>2, <2>3 DEF IInv, ConfigInv, ConnectedInv, BufferInv,
       OneWholeMessage, SleptInv, AttemptInv
<1>5. CASE ~GivesUp
  <2>1. /\ pc' = "attempt" /\ delay_before_attempt' = TRUE
        /\ delay_ms' = DoubledDelay /\ next_reconnect_delay_ms' = DoubledDelay
    BY <1>5 DEF TryFails
  <2>2. AttemptInv'
    BY <1>2, <1>3, <1>5, <2>1 DEF IInv, TypeOK, AttemptInv, GivesUp
  <2>3. TypeOK'
    BY <1>1, <1>3, <2>1, StartValues DEF IInv, TypeOK, PCs
  <2>4. QED
    BY <1>2, <1>3, <2>1, <2>2, <2>3 DEF IInv, ConfigInv, ConnectedInv, BufferInv,
       OneWholeMessage, SleptInv, GivesUpWhenExhausted, AttemptInv
<1>6. QED
  BY <1>4, <1>5

\* The return of a network call.
LEMMA NetworkCallKeeps ==
    ASSUME IInv, NetworkCallReturns
    PROVE  IInv'
<1> USE DEF source, locals, frames, config, flags, network, history
<1>1. CASE ConnectSucceeds
  BY <1>1 DEF ConnectSucceeds, IInv, TypeOK, PCs, ConfigInv, ConnectedInv, BufferInv,
     OneWholeMessage, SleptInv, AttemptInv, GivesUpWhenExhausted
<1>2. CASE ConnectFails \/ SubscribeFails
  BY <1>2, TryFailsKeeps DEF ConnectFails, SubscribeFails
<1>3. CASE SubscribeSucceeds
  <2>1. reconnect_max_attempts \in Nat
    BY ConstantFacts DEF IInv, ConfigInv
  <2>2. TypeOK'
    BY <1>3, StartValues DEF SubscribeSucceeds, IInv, TypeOK, PCs
  <2>3. QED
    BY <1>3, <2>1, <2>2 DEF SubscribeSucceeds, IInv, ConfigInv, ConnectedInv, BufferInv,
       OneWholeMessage, SleptInv, AttemptInv, GivesUpWhenExhausted
<1>4. CASE MessageBegins
  <2>1. buffer' = <<"first">>
    <3>1. buffer \in {<< >>, <<"first">>} /\ ~MidMessage
      BY <1>4 DEF MessageBegins, IInv, BufferInv
    <3>2. buffer = << >>
      BY <3>1 DEF MidMessage
    <3>3. QED
      BY <1>4, <3>2 DEF MessageBegins
  <2>2. buffer' \in Seq({"first", "last"})
    BY <2>1
  <2>3. QED
    BY <1>4, <2>1, <2>2 DEF MessageBegins, IInv, TypeOK, PCs, ConfigInv, ConnectedInv, BufferInv,
       OneWholeMessage, SleptInv, AttemptInv, GivesUpWhenExhausted
<1>5. CASE MessageEnds
  <2>1. buffer' = <<"first", "last">> /\ json' = <<"first", "last">>
    <3>1. buffer = <<"first">>
      BY <1>5 DEF MessageEnds, MidMessage, IInv, BufferInv
    <3>2. QED
      BY <1>5, <3>1, AppendToOne DEF MessageEnds
  <2>2. <<"first", "last">> \in Seq({"first", "last"})
    OBVIOUS
  <2>3. QED
    BY <1>5, <2>1, <2>2 DEF MessageEnds, IInv, TypeOK, PCs, ConfigInv, ConnectedInv, BufferInv,
       OneWholeMessage, SleptInv, AttemptInv, GivesUpWhenExhausted
<1>6. CASE ReadFails
  BY <1>6, StartValues DEF ReadFails, ResetConnection, IInv, TypeOK, PCs, ConfigInv, ConnectedInv,
     BufferInv, OneWholeMessage, SleptInv, AttemptInv, GivesUpWhenExhausted
<1>7. CASE Destroy
  BY <1>7 DEF Destroy, IInv, TypeOK, PCs, ConfigInv, ConnectedInv, BufferInv, OneWholeMessage,
     SleptInv, AttemptInv, GivesUpWhenExhausted
<1>8. QED
  BY <1>1, <1>2, <1>3, <1>4, <1>5, <1>6, <1>7 DEF NetworkCallReturns

\* Neither the network nor the request to stop disturbs it.
LEMMA SurroundingsKeep ==
    ASSUME IInv, Surroundings \/ UNCHANGED vars
    PROVE  IInv'
<1> USE DEF source, locals, frames, config, flags, network, history
<1>1. CASE StopRequested
  BY <1>1 DEF StopRequested, IInv, TypeOK, PCs, ConfigInv, ConnectedInv, BufferInv, OneWholeMessage,
     SleptInv, AttemptInv, GivesUpWhenExhausted
<1>2. CASE OutageBegins
  <2>1. link' \in {"none", "live", "broken", "silent"} /\ (link' = "none" => link = "none")
    BY <1>2, DropsAssumption DEF OutageBegins, IInv, TypeOK
  <2>2. /\ reachable' = FALSE
        /\ UNCHANGED <<pc, source, locals, frames, flags, subscribed, history>>
    BY <1>2 DEF OutageBegins
  <2>3. TypeOK' /\ ConfigInv'
    BY <2>1, <2>2 DEF IInv, TypeOK, ConfigInv
  <2>4. ConnectedInv' /\ BufferInv' /\ OneWholeMessage'
    BY <2>1, <2>2 DEF IInv, ConnectedInv, BufferInv, OneWholeMessage
  <2>5. SleptInv' /\ AttemptInv' /\ GivesUpWhenExhausted'
    BY <2>2 DEF IInv, SleptInv, AttemptInv, GivesUpWhenExhausted
  <2>6. QED
    BY <2>3, <2>4, <2>5 DEF IInv
<1>3. CASE OutageEnds
  BY <1>3 DEF OutageEnds, IInv, TypeOK, PCs, ConfigInv, ConnectedInv, BufferInv, OneWholeMessage,
     SleptInv, AttemptInv, GivesUpWhenExhausted
<1>4. CASE UNCHANGED vars
  BY <1>4 DEF vars, IInv, TypeOK, PCs, ConfigInv, ConnectedInv, BufferInv, OneWholeMessage,
     SleptInv, AttemptInv, GivesUpWhenExhausted
<1>5. QED
  BY <1>1, <1>2, <1>3, <1>4 DEF Surroundings

\* Connection, buffer, delays and attempts stay coherent.
THEOREM InvariantHolds == Spec => []IInv
<1>1. IInv /\ [Next]_vars => IInv'
  BY CallKeeps, BackoffKeeps, NetworkCallKeeps, SurroundingsKeep DEF Next, ProgramStep
<1>2. QED
  BY InitHolds, <1>1, PTL DEF Spec

-----------------------------------------------------------------------------
(* What follows from it.                                                   *)

\* Every member, local and flag keeps its type; no delay exceeds the maximum,
\* whatever the doubling wraps to.
THEOREM TypesHold == Spec => []TypeOK
<1>1. IInv => TypeOK
  BY DEF IInv
<1>2. QED
  BY <1>1, InvariantHolds, PTL

\* The source never reads from a connection that is not open and subscribed.
THEOREM ReadsStaySubscribed == Spec => []ReadsOnlySubscribed
<1>1. IInv => ReadsOnlySubscribed
  BY DEF IInv, ConnectedInv, ReadsOnlySubscribed
<1>2. QED
  BY <1>1, InvariantHolds, PTL

\* next_message returns whole messages only.
THEOREM MessagesStayWhole == Spec => []OneWholeMessage
<1>1. IInv => OneWholeMessage
  BY DEF IInv
<1>2. QED
  BY <1>1, InvariantHolds, PTL

\* The source gives up after exactly the configured tries, for every limit.
THEOREM GivesUpInTime == Spec => []GivesUpWhenExhausted
<1>1. IInv => GivesUpWhenExhausted
  BY DEF IInv
<1>2. QED
  BY <1>1, InvariantHolds, PTL

\* No step to a connect is taken once a stop is requested.
THEOREM StopPreventsConnects == Spec => NoConnectAfterStop
<1>1. [Next]_vars => [stop /\ pc' = "connect" => pc = "connect"]_vars
  <2> SUFFICES ASSUME Next, stop, pc' = "connect", pc # "connect"
               PROVE  FALSE
    BY DEF NoConnectAfterStop
  <2>1. CASE ProgramStep
    BY <2>1 DEF ProgramStep, Call, LoopStops, Return, ReadNext, ConnectOnce, Reconnect, AttemptStops,
       AttemptAtOnce, AttemptLater, SleepStops, Sleep, SleepEnds, ShutdownRequested
  <2>2. CASE NetworkCallReturns
    BY <2>2 DEF NetworkCallReturns, ConnectSucceeds, ConnectFails, SubscribeSucceeds, SubscribeFails,
       TryFails, MessageBegins, MessageEnds, ReadFails, Destroy
  <2>3. CASE Surroundings
    BY <2>3 DEF Surroundings, StopRequested, OutageBegins, OutageEnds
  <2>4. QED
    BY <2>1, <2>2, <2>3 DEF Next
<1>2. QED
  BY <1>1, PTL DEF Spec, NoConnectAfterStop

\* Where a thread that called with the stop requested can be.
Barred == stop /\ pc \in {"caller", "loop", "done", "closed"}

\* A stop that is there when the loop calls ends the source without another connect
\* or read.
THEOREM StopPreventsReads == Spec => NoReadAfterStop
<1>1. Barred /\ [Next]_vars => Barred'
  <2> SUFFICES ASSUME Barred, [Next]_vars
               PROVE  Barred'
    OBVIOUS
  <2> USE DEF flags, config
  <2>1. CASE ProgramStep
    BY <2>1 DEF Barred, ProgramStep, Call, LoopStops, Return, ReadNext, ConnectOnce, Reconnect,
       AttemptStops, AttemptAtOnce, AttemptLater, SleepStops, Sleep, SleepEnds, ShutdownRequested
  <2>2. CASE NetworkCallReturns
    BY <2>2 DEF Barred, NetworkCallReturns, ConnectSucceeds, ConnectFails, SubscribeSucceeds,
       SubscribeFails, MessageBegins, MessageEnds, ReadFails, Destroy
  <2>3. CASE Surroundings
    BY <2>3 DEF Barred, Surroundings, StopRequested, OutageBegins, OutageEnds
  <2>4. CASE UNCHANGED vars
    BY <2>4 DEF Barred, vars
  <2>5. QED
    BY <2>1, <2>2, <2>3, <2>4 DEF Next
<1>2. stop /\ pc = "caller" => Barred
  BY DEF Barred
<1>3. Barred => pc \notin {"connect", "read"}
  BY DEF Barred
<1>4. QED
  BY <1>1, <1>2, <1>3, PTL DEF Spec, NoReadAfterStop

-----------------------------------------------------------------------------
(* The backoff.                                                            *)

\* Doubling a delay does not wrap, and the bound on the counters comes after the
\* maximum delay.
BackoffFits ==
    /\ EffectiveMaxDelay * 2 < SizeLimit
    /\ AttemptCap > 1
    /\ InitialDelay * PowerOfTwo[AttemptCap - 1] >= EffectiveMaxDelay \/ InitialDelay = 0

\* What is slept after the n-th failure of an outage.
Backoff(n) == Least(InitialDelay * PowerOfTwo[n], EffectiveMaxDelay)

\* The recursive function of the powers of two exists.
LEMMA PowersOfTwo ==
    /\ PowerOfTwo[0] = 1
    /\ \A n \in 0 .. AttemptCap : PowerOfTwo[n] \in Nat
    /\ \A n \in 1 .. AttemptCap : PowerOfTwo[n] = 2 * PowerOfTwo[n - 1]
<1> DEFINE Powers(f) == f = [n \in 0 .. AttemptCap |-> IF n = 0 THEN 1 ELSE 2 * f[n - 1]]
           step == [i \in 1 .. AttemptCap |-> [x \in Nat |-> 2 * x]]
<1>1. AttemptCap \in Nat /\ step \in [1 .. AttemptCap -> [Nat -> Nat]] /\ 1 \in Nat
  BY ConstantFacts
<1>2. PICK f : Iterates(f, AttemptCap, Nat, 1, step)
  <2> HIDE DEF step
  <2>1. QED
    BY <1>1, IterationExists
<1>3. ASSUME NEW n \in 0 .. AttemptCap
      PROVE  f[n] = IF n = 0 THEN 1 ELSE 2 * f[n - 1]
  <2>1. CASE n = 0
    BY <1>2, <2>1 DEF Iterates
  <2>2. CASE n # 0
    <3>1. n \in 1 .. AttemptCap /\ n - 1 \in 0 .. AttemptCap
      BY <1>1, <2>2
    <3>2. f[n - 1] \in Nat /\ f[n] = step[n][f[n - 1]]
      BY <1>2, <3>1 DEF Iterates
    <3>3. QED
      BY <2>2, <3>1, <3>2
  <2>3. QED
    BY <2>1, <2>2
<1>4. f = [n \in 0 .. AttemptCap |-> f[n]]
  BY <1>2 DEF Iterates
<1>5. Powers(f)
  BY <1>3, <1>4, Zenon
<1>6. Powers(PowerOfTwo)
  <2>1. PowerOfTwo = CHOOSE g : Powers(g)
    BY DEF PowerOfTwo
  <2> HIDE DEF Powers
  <2>2. QED
    BY <1>5, <2>1
<1>7. ASSUME NEW n \in 0 .. AttemptCap
      PROVE  PowerOfTwo[n] = IF n = 0 THEN 1 ELSE 2 * PowerOfTwo[n - 1]
  BY <1>6, Zenon
<1>8. PowerOfTwo[0] = 1
  BY <1>1, <1>7
<1>9. \A n \in 1 .. AttemptCap : PowerOfTwo[n] = 2 * PowerOfTwo[n - 1]
  <2> SUFFICES ASSUME NEW n \in 1 .. AttemptCap PROVE PowerOfTwo[n] = 2 * PowerOfTwo[n - 1]
    OBVIOUS
  <2>1. n \in 0 .. AttemptCap /\ n # 0
    BY <1>1
  <2>2. QED
    BY <1>7, <2>1
<1> DEFINE T == {n \in Nat : n <= AttemptCap => PowerOfTwo[n] \in Nat}
<1>10. 0 \in T
  BY <1>8
<1>11. ASSUME NEW n \in T \cap Nat PROVE n + 1 \in T
  <2> SUFFICES ASSUME n + 1 <= AttemptCap PROVE PowerOfTwo[n + 1] \in Nat
    OBVIOUS
  <2>1. n + 1 \in 1 .. AttemptCap /\ n + 1 - 1 = n /\ PowerOfTwo[n] \in Nat
    BY <1>1
  <2>2. PowerOfTwo[n + 1] = 2 * PowerOfTwo[n + 1 - 1]
    BY <1>9, <2>1
  <2>3. QED
    BY <2>1, <2>2
<1>12. ASSUME NEW n \in 0 .. AttemptCap PROVE PowerOfTwo[n] \in Nat
  <2>1. n \in Nat /\ n <= AttemptCap
    BY <1>1
  <2>2. n \in T
    <3> HIDE DEF T
    <3>1. QED
      BY <1>10, <1>11, <2>1, SetInduction
  <2>3. QED
    BY <2>1, <2>2
<1>13. QED
  BY <1>8, <1>9, <1>12

\* What the configuration says of the delays.
LEMMA BackoffFacts ==
    ASSUME BackoffFits
    PROVE  /\ Backoff(0) = InitialDelay
           /\ \A n \in 0 .. AttemptCap : Backoff(n) \in 0 .. EffectiveMaxDelay
           /\ \A n \in 1 .. AttemptCap :
                 Least((Backoff(n - 1) * 2) % SizeLimit, EffectiveMaxDelay) = Backoff(n)
           /\ Backoff(AttemptCap) = Backoff(AttemptCap - 1)
<1> DEFINE product(n) == InitialDelay * PowerOfTwo[n]
<1>1. /\ InitialDelay \in Nat /\ EffectiveMaxDelay \in Nat /\ InitialDelay <= EffectiveMaxDelay
      /\ SizeLimit \in Nat /\ AttemptCap \in Nat /\ EffectiveMaxDelay * 2 < SizeLimit
  BY ConstantFacts DEF BackoffFits
<1>2. /\ product(0) = InitialDelay
      /\ \A n \in 0 .. AttemptCap : product(n) \in Nat
      /\ \A n \in 1 .. AttemptCap : product(n) = 2 * product(n - 1)
  <2>1. product(0) = InitialDelay
    BY <1>1, PowersOfTwo
  <2>2. ASSUME NEW n \in 0 .. AttemptCap PROVE product(n) \in Nat
    BY <1>1, PowersOfTwo
  <2>3. ASSUME NEW n \in 1 .. AttemptCap PROVE product(n) = 2 * product(n - 1)
    <3>1. n - 1 \in 0 .. AttemptCap
      BY <1>1
    <3>2. PowerOfTwo[n - 1] \in Nat /\ PowerOfTwo[n] = 2 * PowerOfTwo[n - 1]
      BY <3>1, PowersOfTwo
    <3>3. QED
      BY <1>1, <3>2
  <2>4. QED
    BY <2>1, <2>2, <2>3
<1>3. AttemptCap > 1 /\ (product(AttemptCap - 1) >= EffectiveMaxDelay \/ InitialDelay = 0)
  BY DEF BackoffFits
<1>4. InitialDelay = 0 => product(AttemptCap) = 0 /\ product(AttemptCap - 1) = 0
  BY <1>1, <1>3, PowersOfTwo
<1>5. \A n : Backoff(n) = Least(product(n), EffectiveMaxDelay)
  BY DEF Backoff
<1> HIDE DEF product
<1>6. Backoff(0) = InitialDelay
  BY <1>1, <1>2, <1>5 DEF Least
<1>7. ASSUME NEW n \in 0 .. AttemptCap PROVE Backoff(n) \in 0 .. EffectiveMaxDelay
  BY <1>1, <1>2, <1>5 DEF Least
<1>8. ASSUME NEW n \in 1 .. AttemptCap
      PROVE  Least((Backoff(n - 1) * 2) % SizeLimit, EffectiveMaxDelay) = Backoff(n)
  <2>1. n - 1 \in 0 .. AttemptCap
    BY <1>1
  <2>2. /\ product(n) = 2 * product(n - 1) /\ product(n - 1) \in Nat
        /\ Backoff(n - 1) = Least(product(n - 1), EffectiveMaxDelay)
        /\ Backoff(n) = Least(product(n), EffectiveMaxDelay)
        /\ Backoff(n - 1) \in 0 .. EffectiveMaxDelay
    BY <1>2, <1>5, <1>7, <2>1
  <2>3. (Backoff(n - 1) * 2) % SizeLimit = Backoff(n - 1) * 2
    <3>1. Backoff(n - 1) * 2 \in 0 .. SizeLimit - 1 /\ SizeLimit > 0
      BY <1>1, <2>2
    <3>2. QED
      BY <1>1, <3>1
  <2>4. QED
    BY <1>1, <2>2, <2>3 DEF Least
<1>9. Backoff(AttemptCap) = Backoff(AttemptCap - 1)
  <2>1. /\ product(AttemptCap) = 2 * product(AttemptCap - 1) /\ product(AttemptCap - 1) \in Nat
        /\ Backoff(AttemptCap - 1) = Least(product(AttemptCap - 1), EffectiveMaxDelay)
        /\ Backoff(AttemptCap) = Least(product(AttemptCap), EffectiveMaxDelay)
    <3>1. AttemptCap \in 1 .. AttemptCap /\ AttemptCap - 1 \in 0 .. AttemptCap
      BY <1>1, <1>3
    <3>2. QED
      BY <1>2, <1>5, <3>1
  <2>2. QED
    BY <1>1, <1>3, <1>4, <2>1 DEF Least
<1>10. QED
  BY <1>6, <1>7, <1>8, <1>9

\* The delay goes with the tries of the outage; only the first try of the process
\* needs none.
BackoffInv ==
    reconnect_enabled =>
        /\ subscribed => ever_subscribed
        /\ pc \in {"caller", "loop", "read"} => next_reconnect_delay_ms = InitialDelay
        /\ pc \in {"caller", "loop"} /\ ~connected => (delay_before_reconnect <=> ever_subscribed)
        /\ pc = "attempt" => (delay_before_attempt <=> tries > 0 \/ ever_subscribed)
        /\ pc = "sleep" => tries > 0 \/ ever_subscribed
        /\ pc \in {"attempt", "sleep"} => delay_ms = Backoff(tries)
        /\ pc \in {"connect", "subscribe"} => tries > 0 /\ delay_ms = Backoff(tries - 1)

\* BackoffIsExponential, in terms of Backoff.
BackoffSlept ==
    reconnect_enabled /\ pc = "connect" =>
        slept = IF tries = 1 /\ ~ever_subscribed THEN 0 ELSE Backoff(tries - 1)

\* Together they are inductive.
LEMMA BackoffKeepsDelays ==
    ASSUME BackoffFits, IInv, BackoffInv, BackoffSlept, [Next]_vars
    PROVE  BackoffInv' /\ BackoffSlept'
<1> USE DEF source, locals, frames, config, flags, network, history
<1>1. /\ AttemptCap \in Nat /\ AttemptCap > 1 /\ tries \in 0 .. AttemptCap
      /\ reconnect_enabled' = reconnect_enabled
  <2>1. reconnect_enabled' = reconnect_enabled
    BY DEF Next, ProgramStep, NetworkCallReturns, Surroundings, Call, LoopStops, Return, ReadNext,
       ConnectOnce, Reconnect, AttemptStops, AttemptAtOnce, AttemptLater, SleepStops, Sleep, SleepEnds,
       ConnectSucceeds, ConnectFails, SubscribeSucceeds, SubscribeFails, TryFails, MessageBegins,
       MessageEnds, ReadFails, Destroy, StopRequested, OutageBegins, OutageEnds, vars
  <2>2. QED
    BY <2>1, ConstantFacts DEF BackoffFits, IInv, TypeOK
<1> SUFFICES ASSUME reconnect_enabled PROVE BackoffInv' /\ BackoffSlept'
  BY <1>1 DEF BackoffInv, BackoffSlept
<1>2. CASE Call \/ LoopStops \/ ReadNext
  <2>1. CASE Call
    BY <2>1 DEF Call, BackoffInv, BackoffSlept
  <2>2. CASE LoopStops
    BY <2>2 DEF LoopStops, Return, BackoffInv, BackoffSlept
  <2>3. CASE ReadNext
    BY <2>3 DEF ReadNext, BackoffInv, BackoffSlept
  <2>4. QED
    BY <1>2, <2>1, <2>2, <2>3
<1>3. CASE Reconnect
  <2>1. Backoff(0) = InitialDelay /\ tries = 0 /\ tries' = 0
    BY <1>3, BackoffFacts DEF Reconnect, IInv, AttemptInv
  <2>2. /\ pc' = "attempt" /\ delay_ms' = InitialDelay
        /\ (delay_before_attempt' <=> ever_subscribed')
        /\ (subscribed' => ever_subscribed')
    BY <1>3 DEF Reconnect, BackoffInv
  <2>3. QED
    BY <2>1, <2>2 DEF BackoffInv, BackoffSlept
<1>4. CASE AttemptStops \/ AttemptLater \/ SleepStops \/ Sleep
  <2>1. CASE AttemptStops \/ SleepStops
    <3>1. pc' = "done" /\ subscribed' = subscribed /\ ever_subscribed' = ever_subscribed
      BY <2>1 DEF AttemptStops, SleepStops, Return
    <3>2. QED
      BY <3>1 DEF BackoffInv, BackoffSlept
  <2>2. CASE AttemptLater
    BY <2>2 DEF AttemptLater, BackoffInv, BackoffSlept
  <2>3. CASE Sleep
    BY <2>3 DEF Sleep, BackoffInv, BackoffSlept
  <2>4. QED
    BY <1>4, <2>1, <2>2, <2>3
<1>5. CASE AttemptAtOnce
  <2>1. tries = 0 /\ ~ever_subscribed /\ slept = 0 /\ delay_ms = Backoff(0)
    BY <1>1, <1>5 DEF AttemptAtOnce, BackoffInv, IInv, SleptInv
  <2>2. tries' = 1
    BY <1>1, <1>5, <2>1 DEF AttemptAtOnce, Saturating, Least
  <2>3. QED
    BY <1>5, <2>1, <2>2 DEF AttemptAtOnce, BackoffInv, BackoffSlept
<1>6. CASE SleepEnds
  <2>1. slept' = Backoff(tries) /\ delay_ms' = Backoff(tries) /\ (tries > 0 \/ ever_subscribed)
    BY <1>6 DEF SleepEnds, BackoffInv, IInv, SleptInv, TypeOK
  <2>2. tries' \in Nat /\ tries' > 0 /\ Backoff(tries' - 1) = Backoff(tries)
        /\ (tries' = 1 => tries = 0)
    BY <1>1, <1>6, BackoffFacts DEF SleepEnds, Saturating, Least
  <2>3. QED
    BY <1>6, <2>1, <2>2 DEF SleepEnds, BackoffInv, BackoffSlept
<1>7. CASE ConnectSucceeds
  BY <1>7 DEF ConnectSucceeds, BackoffInv, BackoffSlept
<1>8. CASE ConnectFails \/ SubscribeFails
  <2>1. TryFails /\ tries > 0 /\ delay_ms = Backoff(tries - 1)
    BY <1>8 DEF ConnectFails, SubscribeFails, BackoffInv
  <2>2. /\ tries' = tries /\ ever_subscribed' = ever_subscribed
        /\ \/ pc' = "done"
           \/ pc' = "attempt" /\ delay_before_attempt' = TRUE /\ delay_ms' = DoubledDelay
        /\ subscribed' = FALSE
    BY <2>1 DEF TryFails, ResetConnection
  <2>3. DoubledDelay = Backoff(tries)
    BY <1>1, <2>1, BackoffFacts DEF DoubledDelay
  <2>4. QED
    BY <2>1, <2>2, <2>3 DEF BackoffInv, BackoffSlept
<1>9. CASE SubscribeSucceeds
  BY <1>9 DEF SubscribeSucceeds, BackoffInv, BackoffSlept
<1>10. CASE MessageBegins \/ MessageEnds \/ Destroy
  <2>1. CASE MessageBegins
    BY <2>1 DEF MessageBegins, BackoffInv, BackoffSlept
  <2>2. CASE MessageEnds
    <3>1. connected
      BY <2>2 DEF MessageEnds, IInv, ConnectedInv
    <3>2. QED
      BY <2>2, <3>1 DEF MessageEnds, BackoffInv, BackoffSlept
  <2>3. CASE Destroy
    BY <2>3 DEF Destroy, BackoffInv, BackoffSlept
  <2>4. QED
    BY <1>10, <2>1, <2>2, <2>3
<1>11. CASE ReadFails
  BY <1>11 DEF ReadFails, ResetConnection, IInv, ConnectedInv, BackoffInv, BackoffSlept
<1>12. CASE Surroundings \/ UNCHANGED vars
  <2>1. CASE StopRequested
    BY <2>1 DEF StopRequested, BackoffInv, BackoffSlept
  <2>2. CASE OutageBegins
    BY <2>2 DEF OutageBegins, BackoffInv, BackoffSlept
  <2>3. CASE OutageEnds
    BY <2>3 DEF OutageEnds, BackoffInv, BackoffSlept
  <2>4. CASE UNCHANGED vars
    BY <2>4 DEF vars, BackoffInv, BackoffSlept
  <2>5. QED
    BY <1>12, <2>1, <2>2, <2>3, <2>4 DEF Surroundings
<1>13. ~ ConnectOnce
  BY DEF ConnectOnce
<1>14. QED
  BY <1>2, <1>3, <1>4, <1>5, <1>6, <1>7, <1>8, <1>9, <1>10, <1>11, <1>12, <1>13
  DEF Next, ProgramStep, NetworkCallReturns

\* Before each try of an outage the initial delay, doubled once for every try before
\* it, has been slept, for all delays and limits, unless doubling would wrap.
THEOREM BackoffDoubles ==
    ASSUME BackoffFits
    PROVE  Spec => []BackoffIsExponential
<1>1. Init => BackoffInv /\ BackoffSlept
  BY DEF Init, BackoffInv, BackoffSlept
<1>2. IInv /\ BackoffInv /\ BackoffSlept /\ [Next]_vars => BackoffInv' /\ BackoffSlept'
  BY BackoffKeepsDelays
<1>3. BackoffSlept => BackoffIsExponential
  BY DEF BackoffSlept, BackoffIsExponential, Backoff
<1>4. QED
  BY <1>1, <1>2, <1>3, InvariantHolds, PTL DEF Spec

-----------------------------------------------------------------------------
(* The contract of next_message.                                           *)

\* next_message keeps the safety part of the contract the ingest loop is built on
\* (the conjunct Promise!Spec of ImplementsMessageSource): a call of it delivers or
\* ends, and once it has noticed the stop it can only end.
THEOREM SourceKeepsPromise == Spec => Promise!Spec
<1>1. Init => Promise!Init
  BY DEF Init, Promise!Init, Phase
<1>2. [Next]_vars => [Promise!Next]_(Promise!vars)
  <2> SUFFICES ASSUME [Next]_vars PROVE Promise!Next \/ UNCHANGED Promise!vars
    OBVIOUS
  <2> USE DEF source, locals, frames, config, flags, network, history
  <2>1. CASE Call
    BY <2>1 DEF Call, Phase, Promise!Next, Promise!Ask
  <2>2. CASE LoopStops \/ AttemptStops \/ SleepStops
    BY <2>2 DEF LoopStops, AttemptStops, SleepStops, Return, ShutdownRequested, Phase,
       Promise!Next, Promise!Answer, Promise!End
  <2>3. CASE ReadNext \/ ConnectOnce \/ Reconnect
    BY <2>3 DEF ReadNext, ConnectOnce, Reconnect, ShutdownRequested, Phase, Promise!vars
  <2>4. CASE AttemptAtOnce \/ AttemptLater \/ Sleep \/ SleepEnds
    BY <2>4 DEF AttemptAtOnce, AttemptLater, Sleep, SleepEnds, ShutdownRequested, Phase,
       Promise!vars
  <2>5. CASE ConnectSucceeds \/ SubscribeSucceeds \/ MessageBegins
    BY <2>5 DEF ConnectSucceeds, SubscribeSucceeds, MessageBegins, Phase, Promise!vars
  <2>6. CASE ConnectFails \/ SubscribeFails
    <3>1. Phase = "asked" /\ stop' = stop /\ pc' \in {"done", "attempt"}
      BY <2>6 DEF ConnectFails, SubscribeFails, TryFails, Phase
    <3>2. QED
      BY <3>1 DEF Phase, Promise!vars, Promise!Next, Promise!Answer, Promise!End, Promise!Bar
  <2>7. CASE MessageEnds
    BY <2>7 DEF MessageEnds, Phase, Promise!Next, Promise!Answer, Promise!Deliver
  <2>8. CASE ReadFails
    <3>1. Phase = "asked" /\ stop' = stop /\ pc' = "loop"
      BY <2>8 DEF ReadFails, Phase
    <3>2. QED
      BY <3>1 DEF Phase, Promise!vars, Promise!Next, Promise!Answer, Promise!Bar
  <2>9. CASE Destroy
    BY <2>9 DEF Destroy, Phase, Promise!vars
  <2>10. CASE StopRequested
    BY <2>10 DEF StopRequested, Phase, Promise!Next, Promise!Stop, Promise!Barring
  <2>11. CASE OutageBegins \/ OutageEnds \/ UNCHANGED vars
    BY <2>11 DEF OutageBegins, OutageEnds, vars, Phase, Promise!vars
  <2>12. QED
    BY <2>1, <2>2, <2>3, <2>4, <2>5, <2>6, <2>7, <2>8, <2>9, <2>10, <2>11
    DEF Next, ProgramStep, NetworkCallReturns, Surroundings
<1>3. QED
  BY <1>1, <1>2, PTL DEF Spec, Promise!Spec

=============================================================================
