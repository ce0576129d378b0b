----------------------------- MODULE IngestProofs -----------------------------
(***************************************************************************)
(* The main loop, for all tables, messages, limits and stops: what is      *)
(* saved is whole, every event is counted, and a message is applied as the *)
(* one update it means.  With the tracker beside it: what was seen covers  *)
(* the table, a plateau is told once, and the samples are current.         *)
(***************************************************************************)
EXTENDS IngestGrowth, DataLemmas

-----------------------------------------------------------------------------
(* What is saved.                                                          *)

\* Outside of a message the table is the one at its boundary, and what is written
\* at the end is that table.
FilesInv ==
    /\ exported = Table!Export(table)
    /\ pc \notin {"applying", "exited"} => table = boundary
    /\ snapshot # << >> => pc \in {"exporting", "exited"} /\ snapshot = <<boundary>>
    /\ pc = "exporting" => table = boundary /\ snapshot # << >>
    /\ tables # << >> =>
          pc = "exited" /\ snapshot # << >> /\ tables = <<Table!Export(boundary)>>
    /\ outcome = "success" => pc = "exited" /\ snapshot # << >>

\* The files follow the table at the message boundaries.
LEMMA FilesInvHolds == Spec => []FilesInv
<1>1. Init => FilesInv
  BY DEF Init, FilesInv
<1>2. FilesInv /\ [Next]_vars => FilesInv'
  <2> SUFFICES ASSUME FilesInv, [Next]_vars PROVE FilesInv'
    OBVIOUS
  <2> USE DEF routing, flags, inputs, current, stats, files
  <2>1. CASE CreateSource \/ CreateSourceThrows \/ AskSource \/ LoopEnds \/ DropMessage
             \/ AcceptMessage
    BY <2>1 DEF FilesInv, CreateSource, CreateSourceThrows, AskSource, LoopEnds, DropMessage,
       AcceptMessage
  <2>2. CASE ApplyAnnounce
    BY <2>2 DEF FilesInv, ApplyAnnounce, Emitted, Table!Announce
  <2>3. CASE ApplyWithdraw
    BY <2>3 DEF FilesInv, ApplyWithdraw, Emitted, Table!Withdraw
  <2>4. CASE ApplyThrows \/ FinishMessage
    BY <2>4 DEF FilesInv, ApplyThrows, FinishMessage
  <2>5. CASE SaveSnapshot \/ SaveThrows \/ ExportTables \/ ExportFails
    BY <2>5 DEF FilesInv, SaveSnapshot, SaveThrows, ExportTables, ExportFails
  <2>6. CASE SourceAnswers
    BY <2>6 DEF FilesInv, SourceAnswers, Deliver, SourceEnds, SourceBarred
  <2>7. CASE Signal \/ Keypress
    BY <2>7 DEF FilesInv, Signal, Keypress
  <2>8. CASE UNCHANGED vars
    BY <2>8 DEF FilesInv, vars
  <2>9. QED
    BY <2>1, <2>2, <2>3, <2>4, <2>5, <2>6, <2>7, <2>8 DEF Next, MainStep
<1>3. QED
  BY <1>1, <1>2, PTL DEF Spec

\* The files hold the table after a whole number of messages, and agree, however
\* the loop was stopped and whatever failed.
THEOREM FilesAreWhole == Spec => []SavedIsWhole
<1>1. FilesInv => SavedIsWhole
  BY DEF FilesInv, SavedIsWhole
<1>2. QED
  BY <1>1, FilesInvHolds, PTL

\* After a signal no message is begun, wherever the loop is, and the table stays.
THEOREM SignalStopsApplying == Spec => SignalFreezesTable
<1>1. [Next]_vars =>
          [signal /\ pc \in {"starting", "loop", "waiting", "received", "stopping", "exporting"} =>
              pc' # "applying" /\ UNCHANGED routing]_vars
  <2> SUFFICES ASSUME Next, signal,
                      pc \in {"starting", "loop", "waiting", "received", "stopping", "exporting"}
               PROVE  pc' # "applying" /\ UNCHANGED routing
    OBVIOUS
  <2>1. CASE MainStep
    BY <2>1 DEF MainStep, CreateSource, CreateSourceThrows, AskSource, LoopEnds, DropMessage,
       AcceptMessage, ApplyAnnounce, ApplyWithdraw, Emitted, ApplyThrows, FinishMessage,
       SaveSnapshot, SaveThrows, ExportTables, ExportFails
  <2>2. CASE SourceAnswers
    BY <2>2 DEF SourceAnswers, Deliver, SourceEnds, SourceBarred
  <2>3. CASE Signal \/ Keypress
    BY <2>3 DEF Signal, Keypress
  <2>4. QED
    BY <2>1, <2>2, <2>3 DEF Next
<1>2. QED
  BY <1>1, PTL DEF Spec, SignalFreezesTable

-----------------------------------------------------------------------------
(* What is counted.                                                        *)

\* A number of the counters' width.
LEMMA WrappedIsNat ==
    ASSUME NEW n \in Nat
    PROVE  n % SizeLimit \in 0 .. SizeLimit - 1
BY CountersAssumption

\* Wrapping once at the end is wrapping all the way.
LEMMA WrapsAgree ==
    ASSUME NEW m \in Nat, NEW n \in Nat
    PROVE  Counted(m % SizeLimit, n) = (m + n) % SizeLimit
<1> DEFINE L == SizeLimit
           q == m \div L
           r == m % L
<1>1. L \in Nat \ {0} /\ q \in Nat /\ r \in Nat /\ m = L * q + r
  BY CountersAssumption
<1>2. m + n = L * q + (r + n)
  BY <1>1
<1>3. ASSUME NEW k \in Nat, NEW p \in Nat
      PROVE  (L * p + k) % L = k % L
  <2> DEFINE a == k \div L
             b == k % L
             c == (L * p + k) \div L
             d == (L * p + k) % L
  <2>1. a \in Nat /\ b \in 0 .. L - 1 /\ k = L * a + b
    BY <1>1
  <2>2. c \in Nat /\ d \in 0 .. L - 1 /\ L * p + k = L * c + d
    BY <1>1
  <2>3. L * (p + a - c) = d - b
    BY <1>1, <2>1, <2>2
  <2> DEFINE z == p + a - c
  <2>4. z \in Int /\ L * z = d - b
    BY <1>1, <2>1, <2>2, <2>3
  <2>5. ~ (z >= 1) /\ ~ (z <= -1)
    <3>1. d - b < L /\ b - d < L
      BY <1>1, <2>1, <2>2
    <3>2. ASSUME z >= 1 PROVE FALSE
      <4>1. L * z >= L
        BY <1>1, <2>4, <3>2
      <4>2. QED
        BY <1>1, <2>1, <2>2, <2>4, <3>1, <4>1
    <3>3. ASSUME z <= -1 PROVE FALSE
      <4>1. L * z <= -L
        BY <1>1, <2>4, <3>3
      <4>2. QED
        BY <1>1, <2>1, <2>2, <2>4, <3>1, <4>1
    <3>4. QED
      BY <3>2, <3>3
  <2>6. z = 0
    BY <2>4, <2>5
  <2>7. d = b
    BY <1>1, <2>1, <2>2, <2>4, <2>6
  <2>8. QED
    BY <2>7
<1>4. r + n \in Nat
  BY <1>1
<1>5. (m + n) % L = (r + n) % L
  <2> HIDE DEF q, r
  <2>1. (L * q + (r + n)) % L = (r + n) % L
    BY <1>1, <1>3, <1>4
  <2>2. QED
    BY <1>2, <2>1
<1>6. QED
  BY <1>5 DEF Counted

\* What was applied is what was emitted, also while a message is worked off.
CountsInv ==
    /\ {emitted_events, parsed_events_total, announces_applied, withdraws_applied} \subseteq Nat
    /\ pc \notin {"applying", "exited"} =>
          parsed_events_total = (announces_applied + withdraws_applied) % SizeLimit
    /\ pc = "applying" =>
          Counted(parsed_events_total, emitted_events) =
              (announces_applied + withdraws_applied) % SizeLimit

\* One more event of either kind is one more event.
LEMMA CountsGoUp ==
    ASSUME NEW parsed \in Nat, NEW emitted \in Nat, NEW a \in Nat, NEW w \in Nat,
           Counted(parsed, emitted) = (a + w) % SizeLimit
    PROVE  /\ Counted(parsed, emitted + 1) = (Counted(a, 1) + w) % SizeLimit
           /\ Counted(parsed, emitted + 1) = (a + Counted(w, 1)) % SizeLimit
           /\ Counted(a, 1) \in Nat /\ Counted(w, 1) \in Nat
<1>1. Counted(parsed, emitted + 1) = (a + w + 1) % SizeLimit
  <2> DEFINE m == parsed + emitted
             n == a + w
  <2>1. m \in Nat /\ n \in Nat /\ parsed + (emitted + 1) = m + 1
    OBVIOUS
  <2>2. m % SizeLimit = n % SizeLimit
    BY DEF Counted
  <2> HIDE DEF m, n
  <2>3. Counted(m % SizeLimit, 1) = (m + 1) % SizeLimit
    BY <2>1, WrapsAgree
  <2>4. Counted(n % SizeLimit, 1) = (n + 1) % SizeLimit
    BY <2>1, WrapsAgree
  <2>5. Counted(parsed, emitted + 1) = (n + 1) % SizeLimit
    BY <2>1, <2>2, <2>3, <2>4 DEF Counted
  <2>6. QED
    BY <2>5 DEF n
<1>2. Counted(a, 1) \in Nat /\ Counted(w, 1) \in Nat
  BY WrappedIsNat DEF Counted
<1>3. (Counted(a, 1) + w) % SizeLimit = (a + w + 1) % SizeLimit
  <2>1. Counted((a + 1) % SizeLimit, w) = (a + 1 + w) % SizeLimit
    BY WrapsAgree
  <2>2. a + 1 + w = a + w + 1
    OBVIOUS
  <2>3. QED
    BY <2>1, <2>2 DEF Counted
<1>4. (a + Counted(w, 1)) % SizeLimit = (a + w + 1) % SizeLimit
  <2>1. Counted((w + 1) % SizeLimit, a) = (w + 1 + a) % SizeLimit
    BY WrapsAgree
  <2>2. w + 1 + a = a + w + 1 /\ a + Counted(w, 1) = Counted(w, 1) + a
    BY <1>2
  <2>3. QED
    BY <2>1, <2>2 DEF Counted
<1>5. QED
  BY <1>1, <1>2, <1>3, <1>4

\* Each applied event moves one counter, each finished message the total.
LEMMA CountsInvHolds == Spec => []CountsInv
<1>1. Init => CountsInv
  BY CountersAssumption DEF Init, CountsInv
<1>2. CountsInv /\ [Next]_vars => CountsInv'
  <2> SUFFICES ASSUME CountsInv, [Next]_vars PROVE CountsInv'
    OBVIOUS
  <2> USE DEF routing, flags, inputs, current, stats, files
  <2>1. CASE CreateSource \/ CreateSourceThrows \/ AskSource \/ LoopEnds \/ DropMessage
             \/ ApplyThrows
    BY <2>1 DEF CountsInv, CreateSource, CreateSourceThrows, AskSource, LoopEnds, DropMessage,
       ApplyThrows
  <2>2. CASE AcceptMessage
    <3>1. Counted(parsed_events_total, 0) = parsed_events_total
      <4>1. /\ pc = "received" /\ announces_applied \in Nat /\ withdraws_applied \in Nat
        BY <2>2 DEF AcceptMessage, CountsInv
      <4>2. parsed_events_total = (announces_applied + withdraws_applied) % SizeLimit
        BY <4>1 DEF CountsInv
      <4>3. /\ announces_applied + withdraws_applied \in Nat
            /\ announces_applied + withdraws_applied + 0 = announces_applied + withdraws_applied
        BY <4>1
      <4>4. QED
        BY <4>2, <4>3, WrapsAgree
    <3>2. QED
      BY <2>2, <3>1 DEF CountsInv, AcceptMessage
  <2>3. CASE ApplyAnnounce
    <3>1. /\ Counted(parsed_events_total, emitted_events + 1)
                 = (Counted(announces_applied, 1) + withdraws_applied) % SizeLimit
          /\ Counted(announces_applied, 1) \in Nat
      BY <2>3, CountsGoUp DEF CountsInv, ApplyAnnounce, Emitted
    <3>2. QED
      BY <2>3, <3>1 DEF CountsInv, ApplyAnnounce, Emitted
  <2>4. CASE ApplyWithdraw
    <3>1. /\ Counted(parsed_events_total, emitted_events + 1)
                 = (announces_applied + Counted(withdraws_applied, 1)) % SizeLimit
          /\ Counted(withdraws_applied, 1) \in Nat
      BY <2>4, CountsGoUp DEF CountsInv, ApplyWithdraw, Emitted
    <3>2. QED
      BY <2>4, <3>1 DEF CountsInv, ApplyWithdraw, Emitted
  <2>5. CASE FinishMessage
    <3>1. Counted(parsed_events_total, emitted_events) \in Nat
      BY WrappedIsNat DEF CountsInv, Counted
    <3>2. QED
      BY <2>5, <3>1 DEF CountsInv, FinishMessage
  <2>6. CASE SaveSnapshot \/ SaveThrows \/ ExportTables \/ ExportFails
    BY <2>6 DEF CountsInv, SaveSnapshot, SaveThrows, ExportTables, ExportFails
  <2>7. CASE SourceAnswers
    BY <2>7 DEF CountsInv, SourceAnswers, Deliver, SourceEnds, SourceBarred
  <2>8. CASE Signal \/ Keypress
    BY <2>8 DEF CountsInv, Signal, Keypress
  <2>9. CASE UNCHANGED vars
    BY <2>9 DEF CountsInv, vars
  <2>10. QED
    BY <2>1, <2>2, <2>3, <2>4, <2>5, <2>6, <2>7, <2>8, <2>9 DEF Next, MainStep
<1>3. QED
  BY <1>1, <1>2, PTL DEF Spec

\* Between messages the parsed events are the applied ones, for every width of the
\* counters and however often they have wrapped.
THEOREM EventsAreAccounted == Spec => []EventsAccounted
<1>1. CountsInv => EventsAccounted
  BY DEF CountsInv, EventsAccounted
<1>2. QED
  BY <1>1, CountsInvHolds, PTL

-----------------------------------------------------------------------------
(* The events of a message.                                                *)

\* Of a list the entries of the right kind are left.
LEMMA ReadableElements ==
    ASSUME NEW S, NEW values \in Seq(S \cup {NoValue})
    PROVE  /\ Readable(values) \in Seq(S)
           /\ Range(Readable(values)) = Range(values) \ {NoValue}
<1> DEFINE seqs == [i \in DOMAIN values |->
                       IF values[i] = NoValue THEN << >> ELSE <<values[i]>>]
<1>1. ASSUME NEW i \in DOMAIN values
      PROVE  /\ seqs[i] \in Seq(S)
             /\ Range(seqs[i]) = {values[i]} \ {NoValue}
  <2>1. CASE values[i] = NoValue
    BY <2>1 DEF Range
  <2>2. CASE values[i] # NoValue
    <3>1. values[i] \in S /\ seqs[i] = <<values[i]>>
      BY <2>2
    <3>2. DOMAIN seqs[i] = {1}
      BY <3>1
    <3>3. QED
      BY <3>1, <3>2, <2>2 DEF Range
  <2>3. QED
    BY <2>1, <2>2
<1>2. seqs \in Seq(Seq(S)) /\ DOMAIN seqs = DOMAIN values
  <2>1. Len(values) \in Nat /\ DOMAIN values = 1 .. Len(values)
    OBVIOUS
  <2>2. seqs \in [1 .. Len(values) -> Seq(S)]
    BY <1>1, <2>1
  <2> HIDE DEF seqs
  <2>3. QED
    BY <2>1, <2>2, SeqOfFunction
<1>3. /\ FlattenSeq(seqs) \in Seq(S)
      /\ Range(FlattenSeq(seqs)) = UNION {Range(seqs[i]) : i \in DOMAIN seqs}
  <2> HIDE DEF seqs
  <2>1. QED
    BY <1>2, RangeOfFlatten
<1>4. UNION {Range(seqs[i]) : i \in DOMAIN seqs} = Range(values) \ {NoValue}
  <2>1. \A i \in DOMAIN seqs : Range(seqs[i]) = {values[i]} \ {NoValue}
    BY <1>1, <1>2
  <2>2. Range(values) = {values[i] : i \in DOMAIN seqs}
    BY <1>2 DEF Range
  <2> HIDE DEF seqs
  <2>3. QED
    BY <2>1, <2>2
<1>5. QED
  BY <1>3, <1>4 DEF Readable

\* Of a list of lists likewise, in one sequence.
LEMMA ReadableLists ==
    ASSUME NEW S, NEW lists \in Seq({NoValue} \cup Seq(S \cup {NoValue}))
    PROVE  LET readable == Readable(lists)
               texts == FlattenSeq([i \in DOMAIN readable |-> Readable(readable[i])])
           IN  /\ texts \in Seq(S)
               /\ Range(texts) =
                     UNION {Range(list) \ {NoValue} : list \in Range(lists) \ {NoValue}}
<1> DEFINE T == Seq(S \cup {NoValue})
           readable == Readable(lists)
           seqs == [i \in DOMAIN readable |-> Readable(readable[i])]
<1>1. readable \in Seq(T) /\ Range(readable) = Range(lists) \ {NoValue}
  <2> HIDE DEF T
  <2>1. lists \in Seq(T \cup {NoValue})
    BY DEF T
  <2>2. QED
    BY <2>1, ReadableElements
<1> HIDE DEF readable
<1>2. ASSUME NEW i \in DOMAIN readable
      PROVE  seqs[i] \in Seq(S) /\ Range(seqs[i]) = Range(readable[i]) \ {NoValue}
  <2>1. readable[i] \in Seq(S \cup {NoValue})
    BY <1>1
  <2>2. QED
    BY <2>1, ReadableElements
<1>3. seqs \in Seq(Seq(S)) /\ DOMAIN seqs = DOMAIN readable
  <2>1. Len(readable) \in Nat /\ DOMAIN readable = 1 .. Len(readable)
    BY <1>1
  <2>2. seqs \in [1 .. Len(readable) -> Seq(S)]
    BY <1>2, <2>1
  <2> HIDE DEF seqs
  <2>3. QED
    BY <2>1, <2>2, SeqOfFunction
<1> HIDE DEF seqs
<1>4. /\ FlattenSeq(seqs) \in Seq(S)
      /\ Range(FlattenSeq(seqs)) = UNION {Range(seqs[i]) : i \in DOMAIN seqs}
  BY <1>3, RangeOfFlatten
<1>5. UNION {Range(seqs[i]) : i \in DOMAIN seqs}
         = UNION {Range(list) \ {NoValue} : list \in Range(readable)}
  <2>1. \A i \in DOMAIN seqs : Range(seqs[i]) = Range(readable[i]) \ {NoValue}
    BY <1>2, <1>3
  <2>2. Range(readable) = {readable[i] : i \in DOMAIN seqs}
    BY <1>3 DEF Range
  <2>3. QED
    BY <2>1, <2>2
<1>6. QED
  BY <1>1, <1>4, <1>5 DEF readable, seqs

\* What a message's events are made of.
AnnouncesFor(data) ==
    IF HasOriginAsn(data)
    THEN [type : {"announce"}, peer : {BuildPeerInfo(data)}, prefix : DOMAIN PrefixOf,
          origin_asn : {Uint32(Last(data.path))}, timestamp : {OrZero(data.timestamp)}]
    ELSE {}

WithdrawsFor(data) ==
    [type : {"withdraw"}, peer : {BuildPeerInfo(data)}, prefix : DOMAIN PrefixOf,
     origin_asn : {0}, timestamp : {OrZero(data.timestamp)}]

\* The prefixes that events of a type are about.
PrefixesOf(evts, type) ==
    {PrefixOf[evts[i].prefix] : i \in {j \in DOMAIN evts : evts[j].type = type}}

\* No announce after a withdraw.
InOrder(evts) ==
    \A i, j \in DOMAIN evts :
        i < j /\ evts[i].type = "withdraw" => evts[j].type = "withdraw"

\* The announce events of an update, by prefix.
LEMMA AnnouncesOfUpdate ==
    ASSUME NEW text \in Messages, IsUpdate(text)
    PROVE  LET data == text.data
               announces == AnnounceEvents(data)
           IN  /\ announces \in Seq(AnnouncesFor(data))
               /\ PrefixesOf(announces, "announce") =
                     IF HasOriginAsn(data) THEN Announced(data) ELSE {}
<1> DEFINE data == text.data
           S == DOMAIN PrefixOf
<1>1. CASE ~ (HasOriginAsn(data) /\ data.announcements # NoValue)
  <2>1. AnnounceEvents(data) = << >>
    BY <1>1 DEF AnnounceEvents
  <2>2. << >> \in Seq(AnnouncesFor(data)) /\ PrefixesOf(<< >>, "announce") = {}
    BY DEF PrefixesOf
  <2>3. (IF HasOriginAsn(data) THEN Announced(data) ELSE {}) = {}
    BY <1>1 DEF Announced
  <2>4. QED
    BY <2>1, <2>2, <2>3
<1>2. CASE HasOriginAsn(data) /\ data.announcements # NoValue
  <2> DEFINE readable == Readable(data.announcements)
             texts == FlattenSeq([i \in DOMAIN readable |-> Readable(readable[i])])
             announces == EventsOn(texts, "announce", Uint32(Last(data.path)), data)
  <2>1. data.announcements \in Seq({NoValue} \cup Seq(S \cup {NoValue}))
    BY <1>2, MessagesAssumption DEF PrefixLists
  <2>2. /\ texts \in Seq(S)
        /\ Range(texts) =
              UNION {Range(list) \ {NoValue} : list \in Range(data.announcements) \ {NoValue}}
    <3> HIDE DEF S, data
    <3>1. QED
      BY <2>1, ReadableLists
  <2>3. AnnounceEvents(data) = announces
    BY <1>2 DEF AnnounceEvents
  <2> HIDE DEF texts, readable, data
  <2>4. announces \in Seq(AnnouncesFor(data))
    <3>1. announces \in [1 .. Len(texts) -> AnnouncesFor(data)]
      BY <1>2, <2>2 DEF EventsOn, AnnouncesFor
    <3>2. QED
      BY <2>2, <3>1, SeqOfFunction
  <2>5. PrefixesOf(announces, "announce") = {PrefixOf[t] : t \in Range(texts)}
    <3>1. /\ DOMAIN announces = DOMAIN texts
          /\ \A i \in DOMAIN texts : announces[i].type = "announce" /\ announces[i].prefix = texts[i]
      BY DEF EventsOn
    <3>2. PrefixesOf(announces, "announce") = {PrefixOf[texts[i]] : i \in DOMAIN texts}
      BY <3>1 DEF PrefixesOf
    <3>3. QED
      BY <3>2 DEF Range
  <2>6. {PrefixOf[t] : t \in Range(texts)} = Announced(data)
    BY <1>2, <2>2 DEF Announced, PrefixesIn
  <2>7. QED
    BY <1>2, <2>3, <2>4, <2>5, <2>6 DEF data
<1>3. QED
  BY <1>1, <1>2

\* The withdraw events of an update, by prefix.
LEMMA WithdrawsOfUpdate ==
    ASSUME NEW text \in Messages, IsUpdate(text)
    PROVE  LET data == text.data
               withdraws == WithdrawEvents(data)
           IN  /\ withdraws \in Seq(WithdrawsFor(data))
               /\ PrefixesOf(withdraws, "withdraw") = Withdrawn(data)
<1> DEFINE data == text.data
           S == DOMAIN PrefixOf
<1>1. CASE data.withdrawals = NoValue
  <2>1. WithdrawEvents(data) = << >>
    BY <1>1 DEF WithdrawEvents
  <2>2. << >> \in Seq(WithdrawsFor(data)) /\ PrefixesOf(<< >>, "withdraw") = {}
    BY DEF PrefixesOf
  <2>3. Withdrawn(data) = {}
    BY <1>1 DEF Withdrawn
  <2>4. QED
    BY <2>1, <2>2, <2>3
<1>2. CASE data.withdrawals # NoValue
  <2> DEFINE texts == Readable(data.withdrawals)
             withdraws == EventsOn(texts, "withdraw", 0, data)
  <2>1. data.withdrawals \in Seq(S \cup {NoValue})
    BY <1>2, MessagesAssumption DEF PrefixLists
  <2>2. texts \in Seq(S) /\ Range(texts) = Range(data.withdrawals) \ {NoValue}
    <3> HIDE DEF S, data
    <3>1. QED
      BY <2>1, ReadableElements
  <2>3. WithdrawEvents(data) = withdraws
    BY <1>2 DEF WithdrawEvents
  <2> HIDE DEF texts, data
  <2>4. withdraws \in Seq(WithdrawsFor(data))
    <3>1. withdraws \in [1 .. Len(texts) -> WithdrawsFor(data)]
      BY <2>2 DEF EventsOn, WithdrawsFor
    <3>2. QED
      BY <2>2, <3>1, SeqOfFunction
  <2>5. PrefixesOf(withdraws, "withdraw") = {PrefixOf[t] : t \in Range(texts)}
    <3>1. /\ DOMAIN withdraws = DOMAIN texts
          /\ \A i \in DOMAIN texts : withdraws[i].type = "withdraw" /\ withdraws[i].prefix = texts[i]
      BY DEF EventsOn
    <3>2. PrefixesOf(withdraws, "withdraw") = {PrefixOf[texts[i]] : i \in DOMAIN texts}
      BY <3>1 DEF PrefixesOf
    <3>3. QED
      BY <3>2 DEF Range
  <2>6. {PrefixOf[t] : t \in Range(texts)} = Withdrawn(data)
    BY <1>2, <2>2 DEF Withdrawn, PrefixesIn
  <2>7. QED
    BY <2>3, <2>4, <2>5, <2>6 DEF data
<1>3. QED
  BY <1>1, <1>2

\* A whole message: its announces, then its withdraws.
LEMMA EventsOfUpdate ==
    ASSUME NEW text \in Messages, IsUpdate(text)
    PROVE  LET data == text.data
               evts == EventsOf(text)
           IN  /\ evts \in Seq(AnnouncesFor(data) \cup WithdrawsFor(data))
               /\ InOrder(evts)
               /\ PrefixesOf(evts, "announce") =
                     IF HasOriginAsn(data) THEN Announced(data) ELSE {}
               /\ PrefixesOf(evts, "withdraw") = Withdrawn(data)
<1> DEFINE data == text.data
           a == AnnounceEvents(data)
           w == WithdrawEvents(data)
           evts == a \o w
<1>1. /\ a \in Seq(AnnouncesFor(data))
      /\ PrefixesOf(a, "announce") = IF HasOriginAsn(data) THEN Announced(data) ELSE {}
  BY AnnouncesOfUpdate
<1>2. w \in Seq(WithdrawsFor(data)) /\ PrefixesOf(w, "withdraw") = Withdrawn(data)
  BY WithdrawsOfUpdate
<1>3. EventsOf(text) = evts
  BY DEF EventsOf
<1> HIDE DEF a, w, data
<1>4. \A i \in DOMAIN a : a[i] \in AnnouncesFor(data) /\ a[i].type = "announce"
  <2>1. \A i \in DOMAIN a : a[i] \in AnnouncesFor(data)
    BY <1>1
  <2>2. \A e \in AnnouncesFor(data) : e.type = "announce"
    BY DEF AnnouncesFor
  <2>3. QED
    BY <2>1, <2>2
<1>5. \A i \in DOMAIN w : w[i] \in WithdrawsFor(data) /\ w[i].type = "withdraw"
  <2>1. \A i \in DOMAIN w : w[i] \in WithdrawsFor(data)
    BY <1>2
  <2>2. \A e \in WithdrawsFor(data) : e.type = "withdraw"
    BY DEF WithdrawsFor
  <2>3. QED
    BY <2>1, <2>2
<1> DEFINE S == AnnouncesFor(data) \cup WithdrawsFor(data)
<1>6. a \in Seq(S) /\ w \in Seq(S)
  BY <1>1, <1>2
<1>7. /\ evts \in Seq(S)
      /\ Len(evts) = Len(a) + Len(w)
      /\ \A i \in DOMAIN evts :
            \/ i \in DOMAIN a /\ evts[i] = a[i]
            \/ i > Len(a) /\ i - Len(a) \in DOMAIN w /\ evts[i] = w[i - Len(a)]
      /\ \A i \in DOMAIN a : i \in DOMAIN evts /\ evts[i] = a[i]
      /\ \A i \in DOMAIN w : Len(a) + i \in DOMAIN evts /\ evts[Len(a) + i] = w[i]
  <2> HIDE DEF S
  <2>1. QED
    BY <1>6
<1> HIDE DEF evts
<1>8. InOrder(evts)
  <2> SUFFICES ASSUME NEW i \in DOMAIN evts, NEW j \in DOMAIN evts, i < j,
                      evts[i].type = "withdraw"
               PROVE  evts[j].type = "withdraw"
    BY DEF InOrder
  <2>1. i > Len(a)
    BY <1>4, <1>7
  <2>2. j > Len(a) /\ Len(a) \in Nat /\ DOMAIN a = 1 .. Len(a)
    BY <1>6, <1>7, <2>1
  <2>3. j - Len(a) \in DOMAIN w /\ evts[j] = w[j - Len(a)]
    BY <1>7, <2>2
  <2>4. QED
    BY <1>5, <2>3
<1>9. PrefixesOf(evts, "announce") = PrefixesOf(a, "announce")
  <2>1. \A i \in DOMAIN evts : evts[i].type = "announce" => i \in DOMAIN a /\ evts[i] = a[i]
    BY <1>5, <1>7
  <2>2. {i \in DOMAIN evts : evts[i].type = "announce"} = {i \in DOMAIN a : a[i].type = "announce"}
    BY <1>7, <2>1
  <2>3. QED
    BY <2>1, <2>2 DEF PrefixesOf
<1>10. PrefixesOf(evts, "withdraw") = PrefixesOf(w, "withdraw")
  <2>1. ASSUME NEW i \in DOMAIN evts, evts[i].type = "withdraw"
        PROVE  \E j \in DOMAIN w : w[j] = evts[i]
    BY <1>4, <1>7, <2>1
  <2>2. ASSUME NEW j \in DOMAIN w
        PROVE  \E i \in DOMAIN evts : evts[i] = w[j] /\ evts[i].type = "withdraw"
    BY <1>5, <1>7
  <2>3. PrefixesOf(evts, "withdraw") \subseteq PrefixesOf(w, "withdraw")
    BY <2>1 DEF PrefixesOf
  <2>4. PrefixesOf(w, "withdraw") \subseteq PrefixesOf(evts, "withdraw")
    BY <2>2 DEF PrefixesOf
  <2>5. QED
    BY <2>3, <2>4
<1>11. QED
  BY <1>1, <1>2, <1>3, <1>7, <1>8, <1>9, <1>10 DEF data

\* The first event, and the others.
LEMMA PrefixesOfTail ==
    ASSUME NEW S, NEW evts \in Seq(S), evts # << >>, NEW type
    PROVE  PrefixesOf(evts, type) =
              PrefixesOf(Tail(evts), type)
                  \cup (IF Head(evts).type = type THEN {PrefixOf[Head(evts).prefix]} ELSE {})
<1> DEFINE rest == Tail(evts)
<1>1. /\ Len(evts) \in Nat \ {0} /\ DOMAIN evts = 1 .. Len(evts)
      /\ rest \in Seq(S) /\ DOMAIN rest = 1 .. Len(evts) - 1
      /\ \A i \in DOMAIN rest : i + 1 \in DOMAIN evts /\ rest[i] = evts[i + 1]
      /\ \A i \in DOMAIN evts : i = 1 \/ (i - 1 \in DOMAIN rest /\ rest[i - 1] = evts[i])
      /\ Head(evts) = evts[1] /\ 1 \in DOMAIN evts
  OBVIOUS
<1> HIDE DEF rest
<1>2. PrefixesOf(rest, type) \subseteq PrefixesOf(evts, type)
  BY <1>1 DEF PrefixesOf
<1>3. Head(evts).type = type => PrefixOf[Head(evts).prefix] \in PrefixesOf(evts, type)
  BY <1>1 DEF PrefixesOf
<1>4. ASSUME NEW x \in PrefixesOf(evts, type), x \notin PrefixesOf(rest, type)
      PROVE  Head(evts).type = type /\ x = PrefixOf[Head(evts).prefix]
  <2>1. PICK i \in DOMAIN evts : evts[i].type = type /\ x = PrefixOf[evts[i].prefix]
    BY DEF PrefixesOf
  <2>2. i = 1
    BY <1>1, <1>4, <2>1 DEF PrefixesOf
  <2>3. QED
    BY <1>1, <2>1, <2>2
<1>5. QED
  BY <1>2, <1>3, <1>4 DEF rest

-----------------------------------------------------------------------------
(* A message is applied whole.                                             *)

AnnouncedRoute(data) ==
    [origin_asn |-> Uint32(Last(data.path)), timestamp |-> OrZero(data.timestamp)]

TableType == [Prefix -> [Peer -> Table!Route \cup {NoRoute}]]

\* The table when the given events have been applied as well.
Completed(tab, evts, data) ==
    [prefix \in Prefix |-> [peer \in Peer |->
        IF peer # BuildPeerInfo(data)
        THEN tab[prefix][peer]
        ELSE IF prefix \in PrefixesOf(evts, "withdraw")
        THEN NoRoute
        ELSE IF prefix \in PrefixesOf(evts, "announce")
        THEN AnnouncedRoute(data)
        ELSE tab[prefix][peer]]]

\* However far a message is applied, applying the rest of its events gives the
\* table with the whole message applied.
ApplyingInv ==
    /\ table \in TableType /\ boundary \in TableType
    /\ pc \in {"received", "applying"} => message \in Messages
    /\ pc \notin {"applying", "exited"} => boundary = table
    /\ pc = "applying" /\ ~IsUpdate(message) => events = << >> /\ table = boundary
    /\ pc = "applying" /\ IsUpdate(message) =>
          LET data == message.data
          IN  /\ events \in Seq(AnnouncesFor(data) \cup WithdrawsFor(data))
              /\ InOrder(events)
              /\ Completed(table, events, data) = EffectOfUpdate(boundary, data)

\* Working off an announce, the first of the events left, changes nothing of what the
\* message will have done when all of them are worked off.
LEMMA AnnounceCompletes ==
    ASSUME NEW tab \in TableType, NEW data, NEW evts, evts # << >>,
           evts \in Seq(AnnouncesFor(data) \cup WithdrawsFor(data)),
           Head(evts).type = "announce",
           PrefixOf[Head(evts).prefix] \in Prefix, BuildPeerInfo(data) \in Peer
    PROVE  LET event == Head(evts)
           IN  Completed([tab EXCEPT ![PrefixOf[event.prefix]][event.peer] =
                             [origin_asn |-> event.origin_asn, timestamp |-> event.timestamp]],
                         Tail(evts), data)
                   = Completed(tab, evts, data)
<1> DEFINE S == AnnouncesFor(data) \cup WithdrawsFor(data)
           event == Head(evts)
           p == PrefixOf[event.prefix]
           us == BuildPeerInfo(data)
           route == AnnouncedRoute(data)
           new == [tab EXCEPT ![p][event.peer] =
                      [origin_asn |-> event.origin_asn, timestamp |-> event.timestamp]]
<1>1. event \in S
  OBVIOUS
<1>2. /\ event.peer = us
      /\ [origin_asn |-> event.origin_asn, timestamp |-> event.timestamp] = route
  <2>1. event \notin WithdrawsFor(data)
    BY DEF WithdrawsFor
  <2>2. event \in AnnouncesFor(data) /\ HasOriginAsn(data)
    BY <1>1, <2>1 DEF AnnouncesFor
  <2>3. QED
    BY <2>2 DEF AnnouncesFor, AnnouncedRoute
<1>3. /\ PrefixesOf(evts, "withdraw") = PrefixesOf(Tail(evts), "withdraw")
      /\ PrefixesOf(evts, "announce") = PrefixesOf(Tail(evts), "announce") \cup {p}
  <2> HIDE DEF S
  <2>1. evts \in Seq(S)
    BY DEF S
  <2>2. \A type : PrefixesOf(evts, type) =
            PrefixesOf(Tail(evts), type) \cup (IF event.type = type THEN {p} ELSE {})
    BY <2>1, PrefixesOfTail
  <2>3. "announce" # "withdraw"
    OBVIOUS
  <2>4. QED
    BY <2>2, <2>3
<1> HIDE DEF event, p, us, route
<1>4. ASSUME NEW prefix \in Prefix, NEW peer \in Peer
      PROVE  new[prefix][peer] = IF prefix = p /\ peer = us THEN route ELSE tab[prefix][peer]
  BY <1>2 DEF TableType
<1> HIDE DEF new
<1>5. ASSUME NEW prefix \in Prefix, NEW peer \in Peer
      PROVE  Completed(new, Tail(evts), data)[prefix][peer] = Completed(tab, evts, data)[prefix][peer]
  BY <1>3, <1>4 DEF Completed, us, route
<1>6. Completed(new, Tail(evts), data) = Completed(tab, evts, data)
  BY <1>5 DEF Completed
<1>7. QED
  BY <1>6 DEF new, event, p

\* Nor does working off a withdraw.
LEMMA WithdrawCompletes ==
    ASSUME NEW tab \in TableType, NEW data, NEW evts, evts # << >>,
           evts \in Seq(AnnouncesFor(data) \cup WithdrawsFor(data)), InOrder(evts),
           Head(evts).type = "withdraw",
           PrefixOf[Head(evts).prefix] \in Prefix, BuildPeerInfo(data) \in Peer
    PROVE  LET event == Head(evts)
           IN  Completed([tab EXCEPT ![PrefixOf[event.prefix]][event.peer] = NoRoute],
                         Tail(evts), data)
                   = Completed(tab, evts, data)
<1> DEFINE S == AnnouncesFor(data) \cup WithdrawsFor(data)
           event == Head(evts)
           p == PrefixOf[event.prefix]
           us == BuildPeerInfo(data)
           new == [tab EXCEPT ![p][event.peer] = NoRoute]
<1>1. event.peer = us
  <2>1. event \in S
    OBVIOUS
  <2>2. QED
    BY <2>1 DEF AnnouncesFor, WithdrawsFor
<1>2. /\ PrefixesOf(evts, "withdraw") = PrefixesOf(Tail(evts), "withdraw") \cup {p}
      /\ PrefixesOf(Tail(evts), "announce") = {} /\ PrefixesOf(evts, "announce") = {}
  <2>1. PrefixesOf(evts, "announce") = {}
    <3>1. \A i \in DOMAIN evts : evts[i].type = "withdraw"
      <4>1. 1 \in DOMAIN evts /\ evts[1].type = "withdraw"
            /\ \A i \in DOMAIN evts : i = 1 \/ 1 < i
        OBVIOUS
      <4>2. QED
        BY <4>1 DEF InOrder
    <3>2. "announce" # "withdraw"
      OBVIOUS
    <3>3. QED
      BY <3>1, <3>2 DEF PrefixesOf
  <2> HIDE DEF S
  <2>2. evts \in Seq(S)
    BY DEF S
  <2>3. \A type : PrefixesOf(evts, type) =
            PrefixesOf(Tail(evts), type) \cup (IF event.type = type THEN {p} ELSE {})
    BY <2>2, PrefixesOfTail
  <2>4. QED
    BY <2>1, <2>3
<1> HIDE DEF event, p, us
<1>3. ASSUME NEW prefix \in Prefix, NEW peer \in Peer
      PROVE  new[prefix][peer] = IF prefix = p /\ peer = us THEN NoRoute ELSE tab[prefix][peer]
  BY <1>1 DEF TableType
<1> HIDE DEF new
<1>4. ASSUME NEW prefix \in Prefix, NEW peer \in Peer
      PROVE  Completed(new, Tail(evts), data)[prefix][peer] = Completed(tab, evts, data)[prefix][peer]
  BY <1>2, <1>3 DEF Completed, us
<1>5. Completed(new, Tail(evts), data) = Completed(tab, evts, data)
  BY <1>4 DEF Completed
<1>6. QED
  BY <1>5 DEF new, event, p

\* What is left is in order as well.
LEMMA OrderOfTail ==
    ASSUME NEW S, NEW evts \in Seq(S), evts # << >>, InOrder(evts)
    PROVE  Tail(evts) \in Seq(S) /\ InOrder(Tail(evts))
<1> DEFINE rest == Tail(evts)
<1>1. /\ rest \in Seq(S)
      /\ \A i \in DOMAIN rest : i \in Nat /\ i + 1 \in DOMAIN evts /\ rest[i] = evts[i + 1]
  OBVIOUS
<1> HIDE DEF rest
<1>2. InOrder(rest)
  <2> SUFFICES ASSUME NEW i \in DOMAIN rest, NEW j \in DOMAIN rest, i < j,
                      rest[i].type = "withdraw"
               PROVE  rest[j].type = "withdraw"
    BY DEF InOrder
  <2>1. i + 1 < j + 1
    BY <1>1
  <2>2. QED
    BY <1>1, <2>1 DEF InOrder
<1>3. QED
  BY <1>1, <1>2 DEF rest

\* With no event left the table is complete.
LEMMA NothingLeft ==
    ASSUME NEW tab \in TableType, NEW data
    PROVE  Completed(tab, << >>, data) = tab
<1>1. PrefixesOf(<< >>, "announce") = {} /\ PrefixesOf(<< >>, "withdraw") = {}
  BY DEF PrefixesOf
<1>2. Completed(tab, << >>, data) = [prefix \in Prefix |-> [peer \in Peer |-> tab[prefix][peer]]]
  BY <1>1 DEF Completed
<1>3. tab = [prefix \in Prefix |-> [peer \in Peer |-> tab[prefix][peer]]]
  BY DEF TableType
<1>4. QED
  BY <1>2, <1>3

\* With all of them left it is the table of the boundary.
LEMMA EverythingLeft ==
    ASSUME NEW tab \in TableType, NEW text \in Messages, IsUpdate(text)
    PROVE  Completed(tab, EventsOf(text), text.data) = EffectOfUpdate(tab, text.data)
<1> DEFINE data == text.data
           evts == EventsOf(text)
<1>1. /\ PrefixesOf(evts, "announce") = IF HasOriginAsn(data) THEN Announced(data) ELSE {}
      /\ PrefixesOf(evts, "withdraw") = Withdrawn(data)
  BY EventsOfUpdate
<1> HIDE DEF data, evts
<1>2. ASSUME NEW prefix \in Prefix, NEW peer \in Peer
      PROVE  Completed(tab, evts, data)[prefix][peer] = EffectOfUpdate(tab, data)[prefix][peer]
  BY <1>1 DEF Completed, EffectOfUpdate, AnnouncedRoute
<1>3. Completed(tab, evts, data) = EffectOfUpdate(tab, data)
  BY <1>2 DEF Completed, EffectOfUpdate
<1>4. QED
  BY <1>3 DEF data, evts

\* The event that is announced is one of the message's.
LEMMA AnnouncedEvent ==
    ASSUME ApplyingInv, ApplyAnnounce
    PROVE  LET event == Head(events)
           IN  /\ message \in Messages /\ IsUpdate(message)
               /\ PrefixOf[event.prefix] \in Prefix
               /\ event.peer = BuildPeerInfo(message.data) /\ event.peer \in Peer
               /\ event.origin_asn \in Asns /\ event.timestamp \in Timestamps
<1> DEFINE data == message.data
           event == Head(events)
<1>1. /\ events # << >> /\ event.type = "announce" /\ PrefixOf[event.prefix] # BadPrefix
      /\ message \in Messages /\ IsUpdate(message)
      /\ events \in Seq(AnnouncesFor(data) \cup WithdrawsFor(data))
  BY DEF ApplyAnnounce, Emitted, ApplyingInv
<1>2. event \in AnnouncesFor(data) \cup WithdrawsFor(data)
  BY <1>1
<1>3. event \in AnnouncesFor(data) /\ HasOriginAsn(data)
  BY <1>1, <1>2 DEF AnnouncesFor, WithdrawsFor
<1>4. /\ BuildPeerInfo(data) \in Peer /\ OrZero(data.timestamp) \in Timestamps
      /\ Uint32(Last(data.path)) \in Asns
  BY <1>1, <1>3, MessagesAssumption
<1>5. PrefixOf[event.prefix] \in Prefix \cup {BadPrefix}
  BY <1>3, PrefixesAssumption DEF AnnouncesFor
<1>6. QED
  BY <1>1, <1>3, <1>4, <1>5 DEF AnnouncesFor

\* And so is the one that is withdrawn.
LEMMA WithdrawnEvent ==
    ASSUME ApplyingInv, ApplyWithdraw
    PROVE  LET event == Head(events)
           IN  /\ message \in Messages /\ IsUpdate(message)
               /\ PrefixOf[event.prefix] \in Prefix
               /\ event.peer = BuildPeerInfo(message.data) /\ event.peer \in Peer
<1> DEFINE data == message.data
           event == Head(events)
<1>1. /\ events # << >> /\ event.type = "withdraw" /\ PrefixOf[event.prefix] # BadPrefix
      /\ message \in Messages /\ IsUpdate(message)
      /\ events \in Seq(AnnouncesFor(data) \cup WithdrawsFor(data))
  BY DEF ApplyWithdraw, Emitted, ApplyingInv
<1>2. event \in AnnouncesFor(data) \cup WithdrawsFor(data)
  BY <1>1
<1>3. event \in WithdrawsFor(data)
  BY <1>1, <1>2 DEF AnnouncesFor, WithdrawsFor
<1>4. PrefixOf[event.prefix] \in Prefix \cup {BadPrefix}
  BY <1>3, PrefixesAssumption DEF WithdrawsFor
<1>5. QED
  BY <1>1, <1>3, <1>4, MessagesAssumption DEF WithdrawsFor

\* An announce keeps the table between the boundary and the whole effect.
LEMMA AnnounceKeepsApplying ==
    ASSUME ApplyingInv, ApplyAnnounce
    PROVE  ApplyingInv'
<1> DEFINE data == message.data
           event == Head(events)
<1>1. /\ pc = "applying" /\ pc' = "applying" /\ message' = message /\ boundary' = boundary
      /\ events # << >> /\ events' = Tail(events) /\ event.type = "announce"
      /\ PrefixOf[event.prefix] # BadPrefix
      /\ table' = [table EXCEPT ![PrefixOf[event.prefix]][event.peer] =
                      [origin_asn |-> event.origin_asn, timestamp |-> event.timestamp]]
  BY DEF ApplyAnnounce, Emitted, Table!Announce
<1>2. /\ message \in Messages /\ IsUpdate(message)
      /\ events \in Seq(AnnouncesFor(data) \cup WithdrawsFor(data))
      /\ InOrder(events)
      /\ Completed(table, events, data) = EffectOfUpdate(boundary, data)
  BY <1>1 DEF ApplyingInv
<1>3. /\ PrefixOf[event.prefix] \in Prefix /\ event.peer = BuildPeerInfo(data)
      /\ event.origin_asn \in Asns /\ event.timestamp \in Timestamps
      /\ BuildPeerInfo(data) \in Peer
  BY AnnouncedEvent
<1>4. [origin_asn |-> event.origin_asn, timestamp |-> event.timestamp] \in Table!Route
  BY <1>3 DEF Table!Route
<1>5. table' \in TableType
  BY <1>1, <1>3, <1>4 DEF ApplyingInv, TableType
<1>6. Completed(table', events', data) = Completed(table, events, data)
  BY <1>1, <1>2, <1>3, AnnounceCompletes DEF ApplyingInv
<1>7. events' \in Seq(AnnouncesFor(data) \cup WithdrawsFor(data)) /\ InOrder(events')
  BY <1>1, <1>2, OrderOfTail
<1>8. QED
  BY <1>1, <1>2, <1>5, <1>6, <1>7 DEF ApplyingInv

\* A withdraw does as well.
LEMMA WithdrawKeepsApplying ==
    ASSUME ApplyingInv, ApplyWithdraw
    PROVE  ApplyingInv'
<1> DEFINE data == message.data
           event == Head(events)
<1>1. /\ pc = "applying" /\ pc' = "applying" /\ message' = message /\ boundary' = boundary
      /\ events # << >> /\ events' = Tail(events) /\ event.type = "withdraw"
      /\ PrefixOf[event.prefix] # BadPrefix
      /\ table' = [table EXCEPT ![PrefixOf[event.prefix]][event.peer] = NoRoute]
  BY DEF ApplyWithdraw, Emitted, Table!Withdraw
<1>2. /\ message \in Messages /\ IsUpdate(message)
      /\ events \in Seq(AnnouncesFor(data) \cup WithdrawsFor(data))
      /\ InOrder(events)
      /\ Completed(table, events, data) = EffectOfUpdate(boundary, data)
  BY <1>1 DEF ApplyingInv
<1>3. /\ PrefixOf[event.prefix] \in Prefix /\ event.peer = BuildPeerInfo(data)
      /\ BuildPeerInfo(data) \in Peer
  BY WithdrawnEvent
<1>4. table' \in TableType
  BY <1>1, <1>3 DEF ApplyingInv, TableType
<1>5. Completed(table', events', data) = Completed(table, events, data)
  BY <1>1, <1>2, <1>3, WithdrawCompletes DEF ApplyingInv
<1>6. events' \in Seq(AnnouncesFor(data) \cup WithdrawsFor(data)) /\ InOrder(events')
  BY <1>1, <1>2, OrderOfTail
<1>7. QED
  BY <1>1, <1>2, <1>4, <1>5, <1>6 DEF ApplyingInv

\* Half way through a message the table has the effect of the events worked off.
LEMMA ApplyingInvHolds == Spec => []ApplyingInv
<1>1. Init => ApplyingInv
  BY TablesAssumption DEF Init, ApplyingInv, TableType, Table!Route
<1>2. ApplyingInv /\ [Next]_vars => ApplyingInv'
  <2> SUFFICES ASSUME ApplyingInv, [Next]_vars PROVE ApplyingInv'
    OBVIOUS
  <2> USE DEF routing, flags, inputs, current, stats, files
  <2>1. CASE CreateSource \/ CreateSourceThrows \/ AskSource \/ LoopEnds \/ DropMessage
             \/ ApplyThrows
    BY <2>1 DEF ApplyingInv, CreateSource, CreateSourceThrows, AskSource, LoopEnds, DropMessage,
       ApplyThrows
  <2>2. CASE AcceptMessage
    <3>1. /\ pc' = "applying" /\ message' = message /\ message \in Messages
          /\ table' = table /\ boundary' = boundary /\ table = boundary
          /\ events' = EventsOf(message) /\ table \in TableType
      BY <2>2 DEF ApplyingInv, AcceptMessage
    <3>2. CASE IsUpdate(message)
      BY <3>1, <3>2, EventsOfUpdate, EverythingLeft DEF ApplyingInv
    <3>3. CASE ~IsUpdate(message)
      BY <3>1, <3>3 DEF ApplyingInv, EventsOf
    <3>4. QED
      BY <3>2, <3>3
  <2>3. CASE ApplyAnnounce
    BY <2>3, AnnounceKeepsApplying
  <2>4. CASE ApplyWithdraw
    BY <2>4, WithdrawKeepsApplying
  <2>5. CASE FinishMessage
    BY <2>5 DEF ApplyingInv, FinishMessage
  <2>6. CASE SaveSnapshot \/ SaveThrows \/ ExportTables \/ ExportFails
    BY <2>6 DEF ApplyingInv, SaveSnapshot, SaveThrows, ExportTables, ExportFails
  <2>7. CASE SourceAnswers
    BY <2>7 DEF ApplyingInv, SourceAnswers, Deliver, SourceEnds, SourceBarred
  <2>8. CASE Signal \/ Keypress
    BY <2>8 DEF ApplyingInv, Signal, Keypress
  <2>9. CASE UNCHANGED vars
    BY <2>9 DEF ApplyingInv, vars
  <2>10. QED
    BY <2>1, <2>2, <2>3, <2>4, <2>5, <2>6, <2>7, <2>8, <2>9 DEF Next, MainStep
<1>3. QED
  BY <1>1, <1>2, PTL DEF Spec

\* When its last event is applied, a message has had the effect of the one update it
\* stands for, whatever its lists hold and however its prefixes repeat.
THEOREM MessagesAreAppliedWhole == Spec => []MessageAppliedWhole
<1>1. ApplyingInv => MessageAppliedWhole
  <2> SUFFICES ASSUME ApplyingInv, pc = "applying", events = << >>
               PROVE  table = Effect(boundary, message)
    BY DEF MessageAppliedWhole
  <2>1. CASE IsUpdate(message)
    BY <2>1, NothingLeft DEF ApplyingInv, Effect
  <2>2. CASE ~IsUpdate(message)
    BY <2>2 DEF ApplyingInv, Effect
  <2>3. QED
    BY <2>1, <2>2
<1>2. QED
  BY <1>1, ApplyingInvHolds, PTL

-----------------------------------------------------------------------------
(* The loop with the tracker.                                              *)

\* A step with the tracker is one of the loop, or a stutter of it.
LEMMA GrowthStepIsStep == [GrowthNext]_growthVars => [Next]_vars
<1> SUFFICES ASSUME [GrowthNext]_growthVars PROVE [Next]_vars
  OBVIOUS
<1>1. CASE OpenStats \/ TakeSample \/ NoSample \/ Report \/ Tick
  BY <1>1 DEF OpenStats, TakeSample, NoSample, Report, Tick
<1>2. CASE OpenStatsThrows
  BY <1>2 DEF OpenStatsThrows, Next, MainStep, CreateSourceThrows
<1>3. CASE Loop \/ Save \/ Asynchronous
  BY <1>3 DEF Loop, Save, Asynchronous, Next, MainStep
<1>4. CASE MessageAccepted \/ AnnounceTracked \/ WithdrawTracked \/ MessageCounted
  BY <1>4 DEF MessageAccepted, AnnounceTracked, WithdrawTracked, MessageCounted, Next, MainStep
<1>5. CASE UNCHANGED growthVars
  BY <1>5 DEF growthVars
<1>6. QED
  BY <1>1, <1>2, <1>3, <1>4, <1>5 DEF GrowthNext, GrowthMainStep

\* Keeping the statistics does not change what the loop does: whatever is proved of
\* the loop alone holds with the tracker.
THEOREM TrackerOnlyWatches == GrowthSpec => Spec
<1>1. GrowthInit => Init
  BY DEF GrowthInit
<1>2. QED
  BY <1>1, GrowthStepIsStep, PTL DEF GrowthSpec, Spec

LoopInv == FilesInv /\ CountsInv /\ ApplyingInv

\* The invariants of the loop hold with the tracker.
LEMMA LoopInvHolds == GrowthSpec => []LoopInv
BY TrackerOnlyWatches, FilesInvHolds, CountsInvHolds, ApplyingInvHolds, PTL DEF LoopInv

\* What main does besides reports and samples.
LEMMA OtherSteps ==
    ASSUME \/ Loop \/ Save \/ Asynchronous \/ OpenStats \/ OpenStatsThrows
           \/ NoSample \/ UNCHANGED growthVars
    PROVE  /\ UNCHANGED <<table, exported, emitted_events, tracker, csv, messages_printed>>
           /\ UNCHANGED <<raw_messages_received, parsed_events_total, announces_applied,
                          withdraws_applied>>
           /\ pc' = "applying" => pc = "applying"
           /\ pc' # "exited" /\ pc = "applying" => pc' = "applying"
           /\ pc = "exited" => pc' = "exited"
           /\ stage' = "sampling" => stage = "sampling" /\ (pc' = pc \/ pc = "waiting")
           /\ stage' = "reported" => stage = "reported"
<1> USE DEF routing, flags, inputs, current, stats, files, tracker, sampling, vars
<1>1. CASE Loop
  BY <1>1 DEF Loop, Untracked, CreateSource, CreateSourceThrows, AskSource, LoopEnds, DropMessage,
     ApplyThrows
<1>2. CASE Save
  BY <1>2 DEF Save, Untracked, SaveSnapshot, SaveThrows, ExportTables, ExportFails
<1>3. CASE Asynchronous
  BY <1>3 DEF Asynchronous, Untracked, SourceAnswers, Deliver, SourceEnds, SourceBarred, Signal,
     Keypress
<1>4. CASE OpenStats \/ OpenStatsThrows \/ NoSample \/ UNCHANGED growthVars
  BY <1>4 DEF OpenStats, OpenStatsThrows, NoSample, growthVars
<1>5. QED
  BY <1>1, <1>2, <1>3, <1>4

\* The tracker has seen what the table holds, and its counters and active prefixes
\* are those of the loop except while a message is worked off.
TrackerInv ==
    /\ seen \in [asns : SUBSET Asns, prefixes : SUBSET Prefix]
    /\ SeenCoversTable
    /\ counters = [raw |-> raw_messages_received, parsed |-> parsed_events_total,
                   announces |-> announces_applied, withdraws |-> withdraws_applied]
    /\ pc # "applying" \/ emitted_events = 0 =>
          pc = "exited" \/ active = Growth!ActiveCounts(ActivePrefixes)
    /\ stage = "sampling" => pc \in {"loop", "stopping"}

\* The tracker starts seeded.
LEMMA TrackerInvInit == GrowthInit => TrackerInv
<1> SUFFICES ASSUME GrowthInit PROVE TrackerInv
  OBVIOUS
<1>1. /\ table \in TableType /\ exported = Table!Export(table) /\ stage = "startup"
      /\ seen = [asns |-> {o.origin_asn : o \in Observations},
                 prefixes |-> {o.prefix : o \in Observations}]
      /\ active = Growth!ActiveCounts({o.prefix : o \in Observations})
      /\ counters = [raw |-> 0, parsed |-> 0, announces |-> 0, withdraws |-> 0]
      /\ raw_messages_received = 0 /\ parsed_events_total = 0
      /\ announces_applied = 0 /\ withdraws_applied = 0
  BY TablesAssumption DEF GrowthInit, Init, Growth!InitWith, Growth!SeedFromState, TableType,
     Table!Route
<1>2. Observations \in SUBSET [prefix : Prefix, origin_asn : Asns]
  BY <1>1 DEF Observations, TableType, Table!Route
<1>3. ASSUME NEW prefix \in Prefix, NEW peer \in Peer, table[prefix][peer] # NoRoute
      PROVE  [prefix |-> prefix, origin_asn |-> table[prefix][peer].origin_asn] \in Observations
  <2> DEFINE at == <<prefix, peer>>
  <2>1. at \in Prefix \X Peer /\ at[1] = prefix /\ at[2] = peer
    OBVIOUS
  <2> HIDE DEF at
  <2>2. at \in {x \in Prefix \X Peer : table[x[1]][x[2]] # NoRoute}
    BY <1>3, <2>1
  <2>3. QED
    BY <2>1, <2>2 DEF Observations
<1>4. {o.prefix : o \in Observations} = ActivePrefixes
  <2>1. \A o \in Observations : o.prefix \in ActivePrefixes
    BY <1>1 DEF Observations, ActivePrefixes, Table!Export, Table!HasRoute
  <2>2. ASSUME NEW prefix \in ActivePrefixes
        PROVE  \E o \in Observations : o.prefix = prefix
    <3>1. prefix \in Prefix /\ \E peer \in Peer : table[prefix][peer] # NoRoute
      BY <1>1 DEF ActivePrefixes, Table!Export, Table!HasRoute
    <3>2. QED
      BY <1>3, <3>1
  <2>3. QED
    BY <2>1, <2>2
<1>5. seen \in [asns : SUBSET Asns, prefixes : SUBSET Prefix]
  BY <1>1, <1>2
<1>6. SeenCoversTable
  <2> SUFFICES ASSUME NEW prefix \in Prefix, NEW peer \in Peer, table[prefix][peer] # NoRoute
               PROVE  prefix \in seen.prefixes /\ table[prefix][peer].origin_asn \in seen.asns
    BY DEF SeenCoversTable
  <2>1. PICK o \in Observations : o.prefix = prefix /\ o.origin_asn = table[prefix][peer].origin_asn
    BY <1>3
  <2>2. /\ o.prefix \in {x.prefix : x \in Observations}
        /\ o.origin_asn \in {x.origin_asn : x \in Observations}
    OBVIOUS
  <2>3. /\ seen.prefixes = {x.prefix : x \in Observations}
        /\ seen.asns = {x.origin_asn : x \in Observations}
    BY <1>1
  <2>4. QED
    BY <2>1, <2>2, <2>3
<1>7. QED
  BY <1>1, <1>4, <1>5, <1>6 DEF TrackerInv

\* Every step keeps the tracker covering the table.
LEMMA TrackerInvKept == LoopInv /\ TrackerInv /\ [GrowthNext]_growthVars => TrackerInv'
<1> SUFFICES ASSUME LoopInv, TrackerInv, [GrowthNext]_growthVars PROVE TrackerInv'
  OBVIOUS
<1> USE DEF routing, flags, inputs, current, stats, files
<1>1. CASE \/ Loop \/ Save \/ Asynchronous \/ OpenStats \/ OpenStatsThrows
           \/ NoSample \/ UNCHANGED growthVars
  <2>1. /\ UNCHANGED <<table, exported, emitted_events, tracker, csv, messages_printed>>
        /\ UNCHANGED <<raw_messages_received, parsed_events_total, announces_applied,
                       withdraws_applied>>
        /\ pc' # "exited" /\ pc = "applying" => pc' = "applying"
        /\ pc = "exited" => pc' = "exited"
        /\ stage' = "sampling" => stage = "sampling" /\ (pc' = pc \/ pc = "waiting")
    BY <1>1, OtherSteps
  <2>2. QED
    BY <2>1 DEF TrackerInv, SeenCoversTable, ActivePrefixes, tracker
<1>2. CASE TakeSample \/ Report \/ Tick
  BY <1>2 DEF TakeSample, Report, Tick, WriteSample, Growth!SampleNow, Growth!Tick, Growth!tracker,
     Growth!history, tracker, vars, TrackerInv, SeenCoversTable, ActivePrefixes
<1>3. CASE MessageAccepted
  <2>1. counters' = [counters EXCEPT !.raw = Counted(@, 1)]
        /\ UNCHANGED <<seen, active, table, exported, stage>>
        /\ raw_messages_received' = Counted(raw_messages_received, 1)
        /\ UNCHANGED <<parsed_events_total, announces_applied, withdraws_applied>>
        /\ pc = "received" /\ pc' = "applying" /\ emitted_events' = 0
    BY <1>3 DEF MessageAccepted, AcceptMessage, Growth!OnMessageReceived, Growth!Counted, Counted,
       sampling
  <2>2. QED
    BY <2>1 DEF TrackerInv, SeenCoversTable, ActivePrefixes
<1>4. CASE AnnounceTracked
  <2> DEFINE event == Head(events)
             p == PrefixOf[event.prefix]
  <2>1. ApplyAnnounce /\ LoopInv /\ ApplyingInv
    BY <1>4 DEF AnnounceTracked, LoopInv
  <2>2. p \in Prefix /\ event.peer \in Peer /\ event.origin_asn \in Asns
    BY <2>1, AnnouncedEvent
  <2>3. /\ seen' = [asns |-> seen.asns \cup {event.origin_asn}, prefixes |-> seen.prefixes \cup {p}]
        /\ counters' = [counters EXCEPT !.announces = Counted(@, 1)]
        /\ announces_applied' = Counted(announces_applied, 1)
        /\ UNCHANGED <<raw_messages_received, parsed_events_total, withdraws_applied>>
        /\ pc = "applying" /\ pc' = pc /\ stage' = stage /\ stage = "ingest"
        /\ emitted_events' = emitted_events + 1 /\ emitted_events \in Nat
        /\ table' = [table EXCEPT ![p][event.peer] =
                        [origin_asn |-> event.origin_asn, timestamp |-> event.timestamp]]
        /\ table \in TableType
    BY <1>4 DEF AnnounceTracked, ApplyAnnounce, Emitted, Table!Announce, Growth!OnAnnounce,
       Growth!Counted, Counted, sampling, LoopInv, CountsInv, ApplyingInv
  <2> HIDE DEF p, event
  <2>4. seen' \in [asns : SUBSET Asns, prefixes : SUBSET Prefix]
    BY <2>2, <2>3 DEF TrackerInv
  <2>5. SeenCoversTable'
    BY <2>2, <2>3 DEF TrackerInv, SeenCoversTable, TableType
  <2>6. QED
    BY <2>3, <2>4, <2>5 DEF TrackerInv
<1>5. CASE WithdrawTracked
  <2> DEFINE event == Head(events)
             p == PrefixOf[event.prefix]
  <2>1. ApplyWithdraw /\ ApplyingInv
    BY <1>5 DEF WithdrawTracked, LoopInv
  <2>2. p \in Prefix /\ event.peer \in Peer
    BY <2>1, WithdrawnEvent
  <2>3. /\ seen' = [seen EXCEPT !.prefixes = @ \cup {p}]
        /\ counters' = [counters EXCEPT !.withdraws = Counted(@, 1)]
        /\ withdraws_applied' = Counted(withdraws_applied, 1)
        /\ UNCHANGED <<raw_messages_received, parsed_events_total, announces_applied>>
        /\ pc = "applying" /\ pc' = pc /\ stage' = stage /\ stage = "ingest"
        /\ emitted_events' = emitted_events + 1 /\ emitted_events \in Nat
        /\ table' = [table EXCEPT ![p][event.peer] = NoRoute]
        /\ table \in TableType
    BY <1>5 DEF WithdrawTracked, ApplyWithdraw, Emitted, Table!Withdraw, Growth!OnWithdraw,
       Growth!Counted, Counted, sampling, LoopInv, CountsInv, ApplyingInv
  <2> HIDE DEF p, event
  <2>4. seen' \in [asns : SUBSET Asns, prefixes : SUBSET Prefix]
    BY <2>2, <2>3 DEF TrackerInv
  <2>5. SeenCoversTable'
    BY <2>2, <2>3 DEF TrackerInv, SeenCoversTable, TableType
  <2>6. QED
    BY <2>3, <2>4, <2>5 DEF TrackerInv
<1>6. CASE MessageCounted
  <2>1. /\ counters' = [counters EXCEPT !.parsed = Counted(@, emitted_events)]
        /\ parsed_events_total' = Counted(parsed_events_total, emitted_events)
        /\ UNCHANGED <<raw_messages_received, announces_applied, withdraws_applied>>
        /\ active' = IF emitted_events = 0 THEN active ELSE Growth!ActiveCounts(ActivePrefixes)
        /\ UNCHANGED <<seen, table, exported, emitted_events>>
        /\ pc = "applying" /\ pc' \in {"loop", "stopping"}
    BY <1>6 DEF MessageCounted, FinishMessage, Growth!OnMessageDone, Growth!Counted, Counted
  <2>2. QED
    BY <2>1 DEF TrackerInv, SeenCoversTable, ActivePrefixes
<1>7. QED
  BY <1>1, <1>2, <1>3, <1>4, <1>5, <1>6 DEF GrowthNext, GrowthMainStep

\* The tracker covers the table at every moment.
LEMMA TrackerInvHolds == GrowthSpec => [](LoopInv /\ TrackerInv)
BY LoopInvHolds, TrackerInvInit, TrackerInvKept, PTL DEF GrowthSpec

\* What was ever seen covers the table, for all tables, messages and interleavings.
THEOREM SeenCovers == GrowthSpec => []SeenCoversTable
<1>1. TrackerInv => SeenCoversTable
  BY DEF TrackerInv
<1>2. QED
  BY <1>1, TrackerInvHolds, PTL

\* csv is a sequence, of whatever lines.
LinesInv == \E Lines : csv \in Seq(Lines)

\* What the next line needs is kept up to date between the lines.
LEMMA LinesInvHolds == GrowthSpec => []LinesInv
<1>1. GrowthInit => LinesInv
  <2> SUFFICES ASSUME GrowthInit PROVE LinesInv
    OBVIOUS
  <2>1. csv = << >>
    BY DEF GrowthInit
  <2>2. csv \in Seq({})
    BY <2>1
  <2>3. QED
    BY <2>2 DEF LinesInv
<1>2. LinesInv /\ [GrowthNext]_growthVars => LinesInv'
  <2> SUFFICES ASSUME LinesInv, [GrowthNext]_growthVars PROVE LinesInv'
    OBVIOUS
  <2>1. csv' = csv \/ csv' = Append(csv, Growth!Sample)
    <3>1. CASE \/ Loop \/ Save \/ Asynchronous \/ OpenStats \/ OpenStatsThrows
               \/ NoSample \/ UNCHANGED growthVars
      BY <3>1, OtherSteps
    <3>2. CASE TakeSample \/ Report \/ Tick
      BY <3>2 DEF TakeSample, Report, Tick, WriteSample
    <3>3. CASE MessageAccepted \/ AnnounceTracked \/ WithdrawTracked \/ MessageCounted
      BY <3>3 DEF MessageAccepted, AnnounceTracked, WithdrawTracked, MessageCounted, sampling
    <3>4. QED
      BY <3>1, <3>2, <3>3 DEF GrowthNext, GrowthMainStep
  <2>2. PICK Lines : csv \in Seq(Lines)
    BY DEF LinesInv
  <2> DEFINE line == Growth!Sample
  <2> HIDE DEF line
  <2>3. csv' \in Seq(Lines \cup {line})
    <3>1. csv \in Seq(Lines \cup {line})
      BY <2>2
    <3>2. Append(csv, line) \in Seq(Lines \cup {line})
      BY <3>1
    <3>3. QED
      BY <2>1, <3>1, <3>2 DEF line
  <2>4. QED
    BY <2>3 DEF LinesInv
<1>3. QED
  BY <1>1, <1>2, PTL DEF GrowthSpec

\* Every line of the CSV file has the active prefixes and counts of its moment, and
\* the last one what print_stats prints.
THEOREM LinesStayCurrent == GrowthSpec => LinesAreCurrent
<1> DEFINE Current ==
       /\ csv' # csv =>
             /\ Last(csv').active = Growth!ActiveCounts(ActivePrefixes)
             /\ Last(csv').counters =
                   [raw |-> raw_messages_received, parsed |-> parsed_events_total,
                    announces |-> announces_applied, withdraws |-> withdraws_applied]
       /\ stage # "reported" /\ stage' = "reported" /\ stats_output_enabled => csv' # csv
<1>1. LoopInv /\ TrackerInv /\ LinesInv /\ [GrowthNext]_growthVars => [Current]_growthVars
  <2> SUFFICES ASSUME LoopInv, TrackerInv, LinesInv, GrowthNext PROVE Current
    OBVIOUS
  <2>1. CASE \/ Loop \/ Save \/ Asynchronous \/ OpenStats \/ OpenStatsThrows \/ NoSample
    BY <2>1, OtherSteps
  <2>2. CASE MessageAccepted \/ AnnounceTracked \/ WithdrawTracked
    BY <2>2 DEF MessageAccepted, AnnounceTracked, WithdrawTracked, sampling
  <2>3. CASE MessageCounted \/ Tick
    BY <2>3 DEF MessageCounted, Tick
  <2>4. CASE TakeSample \/ Report
    <3>1. CASE csv' = csv /\ ~(stats_output_enabled /\ Report)
      BY <2>4, <3>1 DEF TakeSample
    <3>2. CASE csv' = Append(csv, Growth!Sample)
      <4>1. PICK Lines : csv \in Seq(Lines)
        BY DEF LinesInv
      <4> DEFINE line == Growth!Sample
      <4>2. pc # "applying" /\ pc # "exited"
        BY <2>4 DEF TakeSample, Report, TrackerInv
      <4>3. /\ line.active = active /\ line.counters = counters
            /\ active = Growth!ActiveCounts(ActivePrefixes)
        BY <4>2 DEF Growth!Sample, TrackerInv
      <4> HIDE DEF line
      <4>4. csv' # csv /\ Last(csv') = line
        <5>1. csv \in Seq(Lines \cup {line}) /\ csv' = Append(csv, line)
          BY <3>2, <4>1 DEF line
        <5>2. csv' # csv /\ Len(csv') = Len(csv) + 1 /\ csv'[Len(csv) + 1] = line
          BY <5>1
        <5>3. QED
          BY <5>2 DEF Last
      <4>5. QED
        BY <4>3, <4>4 DEF TrackerInv
    <3>3. QED
      BY <2>4, <3>1, <3>2 DEF TakeSample, Report, WriteSample
  <2>5. QED
    BY <2>1, <2>2, <2>3, <2>4 DEF GrowthNext, GrowthMainStep
<1>2. LinesAreCurrent <=> [][Current]_growthVars
  BY DEF LinesAreCurrent
<1> HIDE DEF Current
<1>3. QED
  BY <1>1, <1>2, TrackerInvHolds, LinesInvHolds, PTL DEF GrowthSpec

\* plateau_detected_ and what was printed of it.
ToldInv ==
    /\ plateau = [detected |-> plateau.detected, on_last_sample |-> plateau.on_last_sample,
                  uptime |-> plateau.uptime]
    /\ plateau.detected \in BOOLEAN
    /\ PlateauIsTold

\* The message and the flag of the last sample stay in step.
LEMMA ToldInvHolds == GrowthSpec => []ToldInv
<1>1. GrowthInit => ToldInv
  BY DEF GrowthInit, Growth!InitWith, ToldInv, PlateauIsTold
<1>2. ToldInv /\ [GrowthNext]_growthVars => ToldInv'
  <2> SUFFICES ASSUME ToldInv, [GrowthNext]_growthVars PROVE ToldInv'
    OBVIOUS
  <2>1. ASSUME UNCHANGED <<plateau, messages_printed>> PROVE ToldInv'
    BY <2>1 DEF ToldInv, PlateauIsTold
  <2>2. CASE \/ Loop \/ Save \/ Asynchronous \/ OpenStats \/ OpenStatsThrows
             \/ NoSample \/ UNCHANGED growthVars
    BY <2>1, <2>2, OtherSteps DEF tracker
  <2>3. CASE MessageAccepted \/ AnnounceTracked \/ WithdrawTracked \/ MessageCounted \/ Tick
    BY <2>1, <2>3 DEF MessageAccepted, AnnounceTracked, WithdrawTracked, MessageCounted, Tick,
       Growth!OnMessageReceived, Growth!OnAnnounce, Growth!OnWithdraw, Growth!Tick,
       Growth!tracker, sampling
  <2>4. CASE WriteSample
    <3>1. CASE plateau' = [plateau EXCEPT !.on_last_sample = FALSE]
      <4>1. /\ plateau' = [detected |-> plateau.detected, on_last_sample |-> FALSE,
                           uptime |-> plateau.uptime]
            /\ messages_printed' = messages_printed + (IF plateau'.on_last_sample THEN 1 ELSE 0)
        BY <2>4, <3>1 DEF ToldInv, WriteSample
      <4>2. messages_printed' = messages_printed + 0 /\ messages_printed \in {0, 1}
        BY <4>1 DEF ToldInv, PlateauIsTold
      <4>3. QED
        BY <4>1, <4>2 DEF ToldInv, PlateauIsTold
    <3>2. CASE /\ ~plateau.detected
               /\ plateau' = [detected |-> TRUE, on_last_sample |-> TRUE, uptime |-> clock.uptime]
      <4>1. messages_printed' = messages_printed + (IF plateau'.on_last_sample THEN 1 ELSE 0)
        BY <2>4 DEF WriteSample
      <4>2. messages_printed' = 0 + 1 /\ plateau'.detected = TRUE
        BY <3>2, <4>1 DEF ToldInv, PlateauIsTold
      <4>3. QED
        BY <3>2, <4>2 DEF ToldInv, PlateauIsTold
    <3>3. QED
      BY <2>4, <3>1, <3>2 DEF WriteSample, Growth!SampleNow, Growth!Detects
  <2>5. CASE TakeSample \/ Report
    BY <2>1, <2>4, <2>5 DEF TakeSample, Report, tracker
  <2>6. QED
    BY <2>2, <2>3, <2>5 DEF GrowthNext, GrowthMainStep
<1>3. QED
  BY <1>1, <1>2, PTL DEF GrowthSpec

\* The operator is told of a plateau once, with the sample that found it.
THEOREM PlateauIsToldOnce == GrowthSpec => []PlateauIsTold
<1>1. ToldInv => PlateauIsTold
  BY DEF ToldInv
<1>2. QED
  BY <1>1, ToldInvHolds, PTL

\* Any number of events is counted like one that fits the counter.
LEMMA EventsFitCounter ==
    ASSUME NEW parsed \in Nat, NEW emitted \in Nat
    PROVE  \E fitting \in 0 .. SizeLimit :
              /\ Counted(parsed, fitting) = Counted(parsed, emitted)
              /\ fitting = 0 <=> emitted = 0
<1> DEFINE wrapped == emitted % SizeLimit
           fitting == IF emitted = 0 THEN 0 ELSE IF wrapped = 0 THEN SizeLimit ELSE wrapped
<1>1. SizeLimit \in Nat \ {0} /\ wrapped \in 0 .. SizeLimit - 1
  BY CountersAssumption, WrappedIsNat
<1>2. Counted(wrapped, parsed) = (emitted + parsed) % SizeLimit
  BY WrapsAgree
<1>3. emitted + parsed = parsed + emitted /\ wrapped + parsed = parsed + wrapped
  BY <1>1
<1>4. Counted(parsed, wrapped) = Counted(parsed, emitted)
  BY <1>2, <1>3 DEF Counted
<1>5. Counted(parsed, SizeLimit) = Counted(parsed, 0)
  <2>1. SizeLimit % SizeLimit = 0
    BY <1>1
  <2>2. Counted(SizeLimit % SizeLimit, parsed) = (SizeLimit + parsed) % SizeLimit
    BY <1>1, WrapsAgree
  <2>3. 0 + parsed = parsed + 0 /\ SizeLimit + parsed = parsed + SizeLimit
    BY <1>1
  <2>4. QED
    BY <2>1, <2>2, <2>3 DEF Counted
<1> HIDE DEF wrapped
<1>6. fitting \in 0 .. SizeLimit /\ (fitting = 0 <=> emitted = 0)
  BY <1>1
<1>7. Counted(parsed, fitting) = Counted(parsed, emitted)
  BY <1>4, <1>5
<1> HIDE DEF fitting
<1>8. QED
  BY <1>6, <1>7

\* For the tracker the loop is one of the callers GrowthStats allows: it starts from
\* observations, and every step of main is a report, a sample, a tick or none.
THEOREM LoopImplementsGrowthStats == GrowthSpec => ImplementsGrowthStats
<1>1. GrowthInit => Growth!Init
  <2> SUFFICES ASSUME GrowthInit PROVE Growth!Init
    OBVIOUS
  <2>1. table \in TableType
    BY TablesAssumption DEF GrowthInit, Init, TableType, Table!Route
  <2>2. Observations \in SUBSET [prefix : Growth!EitherFamily, origin_asn : Asns]
    BY <2>1, FamiliesAssumption DEF Observations, TableType, Table!Route, Growth!EitherFamily
  <2>3. QED
    BY <2>2 DEF GrowthInit, Growth!Init
<1>2. LoopInv /\ TrackerInv /\ [GrowthNext]_growthVars => [Growth!Next]_(Growth!vars)
  <2> SUFFICES ASSUME LoopInv, TrackerInv, [GrowthNext]_growthVars
               PROVE  Growth!Next \/ UNCHANGED Growth!vars
    OBVIOUS
  <2>1. ASSUME UNCHANGED tracker PROVE UNCHANGED Growth!vars
    BY <2>1 DEF tracker, Growth!vars, Growth!tracker, Growth!history
  <2>2. CASE \/ Loop \/ Save \/ Asynchronous \/ OpenStats \/ OpenStatsThrows
             \/ NoSample \/ UNCHANGED growthVars
    BY <2>1, <2>2, OtherSteps
  <2>3. CASE TakeSample \/ Report
    BY <2>1, <2>3 DEF TakeSample, Report, WriteSample, Growth!Next
  <2>4. CASE Tick
    BY <2>4 DEF Tick, Growth!Next
  <2>5. CASE MessageAccepted
    BY <2>5 DEF MessageAccepted, Growth!Next
  <2>6. CASE AnnounceTracked
    <3>1. ApplyAnnounce /\ ApplyingInv
      BY <2>6 DEF AnnounceTracked, LoopInv
    <3>2. /\ Head(events).origin_asn \in Asns
          /\ PrefixOf[Head(events).prefix] \in Growth!EitherFamily
      BY <3>1, AnnouncedEvent, FamiliesAssumption DEF Growth!EitherFamily
    <3>3. QED
      BY <2>6, <3>2 DEF AnnounceTracked, Growth!Next, Growth!Announced
  <2>7. CASE WithdrawTracked
    <3>1. ApplyWithdraw /\ ApplyingInv
      BY <2>7 DEF WithdrawTracked, LoopInv
    <3>2. PrefixOf[Head(events).prefix] \in Growth!EitherFamily
      BY <3>1, WithdrawnEvent, FamiliesAssumption DEF Growth!EitherFamily
    <3>3. QED
      BY <2>7, <3>2 DEF WithdrawTracked, Growth!Next, Growth!Withdrawn
  <2>8. CASE MessageCounted
    <3>1. ActivePrefixes \in SUBSET seen.prefixes
      BY DEF LoopInv, FilesInv, TrackerInv, ActivePrefixes, SeenCoversTable, Table!Export,
         Table!HasRoute
    <3>2. /\ Growth!OnMessageDone(emitted_events, ActivePrefixes)
          /\ UNCHANGED <<seen, last_sample, window, plateau, clock, found, past>>
      BY <2>8 DEF MessageCounted
    <3>3. counters.parsed \in Nat /\ emitted_events \in Nat
      BY DEF LoopInv, CountsInv, TrackerInv
    <3>4. PICK fitting \in 0 .. SizeLimit :
                  /\ Counted(counters.parsed, fitting) = Counted(counters.parsed, emitted_events)
                  /\ fitting = 0 <=> emitted_events = 0
      BY <3>3, EventsFitCounter
    <3>5. Growth!OnMessageDone(fitting, ActivePrefixes)
      BY <3>2, <3>4 DEF Growth!OnMessageDone, Growth!Counted, Counted
    <3>6. Growth!MessageDone
      BY <3>1, <3>2, <3>5 DEF Growth!MessageDone, Growth!history
    <3>7. QED
      BY <3>6 DEF Growth!Next
  <2>9. QED
    BY <2>2, <2>3, <2>4, <2>5, <2>6, <2>7, <2>8 DEF GrowthNext, GrowthMainStep
<1>3. QED
  BY <1>1, <1>2, TrackerInvHolds, PTL DEF GrowthSpec, ImplementsGrowthStats, Growth!Spec

=============================================================================
