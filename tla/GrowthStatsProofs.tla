--------------------------- MODULE GrowthStatsProofs ---------------------------
(***************************************************************************)
(* The tracker, for all prefixes, settings and intervals: what a sample    *)
(* reports as new is what was found since the last one, the rolling sum is *)
(* the sum of the window, and the plateau is slow growth over it.          *)
(***************************************************************************)
EXTENDS GrowthStats, DataLemmas, FiniteSetTheorems

-----------------------------------------------------------------------------
(* Sums.                                                                   *)

\* What SumOf computes up to the i-th number.
IsSum(f, seq) ==
    f = [i \in 0 .. Len(seq) |-> IF i = 0 THEN 0 ELSE f[i - 1] + seq[i]]

\* The same, number by number.
SumsUp(f, seq) ==
    /\ f \in [0 .. Len(seq) -> Int]
    /\ f[0] = 0
    /\ \A i \in 1 .. Len(seq) : f[i] = f[i - 1] + seq[i]

\* A function that sums a sequence up gives its SumOf.
LEMMA SumsUpIsSum ==
    ASSUME NEW seq \in Seq(Int), NEW f, SumsUp(f, seq)
    PROVE  IsSum(f, seq)
<1> DEFINE n == Len(seq)
<1>1. ASSUME NEW i \in 0 .. n
      PROVE  f[i] = IF i = 0 THEN 0 ELSE f[i - 1] + seq[i]
  <2>1. i = 0 \/ i \in 1 .. n
    OBVIOUS
  <2>2. QED
    BY <2>1 DEF SumsUp
<1>2. f = [i \in 0 .. n |-> f[i]]
  BY DEF SumsUp
<1>3. f = [i \in 0 .. n |-> IF i = 0 THEN 0 ELSE f[i - 1] + seq[i]]
  BY <1>1, <1>2, Zenon
<1>4. QED
  BY <1>3 DEF IsSum

\* The recursive function of SumOf exists for every sequence of integers.
LEMMA SumExists ==
    ASSUME NEW seq \in Seq(Int)
    PROVE  \E f : SumsUp(f, seq)
<1> DEFINE n == Len(seq)
           step == [i \in 1 .. n |-> [x \in Int |-> x + seq[i]]]
<1>1. n \in Nat /\ step \in [1 .. n -> [Int -> Int]] /\ 0 \in Int
  OBVIOUS
<1>2. PICK f : Iterates(f, n, Int, 0, step)
  <2> HIDE DEF n, step
  <2>1. QED
    BY <1>1, IterationExists
<1>3. f \in [0 .. n -> Int] /\ f[0] = 0
  BY <1>2 DEF Iterates
<1>4. ASSUME NEW i \in 1 .. n
      PROVE  f[i] = f[i - 1] + seq[i]
  <2>1. i - 1 \in 0 .. n /\ f[i - 1] \in Int
    BY <1>3
  <2>2. f[i] = step[i][f[i - 1]]
    BY <1>2 DEF Iterates
  <2>3. QED
    BY <2>1, <2>2
<1>5. QED
  BY <1>3, <1>4 DEF SumsUp

\* Any running sums end with SumOf.
LEMMA SumOfIs ==
    ASSUME NEW seq \in Seq(Int), NEW f, SumsUp(f, seq)
    PROVE  SumOf(seq) = f[Len(seq)]
<1> DEFINE n == Len(seq)
           sum == CHOOSE g : IsSum(g, seq)
<1>1. IsSum(sum, seq)
  BY SumsUpIsSum
<1>2. SumOf(seq) = sum[n]
  BY DEF SumOf, IsSum
<1> HIDE DEF sum
<1>3. ASSUME NEW i \in 0 .. n
      PROVE  sum[i] = IF i = 0 THEN 0 ELSE sum[i - 1] + seq[i]
  BY <1>1, Zenon DEF IsSum
<1> DEFINE T == {i \in Nat : i <= n => sum[i] = f[i]}
<1>4. 0 \in T
  BY <1>3 DEF SumsUp
<1>5. ASSUME NEW i \in T \cap Nat PROVE i + 1 \in T
  <2> SUFFICES ASSUME i + 1 <= n PROVE sum[i + 1] = f[i + 1]
    OBVIOUS
  <2>1. sum[i] = f[i] /\ i + 1 \in 1 .. n /\ i + 1 \in 0 .. n /\ i + 1 # 0 /\ i + 1 - 1 = i
    OBVIOUS
  <2>2. f[i + 1] = f[i + 1 - 1] + seq[i + 1]
    BY <2>1 DEF SumsUp
  <2>3. sum[i + 1] = sum[i + 1 - 1] + seq[i + 1]
    BY <1>3, <2>1
  <2>4. QED
    BY <2>1, <2>2, <2>3
<1>6. n \in T
  <2> HIDE DEF T
  <2>1. n \in Nat
    OBVIOUS
  <2>2. QED
    BY <1>4, <1>5, <2>1, SetInduction
<1>7. QED
  BY <1>2, <1>6

\* The sum of integers is one.
LEMMA SumIsInt ==
    ASSUME NEW seq \in Seq(Int)
    PROVE  SumOf(seq) \in Int
<1>1. PICK f : SumsUp(f, seq)
  BY SumExists
<1>2. SumOf(seq) = f[Len(seq)]
  BY <1>1, SumOfIs
<1>3. f[Len(seq)] \in Int
  <2>1. Len(seq) \in 0 .. Len(seq)
    OBVIOUS
  <2>2. QED
    BY <1>1, <2>1 DEF SumsUp
<1>4. QED
  BY <1>2, <1>3

\* An empty window sums to zero.
LEMMA SumOfNothing == SumOf(<< >>) = 0
<1> DEFINE none == << >>
<1>1. none \in Seq(Int) /\ Len(none) = 0
  OBVIOUS
<1> HIDE DEF none
<1>2. PICK f : SumsUp(f, none)
  BY <1>1, SumExists
<1>3. SumOf(none) = 0
  BY <1>1, <1>2, SumOfIs DEF SumsUp
<1>4. QED
  BY <1>3 DEF none

\* A number at the end is added.
LEMMA SumOfAppend ==
    ASSUME NEW seq \in Seq(Int), NEW x \in Int
    PROVE  SumOf(Append(seq, x)) = SumOf(seq) + x
<1> DEFINE n == Len(seq)
           longer == Append(seq, x)
<1>1. PICK f : SumsUp(f, seq)
  BY SumExists
<1>2. /\ longer \in Seq(Int) /\ Len(longer) = n + 1 /\ n \in Nat
      /\ longer[n + 1] = x /\ \A i \in 1 .. n : longer[i] = seq[i]
  OBVIOUS
<1> HIDE DEF longer
<1> DEFINE g == [i \in 0 .. n + 1 |-> IF i = n + 1 THEN f[n] + x ELSE f[i]]
<1>3. SumsUp(g, longer)
  <2>1. f \in [0 .. n -> Int] /\ f[0] = 0 /\ \A i \in 1 .. n : f[i] = f[i - 1] + seq[i]
    BY <1>1 DEF SumsUp
  <2>2. g \in [0 .. n + 1 -> Int] /\ g[0] = 0
    BY <1>2, <2>1, SMTT(20)
  <2>3. ASSUME NEW i \in 1 .. n + 1
        PROVE  g[i] = g[i - 1] + longer[i]
    <3>1. CASE i = n + 1
      <4>1. i - 1 = n /\ n \in 0 .. n + 1 /\ i \in 0 .. n + 1 /\ n # n + 1
        BY <1>2, <3>1
      <4>2. g[i] = f[n] + x /\ g[i - 1] = f[n]
        BY <3>1, <4>1
      <4>3. QED
        BY <1>2, <3>1, <4>2
    <3>2. CASE i # n + 1
      <4>1. i \in 1 .. n /\ i - 1 \in 0 .. n + 1 /\ i - 1 # n + 1
        BY <1>2, <3>2
      <4>2. g[i] = f[i] /\ g[i - 1] = f[i - 1]
        BY <4>1
      <4>3. QED
        BY <1>2, <2>1, <4>1, <4>2
    <3>3. QED
      BY <3>1, <3>2
  <2>4. QED
    BY <1>2, <2>2, <2>3 DEF SumsUp
<1>4. SumOf(longer) = g[n + 1] /\ SumOf(seq) = f[n]
  <2> HIDE DEF g
  <2>1. QED
    BY <1>1, <1>2, <1>3, SumOfIs
<1>5. g[n + 1] = f[n] + x
  BY <1>2
<1>6. QED
  BY <1>4, <1>5 DEF longer

\* The first number taken away is subtracted.
LEMMA SumOfTail ==
    ASSUME NEW seq \in Seq(Int), seq # << >>
    PROVE  SumOf(Tail(seq)) = SumOf(seq) - Head(seq)
<1> DEFINE n == Len(seq) - 1
           rest == Tail(seq)
<1>1. PICK f : SumsUp(f, seq)
  BY SumExists
<1>2. /\ rest \in Seq(Int) /\ Len(rest) = n /\ n \in Nat /\ Len(seq) = n + 1
      /\ Head(seq) = seq[1] /\ seq[1] \in Int
      /\ \A i \in 1 .. n : rest[i] = seq[i + 1]
  OBVIOUS
<1> HIDE DEF rest, n
<1> DEFINE g == [i \in 0 .. n |-> f[i + 1] - seq[1]]
<1>3. /\ f \in [0 .. n + 1 -> Int] /\ f[0] = 0
      /\ \A i \in 1 .. n + 1 : f[i] = f[i - 1] + seq[i]
  BY <1>1, <1>2 DEF SumsUp
<1>4. SumsUp(g, rest)
  <2>1. f[1] = f[0] + seq[1]
    <3>1. 1 \in 1 .. n + 1 /\ 1 - 1 = 0
      BY <1>2
    <3>2. f[1] = f[1 - 1] + seq[1]
      BY <1>3, <3>1
    <3>3. QED
      BY <3>1, <3>2
  <2>2. g \in [0 .. n -> Int] /\ g[0] = 0
    BY <1>2, <1>3, <2>1
  <2>3. ASSUME NEW i \in 1 .. n
        PROVE  g[i] = g[i - 1] + rest[i]
    <3>1. i \in 0 .. n /\ i - 1 \in 0 .. n /\ i + 1 \in 1 .. n + 1 /\ i - 1 + 1 = i /\ i + 1 - 1 = i
      BY <1>2
    <3>2. g[i] = f[i + 1] - seq[1] /\ g[i - 1] = f[i] - seq[1]
      BY <3>1
    <3>3. f[i + 1] = f[i] + seq[i + 1] /\ f[i] \in Int /\ seq[i + 1] \in Int
      <4>1. f[i + 1] = f[i + 1 - 1] + seq[i + 1]
        BY <1>3, <3>1
      <4>2. i \in 0 .. n + 1 /\ i + 1 \in 1 .. Len(seq)
        BY <1>2, <3>1
      <4>3. f[i] \in Int
        BY <1>3, <4>2
      <4>4. seq[i + 1] \in Int
        BY <4>2
      <4>5. QED
        BY <3>1, <4>1, <4>3, <4>4
    <3>4. QED
      BY <1>2, <3>2, <3>3
  <2>4. QED
    BY <1>2, <2>2, <2>3 DEF SumsUp
<1>5. SumOf(rest) = g[n] /\ SumOf(seq) = f[n + 1]
  <2> HIDE DEF g
  <2>1. QED
    BY <1>1, <1>2, <1>4, SumOfIs
<1>6. g[n] = f[n + 1] - seq[1]
  BY <1>2
<1>7. QED
  BY <1>2, <1>5, <1>6 DEF rest

\* A factor common to all numbers comes out.
LEMMA SumOfMultiples ==
    ASSUME NEW seq \in Seq(Int), NEW k \in Int, NEW multiples \in Seq(Int),
           Len(multiples) = Len(seq), \A i \in 1 .. Len(seq) : multiples[i] = k * seq[i]
    PROVE  SumOf(multiples) = k * SumOf(seq)
<1> DEFINE n == Len(seq)
<1>1. PICK f : SumsUp(f, seq)
  BY SumExists
<1> DEFINE g == [i \in 0 .. n |-> k * f[i]]
<1>2. SumsUp(g, multiples)
  <2>1. n \in Nat /\ f \in [0 .. n -> Int] /\ f[0] = 0
        /\ \A i \in 1 .. n : f[i] = f[i - 1] + seq[i]
    BY <1>1 DEF SumsUp
  <2>2. g \in [0 .. n -> Int] /\ g[0] = 0
    BY <2>1
  <2>3. ASSUME NEW i \in 1 .. n
        PROVE  g[i] = g[i - 1] + multiples[i]
    <3>1. i \in 0 .. n /\ i - 1 \in 0 .. n
      BY <2>1
    <3>2. g[i] = k * f[i] /\ g[i - 1] = k * f[i - 1]
      BY <3>1
    <3>3. f[i - 1] \in Int /\ seq[i] \in Int /\ f[i] = f[i - 1] + seq[i]
      <4>1. seq[i] \in Int
        OBVIOUS
      <4>2. QED
        BY <2>1, <3>1, <4>1
    <3>4. k * (f[i - 1] + seq[i]) = k * f[i - 1] + k * seq[i]
      BY <3>3
    <3>5. QED
      BY <3>2, <3>3, <3>4
  <2>4. QED
    BY <2>2, <2>3 DEF SumsUp
<1>3. SumOf(multiples) = g[n] /\ SumOf(seq) = f[n]
  <2> HIDE DEF g
  <2>1. QED
    BY <1>1, <1>2, SumOfIs
<1>4. QED
  BY <1>3

\* So many times the same number.
LEMMA SumOfConstant ==
    ASSUME NEW seq \in Seq(Int), NEW c \in Int, \A i \in 1 .. Len(seq) : seq[i] = c
    PROVE  SumOf(seq) = Len(seq) * c
<1> DEFINE n == Len(seq)
           g == [i \in 0 .. n |-> i * c]
<1>1. SumsUp(g, seq)
  <2>1. g \in [0 .. n -> Int] /\ g[0] = 0
    OBVIOUS
  <2>2. ASSUME NEW i \in 1 .. n
        PROVE  g[i] = g[i - 1] + seq[i]
    <3>1. i \in 0 .. n /\ i - 1 \in 0 .. n /\ seq[i] = c
      OBVIOUS
    <3>2. (i - 1) * c + c = i * c
      OBVIOUS
    <3>3. QED
      BY <3>1, <3>2
  <2>3. QED
    BY <2>1, <2>2 DEF SumsUp
<1>2. SumOf(seq) = g[n]
  <2> HIDE DEF g
  <2>1. QED
    BY <1>1, SumOfIs
<1>3. QED
  BY <1>2

-----------------------------------------------------------------------------
(* What is new.                                                            *)

\* Everything seen was there at the last sample or was found since.
SeenInv ==
    /\ seen \in [asns : SUBSET Asns, prefixes : SUBSET EitherFamily]
    /\ last_sample \in [asns : Nat, prefixes : Nat]
    /\ found \in Nat
    /\ last_sample.prefixes + found = Cardinality(seen.prefixes)
    /\ last_sample.asns <= Cardinality(seen.asns)

\* The ever-seen sets are finite, so that they can be counted.
LEMMA SeenIsFinite ==
    ASSUME NEW asns \in SUBSET Asns, NEW prefixes \in SUBSET EitherFamily
    PROVE  /\ IsFiniteSet(asns) /\ IsFiniteSet(prefixes)
           /\ Cardinality(asns) \in Nat /\ Cardinality(prefixes) \in Nat
<1>1. IsFiniteSet(EitherFamily)
  BY FiniteAssumption, FS_Union DEF EitherFamily
<1>2. IsFiniteSet(asns) /\ IsFiniteSet(prefixes)
  BY <1>1, FiniteAssumption, FS_Subset
<1>3. QED
  BY <1>2, FS_CardinalityType

\* One more prefix seen is one more only if it is new.
LEMMA PrefixesGrow ==
    ASSUME NEW prefixes \in SUBSET EitherFamily, NEW prefix \in EitherFamily
    PROVE  Cardinality(prefixes \cup {prefix}) =
               Cardinality(prefixes) + (IF prefix \in prefixes THEN 0 ELSE 1)
<1>1. IsFiniteSet(prefixes) /\ Cardinality(prefixes) \in Nat
  BY SeenIsFinite
<1>2. CASE prefix \in prefixes
  <2>1. prefixes \cup {prefix} = prefixes
    BY <1>2
  <2>2. QED
    BY <1>1, <1>2, <2>1
<1>3. CASE prefix \notin prefixes
  BY <1>1, <1>3, FS_AddElement
<1>4. QED
  BY <1>2, <1>3

\* The ASNs seen only become more.
LEMMA AsnsGrow ==
    ASSUME NEW asns \in SUBSET Asns, NEW asn \in Asns
    PROVE  /\ Cardinality(asns \cup {asn}) \in Nat
           /\ Cardinality(asns) <= Cardinality(asns \cup {asn})
<1>1. asns \cup {asn} \in SUBSET Asns /\ asns \subseteq asns \cup {asn}
  OBVIOUS
<1>2. IsFiniteSet(asns \cup {asn}) /\ Cardinality(asns \cup {asn}) \in Nat
  BY <1>1, SeenIsFinite
<1>3. QED
  BY <1>1, <1>2, FS_Subset

\* The sets and the counts of the last sample stay in step.
LEMMA SeenInvHolds == Spec => []SeenInv
<1>1. Init => SeenInv
  <2> SUFFICES ASSUME NEW observations \in SUBSET [prefix : EitherFamily, origin_asn : Asns],
                      InitWith(observations)
               PROVE  SeenInv
    BY DEF Init
  <2> DEFINE asns     == {o.origin_asn : o \in observations}
             prefixes == {o.prefix : o \in observations}
  <2>1. asns \in SUBSET Asns /\ prefixes \in SUBSET EitherFamily
    OBVIOUS
  <2>2. /\ seen = [asns |-> asns, prefixes |-> prefixes] /\ found = 0
        /\ last_sample = [asns |-> Cardinality(asns), prefixes |-> Cardinality(prefixes)]
    BY DEF InitWith, SeedFromState
  <2> HIDE DEF asns, prefixes
  <2>3. Cardinality(asns) \in Nat /\ Cardinality(prefixes) \in Nat
    BY <2>1, SeenIsFinite
  <2>4. QED
    BY <2>1, <2>2, <2>3 DEF SeenInv
<1>2. SeenInv /\ [Next]_vars => SeenInv'
  <2> SUFFICES ASSUME SeenInv, [Next]_vars PROVE SeenInv'
    OBVIOUS
  <2>1. CASE OnMessageReceived \/ MessageDone \/ Tick \/ UNCHANGED vars
    BY <2>1 DEF SeenInv, OnMessageReceived, MessageDone, Tick, tracker, history, vars
  <2>2. CASE Announced
    <3>1. PICK asn \in Asns, prefix \in EitherFamily : OnAnnounce(asn, prefix)
      BY <2>2 DEF Announced
    <3>2. /\ seen' = [asns |-> seen.asns \cup {asn}, prefixes |-> seen.prefixes \cup {prefix}]
          /\ found' = found + (IF prefix \in seen.prefixes THEN 0 ELSE 1)
          /\ last_sample' = last_sample
      BY <3>1 DEF OnAnnounce, Discovered
    <3>3. Cardinality(seen.asns) \in Nat /\ Cardinality(seen.prefixes) \in Nat
      BY SeenIsFinite DEF SeenInv
    <3>4. /\ seen'.prefixes = seen.prefixes \cup {prefix} /\ seen'.asns = seen.asns \cup {asn}
          /\ seen.prefixes \in SUBSET EitherFamily /\ seen.asns \in SUBSET Asns
      BY <3>2 DEF SeenInv
    <3>5. /\ Cardinality(seen'.prefixes) =
                Cardinality(seen.prefixes) + (IF prefix \in seen.prefixes THEN 0 ELSE 1)
          /\ Cardinality(seen'.asns) \in Nat
          /\ Cardinality(seen.asns) <= Cardinality(seen'.asns)
      BY <3>4, PrefixesGrow, AsnsGrow
    <3>6. last_sample'.prefixes + found' = Cardinality(seen'.prefixes)
      BY <3>2, <3>3, <3>5 DEF SeenInv
    <3>7. last_sample'.asns <= Cardinality(seen'.asns)
      BY <3>2, <3>3, <3>5 DEF SeenInv
    <3>8. seen' \in [asns : SUBSET Asns, prefixes : SUBSET EitherFamily]
      BY <3>2, <3>4
    <3>9. QED
      BY <3>2, <3>6, <3>7, <3>8 DEF SeenInv
  <2>3. CASE Withdrawn
    <3>1. PICK prefix \in EitherFamily : OnWithdraw(prefix)
      BY <2>3 DEF Withdrawn
    <3>2. /\ seen' = [asns |-> seen.asns, prefixes |-> seen.prefixes \cup {prefix}]
          /\ found' = found + (IF prefix \in seen.prefixes THEN 0 ELSE 1)
          /\ last_sample' = last_sample
      BY <3>1 DEF OnWithdraw, Discovered, SeenInv
    <3>3. Cardinality(seen.prefixes) \in Nat
      BY SeenIsFinite DEF SeenInv
    <3>4. Cardinality(seen.prefixes \cup {prefix}) =
              Cardinality(seen.prefixes) + (IF prefix \in seen.prefixes THEN 0 ELSE 1)
      BY PrefixesGrow DEF SeenInv
    <3>5. QED
      BY <3>2, <3>3, <3>4 DEF SeenInv
  <2>4. CASE SampleNow
    <3>1. /\ last_sample' = [asns |-> Cardinality(seen.asns), prefixes |-> Cardinality(seen.prefixes)]
          /\ found' = 0 /\ seen' = seen
      BY <2>4 DEF SampleNow, TotalAsns, TotalPrefixes
    <3>2. Cardinality(seen.asns) \in Nat /\ Cardinality(seen.prefixes) \in Nat
      BY SeenIsFinite DEF SeenInv
    <3>3. QED
      BY <3>1, <3>2 DEF SeenInv
  <2>5. QED
    BY <2>1, <2>2, <2>3, <2>4 DEF Next
<1>3. QED
  BY <1>1, <1>2, PTL DEF Spec

\* What is reported as new is what was found since the last sample, and no unsigned
\* difference wraps, whatever was loaded and in whatever order it is reported.
THEOREM GrowthIsComplete == Spec => []GrowthAddsUp
<1>1. SeenInv => GrowthAddsUp
  <2> SUFFICES ASSUME SeenInv PROVE GrowthAddsUp
    OBVIOUS
  <2>1. Cardinality(seen.asns) \in Nat /\ Cardinality(seen.prefixes) \in Nat
    BY SeenIsFinite DEF SeenInv
  <2>2. QED
    BY <2>1 DEF SeenInv, GrowthAddsUp, NewPrefixes, NewAsns, TotalPrefixes, TotalAsns
<1>2. QED
  BY <1>1, SeenInvHolds, PTL

-----------------------------------------------------------------------------
(* The window.                                                             *)

PastSample == [found : Nat, interval : 0 .. MaxInterval]

PlateauOn == PlateauEnabled /\ WindowSamples > 0

\* The window has the rates of the past samples, and their sum.
WindowInv ==
    /\ clock \in [uptime : Nat, interval : 0 .. MaxInterval]
    /\ plateau = [detected |-> plateau.detected, on_last_sample |-> plateau.on_last_sample,
                  uptime |-> plateau.uptime]
    /\ past \in Seq(PastSample) /\ Len(past) <= WindowSamples
    /\ window \in [rates : Seq(Nat), sum : Int]
    /\ window.sum = SumOf(window.rates)
    /\ Len(window.rates) = IF PlateauOn THEN Len(past) ELSE 0
    /\ \A i \in 1 .. Len(window.rates) :
          window.rates[i] = Rate(past[i].found, past[i].interval)

\* The rate of a sample is a natural number.
LEMMA RateIsNat ==
    ASSUME NEW count \in Nat, NEW interval \in 0 .. MaxInterval
    PROVE  Rate(count, interval) \in Nat
<1>1. count * RateUnit \in Nat /\ interval \in Nat
  BY RateAssumption
<1>2. QED
  BY <1>1 DEF Rate

\* next is seq with x at the end, and without its first element if it was full.
Pushed(next, seq, x) ==
    /\ Len(next) = IF Len(seq) = WindowSamples THEN Len(seq) ELSE Len(seq) + 1
    /\ \A i \in 1 .. Len(next) :
          next[i] = LET at == IF Len(seq) = WindowSamples THEN i + 1 ELSE i
                    IN  IF at = Len(seq) + 1 THEN x ELSE seq[at]

\* The oldest sample goes when the window is full.
LEMMA PushKeepsSize ==
    ASSUME NEW S, NEW seq \in Seq(S), Len(seq) <= WindowSamples, NEW x \in S
    PROVE  /\ LastSamples(Append(seq, x)) \in Seq(S)
           /\ Len(LastSamples(Append(seq, x))) <= WindowSamples
           /\ Pushed(LastSamples(Append(seq, x)), seq, x)
<1> DEFINE pushed == Append(seq, x)
<1>1. /\ pushed \in Seq(S) /\ Len(pushed) = Len(seq) + 1 /\ pushed # << >>
      /\ \A i \in 1 .. Len(seq) + 1 : pushed[i] = IF i = Len(seq) + 1 THEN x ELSE seq[i]
  OBVIOUS
<1>2. Len(seq) \in Nat /\ WindowSamples \in Nat
  BY SettingsAssumption
<1> HIDE DEF pushed
<1>3. CASE Len(seq) = WindowSamples
  <2>1. LastSamples(pushed) = Tail(pushed)
    BY <1>1, <1>2, <1>3 DEF LastSamples
  <2>2. /\ Tail(pushed) \in Seq(S) /\ Len(Tail(pushed)) = Len(seq)
        /\ \A i \in 1 .. Len(seq) : Tail(pushed)[i] = pushed[i + 1]
    BY <1>1
  <2>3. \A i \in 1 .. Len(seq) : i + 1 \in 1 .. Len(seq) + 1
    BY <1>2
  <2>4. QED
    BY <1>1, <1>2, <1>3, <2>1, <2>2, <2>3 DEF pushed, Pushed
<1>4. CASE Len(seq) # WindowSamples
  <2>1. LastSamples(pushed) = pushed
    BY <1>1, <1>2, <1>4 DEF LastSamples
  <2>2. QED
    BY <1>1, <1>2, <1>4, <2>1 DEF pushed, Pushed
<1>5. QED
  BY <1>3, <1>4

\* PushRate is that, with the sum kept up to date.
LEMMA PushKeepsSum ==
    ASSUME NEW win \in [rates : Seq(Nat), sum : Int], win.sum = SumOf(win.rates),
           Len(win.rates) <= WindowSamples, NEW rate \in Nat
    PROVE  /\ PushRate(win, rate).rates = LastSamples(Append(win.rates, rate))
           /\ PushRate(win, rate) \in [rates : Seq(Nat), sum : Int]
           /\ PushRate(win, rate).sum = SumOf(PushRate(win, rate).rates)
<1> DEFINE pushed == Append(win.rates, rate)
           next == PushRate(win, rate)
<1>1. pushed \in Seq(Nat) /\ pushed \in Seq(Int) /\ pushed # << >> /\ rate \in Int
  <2> DEFINE rates == win.rates
  <2>1. rates \in Seq(Nat) /\ rates \in Seq(Int) /\ rate \in Nat
    OBVIOUS
  <2> HIDE DEF rates
  <2>2. Append(rates, rate) \in Seq(Nat) /\ Append(rates, rate) # << >>
    <3>1. Append(rates, rate) \in Seq(Nat)
      BY <2>1
    <3>2. Len(Append(rates, rate)) = Len(rates) + 1 /\ Len(rates) \in Nat
      BY <2>1
    <3>3. QED
      BY <3>1, <3>2
  <2>3. Append(rates, rate) \in Seq(Int)
    BY <2>1
  <2>4. QED
    BY <2>1, <2>2, <2>3 DEF rates
<1>2. SumOf(pushed) = win.sum + rate
  <2>1. win.rates \in Seq(Int)
    OBVIOUS
  <2>2. QED
    BY <2>1, SumOfAppend
<1> HIDE DEF pushed
<1>3. CASE Len(pushed) > WindowSamples
  <2>1. next = [rates |-> Tail(pushed), sum |-> win.sum + rate - Head(pushed)]
    BY <1>3 DEF PushRate, pushed
  <2>2. SumOf(Tail(pushed)) = SumOf(pushed) - Head(pushed)
    BY <1>1, SumOfTail
  <2>3. Tail(pushed) \in Seq(Nat) /\ Head(pushed) \in Int
    BY <1>1
  <2>4. next.rates = Tail(pushed) /\ next.sum = win.sum + rate - Head(pushed)
        /\ next = [rates |-> next.rates, sum |-> next.sum] /\ win.sum \in Int
    BY <2>1
  <2>5. next.sum = SumOf(next.rates) /\ next.sum \in Int
    BY <1>2, <2>2, <2>3, <2>4
  <2>6. next.rates = LastSamples(pushed)
    BY <1>3, <2>4 DEF LastSamples
  <2> HIDE DEF next
  <2>7. next \in [rates : Seq(Nat), sum : Int]
    BY <2>3, <2>4, <2>5
  <2>8. QED
    BY <2>5, <2>6, <2>7 DEF next, pushed
<1>4. CASE ~(Len(pushed) > WindowSamples)
  <2>1. next = [rates |-> pushed, sum |-> win.sum + rate]
    BY <1>4 DEF PushRate, pushed
  <2>2. QED
    BY <1>1, <1>2, <1>4, <2>1 DEF LastSamples, pushed
<1>5. QED
  BY <1>3, <1>4

\* A sample pushes one rate and pops at most one, from the sum as well.
LEMMA SampleKeepsWindow ==
    ASSUME SeenInv, WindowInv, SampleNow
    PROVE  WindowInv'
<1> DEFINE entry == [found |-> found, interval |-> clock.interval]
           rate == Rate(NewPrefixes, clock.interval)
<1>1. entry \in PastSample /\ clock.interval \in 0 .. MaxInterval /\ found \in Nat
  BY DEF PastSample, WindowInv, SeenInv
<1>2. NewPrefixes = found
  <2>1. Cardinality(seen.prefixes) \in Nat
    BY SeenIsFinite DEF SeenInv
  <2>2. QED
    BY <2>1 DEF SeenInv, NewPrefixes, TotalPrefixes
<1>3. rate \in Nat /\ rate = Rate(entry.found, entry.interval)
  BY <1>1, <1>2, RateIsNat
<1>4. /\ past' = LastSamples(Append(past, entry))
      /\ clock' = [clock EXCEPT !.interval = 0]
  BY DEF SampleNow
<1> HIDE DEF entry, rate
<1>5. past' \in Seq(PastSample) /\ Len(past') <= WindowSamples /\ Pushed(past', past, entry)
  <2>1. past \in Seq(PastSample) /\ Len(past) <= WindowSamples
    BY DEF WindowInv
  <2>2. QED
    BY <1>1, <1>4, <2>1, PushKeepsSize
<1>6. clock' \in [uptime : Nat, interval : 0 .. MaxInterval]
  BY <1>4, RateAssumption DEF WindowInv
<1>7. plateau' = [detected |-> plateau'.detected, on_last_sample |-> plateau'.on_last_sample,
                  uptime |-> plateau'.uptime]
  <2>1. \/ plateau' = [detected |-> TRUE, on_last_sample |-> TRUE, uptime |-> clock.uptime]
        \/ plateau' = [plateau EXCEPT !.on_last_sample = FALSE]
    BY DEF SampleNow
  <2>2. QED
    BY <2>1 DEF WindowInv
<1>8. CASE PlateauOn
  <2>1. window' = PushRate(window, rate)
    BY <1>8 DEF SampleNow, PlateauOn, rate
  <2>2. /\ window \in [rates : Seq(Nat), sum : Int] /\ window.sum = SumOf(window.rates)
        /\ Len(window.rates) = Len(past) /\ Len(window.rates) <= WindowSamples
    BY <1>8 DEF WindowInv
  <2>3. /\ window' \in [rates : Seq(Nat), sum : Int] /\ window'.sum = SumOf(window'.rates)
        /\ window'.rates = LastSamples(Append(window.rates, rate))
    BY <1>3, <2>1, <2>2, PushKeepsSum
  <2>4. Pushed(window'.rates, window.rates, rate)
    <3>1. window.rates \in Seq(Nat)
      BY <2>2
    <3>2. QED
      BY <1>3, <2>2, <2>3, <3>1, PushKeepsSize
  <2>5. ASSUME NEW i \in 1 .. Len(past')
        PROVE  window'.rates[i] = Rate(past'[i].found, past'[i].interval)
    <3> DEFINE at == IF Len(past) = WindowSamples THEN i + 1 ELSE i
    <3>1. /\ past'[i] = IF at = Len(past) + 1 THEN entry ELSE past[at]
          /\ window'.rates[i] = IF at = Len(past) + 1 THEN rate ELSE window.rates[at]
      BY <1>5, <2>2, <2>4 DEF Pushed
    <3>2. at \in Nat \ {0} /\ at <= Len(past) + 1
      BY <1>5, <2>2, SMTT(20) DEF Pushed, WindowInv
    <3> HIDE DEF at
    <3>3. CASE at = Len(past) + 1
      BY <1>3, <3>1, <3>3
    <3>4. CASE at # Len(past) + 1
      <4>1. at \in 1 .. Len(window.rates)
        <5>1. Len(past) \in Nat
          BY DEF WindowInv
        <5>2. QED
          BY <2>2, <3>2, <3>4, <5>1
      <4>2. window'.rates[i] = window.rates[at] /\ past'[i] = past[at]
        BY <3>1, <3>4
      <4>3. QED
        BY <4>1, <4>2 DEF WindowInv
    <3>5. QED
      BY <3>3, <3>4
  <2>6. QED
    BY <1>5, <1>6, <1>7, <1>8, <2>2, <2>3, <2>4, <2>5 DEF WindowInv, Pushed
<1>9. CASE ~PlateauOn
  <2>1. window' = window
    BY <1>9 DEF SampleNow, PlateauOn
  <2>2. Len(window.rates) = 0 /\ 1 .. 0 = {}
    BY <1>9 DEF WindowInv
  <2>3. QED
    BY <1>5, <1>6, <1>7, <1>9, <2>1, <2>2 DEF WindowInv
<1>10. QED
  BY <1>8, <1>9

\* The window, its sum and the samples it was computed from stay in step.
LEMMA WindowInvHolds == Spec => [](SeenInv /\ WindowInv)
<1>1. Init => WindowInv
  <2> SUFFICES ASSUME NEW observations, InitWith(observations) PROVE WindowInv
    BY DEF Init
  <2>1. /\ clock = [uptime |-> 0, interval |-> 0] /\ window = [rates |-> << >>, sum |-> 0]
        /\ plateau = [detected |-> FALSE, on_last_sample |-> FALSE, uptime |-> 0]
        /\ past = << >>
    BY DEF InitWith
  <2>2. Len(<< >>) = 0 /\ 1 .. 0 = {} /\ << >> \in Seq(Nat) /\ << >> \in Seq(PastSample)
    OBVIOUS
  <2>3. QED
    BY <2>1, <2>2, SumOfNothing, SettingsAssumption, RateAssumption DEF WindowInv
<1>2. SeenInv /\ WindowInv /\ [Next]_vars => WindowInv'
  <2> SUFFICES ASSUME SeenInv, WindowInv, [Next]_vars PROVE WindowInv'
    OBVIOUS
  <2>1. CASE OnMessageReceived \/ MessageDone \/ Announced \/ Withdrawn \/ UNCHANGED vars
    BY <2>1 DEF WindowInv, OnMessageReceived, MessageDone, Announced, OnAnnounce, Withdrawn,
       OnWithdraw, tracker, history, vars
  <2>2. CASE Tick
    <3>1. clock' \in [uptime : Nat, interval : 0 .. MaxInterval]
      BY <2>2, SettingsAssumption, RateAssumption DEF Tick, WindowInv
    <3>2. QED
      BY <2>2, <3>1, SMTT(20) DEF Tick, WindowInv, tracker, history
  <2>3. CASE SampleNow
    BY <2>3, SampleKeepsWindow
  <2>4. QED
    BY <2>1, <2>2, <2>3 DEF Next
<1>3. QED
  BY <1>1, <1>2, SeenInvHolds, PTL DEF Spec

\* The window keeps its size and the rolling sum its value, for all settings and
\* after any number of samples.
THEOREM RollingSumIsExact == Spec => []WindowSumIsExact
<1>1. WindowInv => WindowSumIsExact
  BY SettingsAssumption DEF WindowInv, WindowSumIsExact
<1>2. QED
  BY <1>1, WindowInvHolds, PTL

-----------------------------------------------------------------------------
(* The plateau.                                                            *)

\* Multiplying by a positive number keeps the order.
LEMMA ScaledOrder ==
    ASSUME NEW a \in Int, NEW b \in Int, NEW k \in Nat \ {0}
    PROVE  a * k < b * k <=> a < b
<1>1. ASSUME a < b PROVE a * k < b * k
  BY <1>1
<1>2. ASSUME a >= b PROVE a * k >= b * k
  BY <1>2
<1>3. QED
  BY <1>1, <1>2

\* With an interval that RateUnit is a multiple of, a rate is exact.
LEMMA RateIsExact ==
    ASSUME NEW interval \in 1 .. MaxInterval
    PROVE  \E factor \in Nat :
              /\ RateUnit = factor * interval
              /\ \A count \in Nat : Rate(count, interval) = factor * count
<1> DEFINE factor == RateUnit \div interval
<1>1. /\ interval \in Nat \ {0} /\ RateUnit \in Nat /\ RateUnit % interval = 0
      /\ factor \in Nat
  <2>1. RateUnit \in Nat /\ interval \in Nat \ {0} /\ RateUnit % interval = 0
    BY RateAssumption
  <2>2. factor \in Nat
    BY <2>1
  <2>3. QED
    BY <2>1, <2>2
<1>2. RateUnit = factor * interval
  <2>1. RateUnit = interval * factor + (RateUnit % interval)
    BY <1>1
  <2>2. QED
    BY <1>1, <2>1
<1> HIDE DEF factor
<1>3. ASSUME NEW count \in Nat
      PROVE  Rate(count, interval) = factor * count
  <2> DEFINE product == count * RateUnit
             quotient == product \div interval
             rest == product % interval
  <2>1. product = (factor * count) * interval
    BY <1>1, <1>2
  <2>2. /\ factor * count \in Nat /\ product \in Nat /\ quotient \in Nat
        /\ rest \in 0 .. interval - 1 /\ product = interval * quotient + rest
    <3>1. factor * count \in Nat /\ product \in Nat
      BY <1>1
    <3> HIDE DEF product
    <3>2. QED
      BY <1>1, <3>1
  <2>3. quotient = factor * count
    <3> DEFINE exact == factor * count
               z == exact - quotient
    <3> HIDE DEF product, quotient, rest
    <3>1. exact \in Nat /\ z \in Int
      BY <2>2
    <3> HIDE DEF exact
    <3>2. interval * z = rest
      BY <1>1, <2>1, <2>2, <3>1 DEF exact
    <3>3. ~ (z >= 1)
      <4> SUFFICES ASSUME z >= 1 PROVE FALSE
        BY <3>1
      <4>1. interval * z >= interval
        BY <1>1, <3>1
      <4>2. QED
        BY <1>1, <2>2, <3>2, <4>1
    <3>4. ~ (z <= -1)
      <4> SUFFICES ASSUME z <= -1 PROVE FALSE
        BY <3>1
      <4>1. interval * z <= -interval
        BY <1>1, <3>1
      <4>2. QED
        BY <1>1, <2>2, <3>2, <4>1
    <3>5. z = 0
      BY <3>1, <3>3, <3>4
    <3>6. QED
      BY <2>2, <3>1, <3>5 DEF exact
  <2>4. QED
    BY <1>1, <2>3 DEF Rate
<1>4. QED
  BY <1>1, <1>2, <1>3

\* Over samples at one interval, a low sum of the rates is slow growth.
LEMMA LowRatesAreSlowGrowth ==
    ASSUME NEW samples \in Seq(PastSample), NEW rates \in Seq(Nat),
           NEW interval \in 1 .. MaxInterval,
           Len(rates) = Len(samples),
           \A i \in 1 .. Len(samples) : samples[i].interval = interval,
           \A i \in 1 .. Len(samples) : rates[i] = Rate(samples[i].found, samples[i].interval)
    PROVE  SlowGrowth(samples) <=> SumOf(rates) < Threshold * Len(rates)
<1> DEFINE n == Len(samples)
           founds == [i \in DOMAIN samples |-> samples[i].found]
           intervals == [i \in DOMAIN samples |-> samples[i].interval]
<1>1. n \in Nat /\ DOMAIN samples = 1 .. n /\ Threshold \in Nat /\ interval \in Nat \ {0}
  BY SettingsAssumption
<1>2. ASSUME NEW i \in 1 .. n PROVE samples[i].found \in Nat
  <2>1. samples[i] \in PastSample
    BY <1>1
  <2>2. QED
    BY <2>1 DEF PastSample
<1>3. /\ founds = [i \in 1 .. n |-> samples[i].found]
      /\ intervals = [i \in 1 .. n |-> samples[i].interval]
  BY <1>1
<1>4. founds \in Seq(Int) /\ Len(founds) = n /\ \A i \in 1 .. n : founds[i] = samples[i].found
  <2>1. founds \in [1 .. n -> Int]
    BY <1>2, <1>3
  <2> HIDE DEF founds, n
  <2>2. founds \in Seq(Int) /\ Len(founds) = n
    BY <1>1, <2>1, SeqOfFunction
  <2>3. \A i \in 1 .. n : founds[i] = samples[i].found
    BY <1>3
  <2>4. QED
    BY <2>2, <2>3
<1>5. intervals \in Seq(Int) /\ Len(intervals) = n /\ \A i \in 1 .. n : intervals[i] = interval
  <2>1. intervals \in [1 .. n -> Int] /\ \A i \in 1 .. n : intervals[i] = interval
    BY <1>3
  <2> HIDE DEF intervals, n
  <2>2. QED
    BY <1>1, <2>1, SeqOfFunction
<1>6. SlowGrowth(samples) <=> SumOf(founds) * RateUnit < Threshold * SumOf(intervals)
  BY DEF SlowGrowth
<1> HIDE DEF founds, intervals
<1>7. PICK factor \in Nat :
         RateUnit = factor * interval /\ \A count \in Nat : Rate(count, interval) = factor * count
  BY RateIsExact
<1>8. SumOf(rates) = factor * SumOf(founds)
  <2>1. ASSUME NEW i \in 1 .. n PROVE rates[i] = factor * founds[i]
    BY <1>2, <1>4, <1>7
  <2>2. rates \in Seq(Int) /\ factor \in Int
    OBVIOUS
  <2>3. QED
    BY <1>4, <2>1, <2>2, SumOfMultiples
<1>9. SumOf(intervals) = n * interval
  <2>1. interval \in Int /\ \A i \in 1 .. Len(intervals) : intervals[i] = interval
    BY <1>5
  <2>2. SumOf(intervals) = Len(intervals) * interval
    BY <1>5, <2>1, SumOfConstant
  <2>3. QED
    BY <1>5, <2>2
<1>10. SumOf(founds) \in Int
  BY <1>4, SumIsInt
<1> DEFINE total == SumOf(founds)
<1>11. total \in Int
  BY <1>10
<1> HIDE DEF n, total
<1>12. total * (factor * interval) = (factor * total) * interval
       /\ Threshold * (n * interval) = (Threshold * n) * interval
       /\ factor * total \in Int /\ Threshold * n \in Int
  BY <1>1, <1>11
<1>13. (factor * total) * interval < (Threshold * n) * interval <=> factor * total < Threshold * n
  BY <1>1, <1>12, ScaledOrder
<1>14. QED
  BY <1>6, <1>7, <1>8, <1>9, <1>12, <1>13 DEF total, n

\* The sample that detects the plateau is one with slow growth over the window.
LEMMA PlateauStep ==
    ASSUME SeenInv, WindowInv, WindowInv', SampleNow, PlateauEnabled, ~plateau.detected,
           Regular(past')
    PROVE  plateau'.detected <=>
               Len(past') = WindowSamples /\ clock.uptime >= MinRuntime /\ SlowGrowth(past')
<1>1. PICK interval \in 1 .. MaxInterval :
         \A i \in DOMAIN past' : past'[i].interval = interval
  BY DEF Regular
<1>2. /\ past' \in Seq(PastSample) /\ Len(past') <= WindowSamples
      /\ window' \in [rates : Seq(Nat), sum : Int] /\ window'.sum = SumOf(window'.rates)
      /\ Len(window'.rates) = IF PlateauOn THEN Len(past') ELSE 0
      /\ \A i \in 1 .. Len(window'.rates) :
            window'.rates[i] = Rate(past'[i].found, past'[i].interval)
  BY DEF WindowInv
<1>3. DOMAIN past' = 1 .. Len(past') /\ Len(past') \in Nat /\ WindowSamples \in Nat
  BY <1>2, SettingsAssumption
<1>4. CASE WindowSamples > 0
  <2>1. PlateauOn /\ Len(window'.rates) = Len(past')
    BY <1>2, <1>4 DEF PlateauOn
  <2>2. SlowGrowth(past') <=> SumOf(window'.rates) < Threshold * Len(window'.rates)
    BY <1>1, <1>2, <1>3, <2>1, LowRatesAreSlowGrowth
  <2>3. plateau'.detected <=> Detects(window')
    <3>1. plateau' = IF Detects(window')
                     THEN [detected |-> TRUE, on_last_sample |-> TRUE, uptime |-> clock.uptime]
                     ELSE [plateau EXCEPT !.on_last_sample = FALSE]
      BY <1>4 DEF SampleNow
    <3>2. [plateau EXCEPT !.on_last_sample = FALSE].detected = plateau.detected
      BY DEF WindowInv
    <3>3. QED
      BY <3>1, <3>2
  <2>4. QED
    BY <1>2, <2>1, <2>2, <2>3 DEF Detects
<1>5. CASE WindowSamples = 0
  <2>1. past' = << >>
    BY <1>2, <1>3, <1>5
  <2>2. plateau'.detected = plateau.detected
    BY <1>5 DEF SampleNow, WindowInv
  <2>3. << >> \in Seq(Nat) /\ Len(<< >>) = 0 /\ Threshold * 0 = 0
    BY SettingsAssumption
  <2>4. ~ SlowGrowth(<< >>)
    <3>1. << >> \in Seq(PastSample) /\ 1 .. Len(<< >>) = {}
      OBVIOUS
    <3>2. SlowGrowth(<< >>) <=> SumOf(<< >>) < Threshold * Len(<< >>)
      BY <1>1, <2>3, <3>1, LowRatesAreSlowGrowth
    <3>3. QED
      BY <2>3, <3>2, SumOfNothing
  <2>5. QED
    BY <2>1, <2>2, <2>4
<1>6. WindowSamples > 0 \/ WindowSamples = 0
  BY <1>3
<1>7. QED
  BY <1>4, <1>5, <1>6, Zenon

\* The plateau is detected by the first sample at which the growth over the whole
\* window is below the threshold, for all settings and regular intervals.
THEOREM PlateauIsRight == Spec => PlateauIsSlowGrowth
<1>1. /\ SeenInv /\ WindowInv /\ (SeenInv /\ WindowInv)' /\ [Next]_vars
      => [SampleNow /\ PlateauEnabled /\ ~plateau.detected /\ Regular(past') =>
            (plateau'.detected <=>
                Len(past') = WindowSamples /\ clock.uptime >= MinRuntime /\ SlowGrowth(past'))]_vars
  BY PlateauStep
<1>2. QED
  BY <1>1, WindowInvHolds, PTL DEF Spec, PlateauIsSlowGrowth

=============================================================================
