------------------------------ MODULE DataLemmas ------------------------------
(***************************************************************************)
(* Lemmas about data: induction and recursion along the naturals,          *)
(* flattened sequences; the operators of PrefixRecord: the counters, the   *)
(* selection order, and what the incremental selection returns.            *)
(***************************************************************************)
EXTENDS PrefixRecord, WellFoundedInduction, TLAPS

-----------------------------------------------------------------------------
(* Naturals.                                                               *)

NatLess == {pair \in Nat \X Nat : pair[1] < pair[2]}

\* Every nonempty set of naturals has a least element.
LEMMA LeastElement ==
    ASSUME NEW S \in SUBSET Nat, S # {}
    PROVE  \E least \in S : \A n \in S : least <= n
<1>1. NatLess = OpToRel(<, Nat)
  BY Zenon DEF NatLess, OpToRel
<1>2. IsWellFoundedOn(NatLess, Nat)
  BY <1>1, NatLessThanWellFounded, Zenon
<1>3. PICK least \in S : \A n \in S : ~ (<<n, least>> \in NatLess)
  BY <1>2, WFMin, S \subseteq Nat
<1>4. ASSUME NEW n \in S
      PROVE  least <= n
  <2>1. n \in Nat /\ least \in Nat
    OBVIOUS
  <2>2. n < least => <<n, least>> \in NatLess
    BY <2>1 DEF NatLess
  <2>3. QED
    BY <2>1, <2>2, <1>3
<1>5. QED
  BY <1>4

\* Induction, for a set of naturals.
LEMMA SetInduction ==
    ASSUME NEW S, 0 \in S, \A n \in S \cap Nat : n + 1 \in S
    PROVE  Nat \subseteq S
<1> DEFINE bad == Nat \ S
<1> SUFFICES ASSUME bad # {} PROVE FALSE
  OBVIOUS
<1>1. PICK least \in bad : \A n \in bad : least <= n
  BY LeastElement
<1>2. least \in Nat /\ least # 0
  OBVIOUS
<1>3. least - 1 \in Nat /\ ~ (least <= least - 1)
  BY <1>2
<1>4. least - 1 \in S
  BY <1>1, <1>3
<1>5. least - 1 + 1 = least
  BY <1>2
<1>6. QED
  BY <1>3, <1>4, <1>5

\* f[i] is what step[i] makes of f[i - 1].
Iterates(f, n, S, base, step) ==
    /\ f \in [0 .. n -> S]
    /\ f[0] = base
    /\ \A i \in 1 .. n : f[i] = step[i][f[i - 1]]

\* A recursion along the naturals has a solution.
LEMMA IterationExists ==
    ASSUME NEW n \in Nat, NEW S, NEW base \in S, NEW step \in [1 .. n -> [S -> S]]
    PROVE  \E f : Iterates(f, n, S, base, step)
<1> DEFINE T == {k \in Nat : k <= n => \E f : Iterates(f, k, S, base, step)}
<1>1. 0 \in T
  <2> DEFINE f == [i \in 0 .. 0 |-> base]
  <2>1. Iterates(f, 0, S, base, step)
    BY DEF Iterates
  <2>2. QED
    BY <2>1
<1>2. ASSUME NEW k \in T \cap Nat PROVE k + 1 \in T
  <2> SUFFICES ASSUME k + 1 <= n PROVE \E f : Iterates(f, k + 1, S, base, step)
    OBVIOUS
  <2>1. PICK g : Iterates(g, k, S, base, step)
    OBVIOUS
  <2> DEFINE f == [i \in 0 .. k + 1 |-> IF i = k + 1 THEN step[k + 1][g[k]] ELSE g[i]]
  <2>2. k + 1 \in 1 .. n /\ g[k] \in S
    BY <2>1 DEF Iterates
  <2>3. step[k + 1][g[k]] \in S
    BY <2>2
  <2>4. f \in [0 .. k + 1 -> S] /\ f[0] = base
    BY <2>1, <2>3 DEF Iterates
  <2>5. ASSUME NEW i \in 1 .. k + 1 PROVE f[i] = step[i][f[i - 1]]
    <3>1. CASE i = k + 1
      <4>1. f[i] = step[k + 1][g[k]] /\ i - 1 = k /\ k \in 0 .. k + 1 /\ k # k + 1
        BY <3>1
      <4>2. QED
        BY <4>1, <3>1
    <3>2. CASE i # k + 1
      <4>1. i \in 1 .. k /\ i - 1 \in 0 .. k + 1 /\ i - 1 # k + 1
        BY <3>2
      <4>2. f[i] = g[i] /\ f[i - 1] = g[i - 1]
        BY <4>1
      <4>3. QED
        BY <4>1, <4>2, <2>1 DEF Iterates
    <3>3. QED
      BY <3>1, <3>2
  <2>6. Iterates(f, k + 1, S, base, step)
    BY <2>4, <2>5 DEF Iterates
  <2>7. QED
    BY <2>6
<1>3. n \in T
  <2> HIDE DEF T
  <2>1. QED
    BY <1>1, <1>2, SetInduction
<1>4. QED
  BY <1>3

-----------------------------------------------------------------------------
(* Flattened sequences.                                                    *)

\* What FlattenSeq computes up to the i-th sequence.
IsFlatten(f, seqs) ==
    f = [i \in 1 .. Len(seqs) |-> IF i = 1 THEN seqs[i] ELSE f[i - 1] \o seqs[i]]

\* The recursion of FlattenSeq has a solution, so FlattenSeq is one.
LEMMA FlattenDefined ==
    ASSUME NEW S, NEW seqs \in Seq(Seq(S)), seqs # << >>
    PROVE  \E f : IsFlatten(f, seqs) /\ FlattenSeq(seqs) = f[Len(seqs)]
<1> DEFINE n    == Len(seqs)
           T    == Seq(S)
           base == << >>
           step == [i \in 1 .. n |-> [s \in T |-> s \o seqs[i]]]
<1>1. n \in Nat /\ n # 0 /\ base \in T /\ step \in [1 .. n -> [T -> T]]
  OBVIOUS
<1>2. PICK g : Iterates(g, n, T, base, step)
  <2> HIDE DEF n, T, base, step
  <2>1. QED
    BY <1>1, IterationExists
<1>3. \A i \in 1 .. n : i - 1 \in 0 .. n /\ g[i - 1] \in T
  <2>1. \A i \in 1 .. n : i - 1 \in 0 .. n
    BY <1>1
  <2>2. g \in [0 .. n -> T]
    BY <1>2 DEF Iterates
  <2>3. QED
    BY <2>1, <2>2
<1>4. \A i \in 1 .. n : g[i] = g[i - 1] \o seqs[i]
  BY <1>2, <1>3 DEF Iterates
<1> DEFINE h == [i \in 1 .. n |-> g[i]]
<1>5. ASSUME NEW i \in 1 .. n
      PROVE  h[i] = IF i = 1 THEN seqs[i] ELSE h[i - 1] \o seqs[i]
  <2>1. CASE i = 1
    <3>1. h[i] = g[i] /\ g[i - 1] = base
      BY <2>1, <1>2 DEF Iterates
    <3>2. seqs[i] \in Seq(S)
      OBVIOUS
    <3>3. h[i] = base \o seqs[i]
      BY <3>1, <1>4
    <3>4. QED
      BY <3>2, <3>3, <2>1
  <2>2. CASE i # 1
    <3>1. i - 1 \in 1 .. n
      BY <2>2
    <3>2. QED
      BY <3>1, <2>2, <1>4
  <2>3. QED
    BY <2>1, <2>2
<1>6. IsFlatten(h, seqs)
  <2>1. h = [i \in 1 .. n |-> IF i = 1 THEN seqs[i] ELSE h[i - 1] \o seqs[i]]
    BY <1>5, Zenon
  <2>2. QED
    BY <2>1 DEF IsFlatten
<1> DEFINE flatten == CHOOSE f : IsFlatten(f, seqs)
<1>7. IsFlatten(flatten, seqs)
  <2> HIDE DEF h
  <2>1. QED
    BY <1>6
<1>8. FlattenSeq(seqs) = flatten[n]
  BY <1>1 DEF FlattenSeq, IsFlatten
<1>9. QED
  BY <1>7, <1>8

\* A function on 1 .. n is a sequence.
LEMMA SeqOfFunction ==
    ASSUME NEW S, NEW n \in Nat, NEW f \in [1 .. n -> S]
    PROVE  f \in Seq(S) /\ DOMAIN f = 1 .. n /\ Len(f) = n
OBVIOUS

\* A concatenation has the elements of both its parts.
LEMMA RangeOfConcat ==
    ASSUME NEW S, NEW s \in Seq(S), NEW t \in Seq(S)
    PROVE  s \o t \in Seq(S) /\ Range(s \o t) = Range(s) \cup Range(t)
<1>1. Range(s \o t) \subseteq Range(s) \cup Range(t)
  BY DEF Range
<1>2. Range(s) \subseteq Range(s \o t)
  BY DEF Range
<1>3. ASSUME NEW i \in DOMAIN t PROVE t[i] \in Range(s \o t)
  <2>1. Len(s) + i \in DOMAIN (s \o t) /\ (s \o t)[Len(s) + i] = t[i]
    OBVIOUS
  <2>2. QED
    BY <2>1 DEF Range
<1>4. QED
  BY <1>1, <1>2, <1>3, SMTT(20) DEF Range

\* A flattened sequence has the elements of its sequences.
LEMMA RangeOfFlatten ==
    ASSUME NEW S, NEW seqs \in Seq(Seq(S))
    PROVE  /\ FlattenSeq(seqs) \in Seq(S)
           /\ Range(FlattenSeq(seqs)) = UNION {Range(seqs[i]) : i \in DOMAIN seqs}
<1>1. CASE seqs = << >>
  BY <1>1 DEF FlattenSeq, Range
<1>2. CASE seqs # << >>
  <2>1. PICK f : IsFlatten(f, seqs) /\ FlattenSeq(seqs) = f[Len(seqs)]
    BY <1>2, FlattenDefined
  <2> DEFINE n == Len(seqs)
             Elements(m) == UNION {Range(seqs[i]) : i \in 1 .. m}
             T == {m \in Nat : m \in 1 .. n => f[m] \in Seq(S) /\ Range(f[m]) = Elements(m)}
  <2>2. n \in Nat \ {0}
    BY <1>2
  <2>3. ASSUME NEW i \in 1 .. n
        PROVE  f[i] = IF i = 1 THEN seqs[i] ELSE f[i - 1] \o seqs[i]
    BY <2>1, Zenon DEF IsFlatten
  <2>4. 0 \in T
    OBVIOUS
  <2>5. ASSUME NEW m \in T \cap Nat PROVE m + 1 \in T
    <3> SUFFICES ASSUME m + 1 \in 1 .. n
                 PROVE  f[m + 1] \in Seq(S) /\ Range(f[m + 1]) = Elements(m + 1)
      OBVIOUS
    <3>1. seqs[m + 1] \in Seq(S)
      OBVIOUS
    <3>2. CASE m = 0
      <4>1. 1 .. 1 = {1} /\ m + 1 = 1
        BY <3>2
      <4>2. Elements(m + 1) = Range(seqs[1])
        BY <4>1
      <4>3. f[1] = seqs[1]
        BY <2>3, <4>1
      <4>4. QED
        BY <3>1, <4>1, <4>2, <4>3
    <3>3. CASE m # 0
      <4>1. m \in 1 .. n /\ f[m] \in Seq(S) /\ Range(f[m]) = Elements(m)
        BY <3>3
      <4>2. m + 1 # 1 /\ m + 1 - 1 = m
        BY <3>3
      <4>3. f[m + 1] = f[m] \o seqs[m + 1]
        <5>1. f[m + 1] = IF m + 1 = 1 THEN seqs[m + 1] ELSE f[m + 1 - 1] \o seqs[m + 1]
          BY <2>3
        <5>2. QED
          BY <5>1, <4>2, Zenon
      <4>4. /\ f[m + 1] \in Seq(S)
            /\ Range(f[m + 1]) = Range(f[m]) \cup Range(seqs[m + 1])
        BY <3>1, <4>1, <4>3, RangeOfConcat
      <4>5. 1 .. m + 1 = (1 .. m) \cup {m + 1}
        OBVIOUS
      <4>6. Elements(m + 1) = Elements(m) \cup Range(seqs[m + 1])
        BY <4>5
      <4>7. QED
        BY <4>1, <4>4, <4>6
    <3>4. QED
      BY <3>2, <3>3
  <2>6. n \in T
    <3> HIDE DEF T
    <3>1. QED
      BY <2>2, <2>4, <2>5, SetInduction
  <2>7. DOMAIN seqs = 1 .. n
    OBVIOUS
  <2>8. QED
    BY <2>1, <2>2, <2>6, <2>7
<1>3. QED
  BY <1>1, <1>2

-----------------------------------------------------------------------------
(* Counters.                                                               *)

\* asn_counts as the code keeps it: only ASNs with a positive counter are present.
Counters(counts) ==
    /\ DOMAIN counts \subseteq Nat
    /\ counts \in [DOMAIN counts -> Nat \ {0}]

-----------------------------------------------------------------------------
(* Maps.                                                                   *)

\* Inserting a key changes the map at that key and nowhere else.
LEMMA PutMap ==
    ASSUME NEW map, NEW key, NEW value
    PROVE  /\ DOMAIN Put(map, key, value) = DOMAIN map \cup {key}
           /\ Put(map, key, value)[key] = value
           /\ \A k \in DOMAIN map \ {key} : Put(map, key, value)[k] = map[k]
BY DEF Put

\* Erasing a key removes that key and changes nothing else.
LEMMA EraseMap ==
    ASSUME NEW map, NEW key
    PROVE  /\ DOMAIN Erase(map, key) = DOMAIN map \ {key}
           /\ \A k \in DOMAIN map \ {key} : Erase(map, key)[k] = map[k]
BY DEF Erase

-----------------------------------------------------------------------------
(* The selection order has exactly one best element.                       *)

\* No two ASNs are both best.
LEMMA BestIsUnique ==
    ASSUME NEW counts, Counters(counts),
           NEW a, IsBestOf(counts, a),
           NEW b, IsBestOf(counts, b)
    PROVE  a = b
BY DEF Counters, IsBestOf, IsBetterSelection

\* Bounded, nonempty counters have a best ASN: the lowest of those with the
\* highest count.
LEMMA BestExists ==
    ASSUME NEW counts, Counters(counts), DOMAIN counts # {},
           NEW bound \in Nat, \A asn \in DOMAIN counts : counts[asn] <= bound
    PROVE  \E asn \in DOMAIN counts : IsBestOf(counts, asn)
<1> DEFINE Gaps == {bound - counts[asn] : asn \in DOMAIN counts}
<1>1. /\ DOMAIN counts \subseteq Nat
      /\ \A asn \in DOMAIN counts : counts[asn] \in Nat
  BY DEF Counters
<1>2. Gaps \in SUBSET Nat /\ Gaps # {}
  BY <1>1
<1>3. PICK gap \in Gaps : \A other \in Gaps : gap <= other
  BY <1>2, LeastElement
<1>4. PICK top \in DOMAIN counts : gap = bound - counts[top]
  OBVIOUS
<1>5. ASSUME NEW asn \in DOMAIN counts
      PROVE  counts[asn] <= counts[top]
  <2>1. gap <= bound - counts[asn]
    BY <1>3
  <2>2. counts[asn] \in Nat /\ counts[top] \in Nat
    BY <1>1
  <2>3. QED
    BY <2>1, <2>2, <1>4
<1> DEFINE Tops == {asn \in DOMAIN counts : counts[asn] = counts[top]}
<1>6. Tops \in SUBSET Nat /\ Tops # {}
  BY <1>1, <1>4
<1>7. PICK best \in Tops : \A asn \in Tops : best <= asn
  BY <1>6, LeastElement
<1>8. IsBestOf(counts, best)
  BY <1>1, <1>5, <1>7 DEF IsBestOf, IsBetterSelection
<1>9. QED
  BY <1>8 DEF IsBestOf

-----------------------------------------------------------------------------
(* Counters seen through CountOf, where an absent key counts 0.            *)

\* The counter of a present key is the only one that is not 0.
LEMMA CountersByCountOf ==
    ASSUME NEW counts, Counters(counts)
    PROVE  /\ \A asn : CountOf(counts, asn) \in Nat
           /\ \A asn : asn \in DOMAIN counts <=> CountOf(counts, asn) > 0
           /\ \A asn \in DOMAIN counts : counts[asn] = CountOf(counts, asn)
BY DEF Counters, CountOf

\* An increment adds one for that ASN, inserting it if need be.
LEMMA IncrementCounts ==
    ASSUME NEW counts, Counters(counts), NEW asn \in Nat
    PROVE  /\ Counters(IncrementAsnCount(counts, asn))
           /\ CountOf(IncrementAsnCount(counts, asn), asn) = CountOf(counts, asn) + 1
           /\ \A other : other # asn =>
                 CountOf(IncrementAsnCount(counts, asn), other) = CountOf(counts, other)
           /\ DOMAIN IncrementAsnCount(counts, asn) = DOMAIN counts \cup {asn}
BY DEF Counters, CountOf, IncrementAsnCount, Put

\* A decrement takes one away from a present ASN, dropping it at zero.
LEMMA DecrementCounts ==
    ASSUME NEW counts, Counters(counts), NEW asn \in DOMAIN counts
    PROVE  /\ Counters(DecrementAsnCount(counts, asn))
           /\ CountOf(DecrementAsnCount(counts, asn), asn) = CountOf(counts, asn) - 1
           /\ \A other : other # asn =>
                 CountOf(DecrementAsnCount(counts, asn), other) = CountOf(counts, other)
           /\ DOMAIN DecrementAsnCount(counts, asn) \subseteq DOMAIN counts
BY DEF Counters, CountOf, DecrementAsnCount, Put, Erase

\* Being best is being present and beating every other ASN, absent ones included.
LEMMA BestByCountOf ==
    ASSUME NEW counts, Counters(counts), NEW asn \in Nat
    PROVE  IsBestOf(counts, asn) <=>
              /\ CountOf(counts, asn) > 0
              /\ \A other \in Nat \ {asn} :
                    IsBetterSelection(asn, CountOf(counts, asn), other, CountOf(counts, other))
BY DEF Counters, CountOf, IsBestOf, IsBetterSelection

-----------------------------------------------------------------------------
(* Why announce and withdraw may skip the rescan.                          *)

\* Taking peers away from an ASN that is not selected leaves the selection best.
LEMMA LoserShrinks ==
    ASSUME NEW old, Counters(old), NEW new, Counters(new),
           NEW selected \in Nat, IsBestOf(old, selected),
           NEW loser, loser # selected,
           CountOf(new, loser) <= CountOf(old, loser),
           \A other : other # loser => CountOf(new, other) = CountOf(old, other)
    PROVE  IsBestOf(new, selected) /\ CountOf(new, selected) = CountOf(old, selected)
<1>1. \A asn : CountOf(new, asn) \in Nat /\ CountOf(old, asn) \in Nat
  BY CountersByCountOf
<1>2. CountOf(new, selected) = CountOf(old, selected)
  OBVIOUS
<1>3. CountOf(old, selected) > 0
  BY BestByCountOf
<1>4. ASSUME NEW other \in Nat \ {selected}
      PROVE  IsBetterSelection(selected, CountOf(new, selected), other, CountOf(new, other))
  <2>1. IsBetterSelection(selected, CountOf(old, selected), other, CountOf(old, other))
    BY BestByCountOf
  <2>2. CountOf(new, other) <= CountOf(old, other)
    BY <1>1
  <2>3. QED
    BY <1>1, <1>2, <2>1, <2>2 DEF IsBetterSelection
<1>5. QED
  BY <1>2, <1>3, <1>4, BestByCountOf

\* After one ASN gains a peer, the better of it and the old selection is best.
LEMMA WinnerAfterIncrement ==
    ASSUME NEW old, Counters(old), NEW new, Counters(new),
           NEW selected \in Nat, IsBestOf(old, selected),
           NEW asn \in Nat,
           CountOf(new, asn) = CountOf(old, asn) + 1,
           \A other : other # asn => CountOf(new, other) = CountOf(old, other)
    PROVE  LET better == IsBetterSelection(asn, CountOf(new, asn),
                                           selected, CountOf(old, selected))
           IN  /\ better => IsBestOf(new, asn)
               /\ ~ better => /\ IsBestOf(new, selected)
                              /\ CountOf(new, selected) = CountOf(old, selected)
<1>1. \A other : CountOf(new, other) \in Nat /\ CountOf(old, other) \in Nat
  BY CountersByCountOf
<1>2. CountOf(old, selected) > 0
  BY BestByCountOf
<1>3. \A other \in Nat \ {selected} :
         IsBetterSelection(selected, CountOf(old, selected), other, CountOf(old, other))
  BY BestByCountOf
<1>4. ASSUME IsBetterSelection(asn, CountOf(new, asn), selected, CountOf(old, selected))
      PROVE  IsBestOf(new, asn)
  <2>1. ASSUME NEW other \in Nat \ {asn}
        PROVE  IsBetterSelection(asn, CountOf(new, asn), other, CountOf(new, other))
    <3>1. CASE other = selected
      BY <1>4, <3>1
    <3>2. CASE other # selected
      BY <1>1, <1>3, <1>4, <3>2 DEF IsBetterSelection
    <3>3. QED
      BY <3>1, <3>2
  <2>2. QED
    BY <1>1, <2>1, BestByCountOf
<1>5. ASSUME ~ IsBetterSelection(asn, CountOf(new, asn), selected, CountOf(old, selected))
      PROVE  IsBestOf(new, selected) /\ CountOf(new, selected) = CountOf(old, selected)
  <2>1. asn # selected
    BY <1>1, <1>5 DEF IsBetterSelection
  <2>2. CountOf(new, selected) = CountOf(old, selected)
    BY <2>1
  <2>3. ASSUME NEW other \in Nat \ {selected}
        PROVE  IsBetterSelection(selected, CountOf(new, selected), other, CountOf(new, other))
    <3>1. CASE other = asn
      BY <1>1, <1>5, <2>1, <2>2, <3>1 DEF IsBetterSelection
    <3>2. CASE other # asn
      BY <1>3, <2>2, <3>2
    <3>3. QED
      BY <3>1, <3>2
  <2>4. QED
    BY <1>2, <2>2, <2>3, BestByCountOf
<1>6. QED
  BY <1>4, <1>5

-----------------------------------------------------------------------------
(* The packed vectors and the search for a peer.                           *)

\* The last element takes the place of the removed one; the others stay put.
LEMMA SwapRemoveSeq ==
    ASSUME NEW S, NEW seq \in Seq(S), NEW index \in 1 .. Len(seq)
    PROVE  /\ SwapRemove(seq, index) \in Seq(S)
           /\ Len(SwapRemove(seq, index)) = Len(seq) - 1
           /\ \A j \in 1 .. Len(seq) - 1 :
                 SwapRemove(seq, index)[j] = IF j = index THEN seq[Len(seq)] ELSE seq[j]
<1> DEFINE swapped == [seq EXCEPT ![index] = seq[Len(seq)]]
<1>1. swapped \in Seq(S) /\ Len(swapped) = Len(seq)
  OBVIOUS
<1>2. SwapRemove(seq, index) = SubSeq(swapped, 1, Len(swapped) - 1)
  BY <1>1 DEF SwapRemove, Front, Last
<1>3. \A j \in 1 .. Len(seq) : swapped[j] = IF j = index THEN seq[Len(seq)] ELSE seq[j]
  OBVIOUS
<1> HIDE DEF swapped
<1>4. QED
  BY <1>1, <1>2, <1>3

PeersIn(rec) == {rec.observations[i].peer_id : i \in DOMAIN rec.observations}

\* The search returns the index of the peer's observation, or 0 without one.
LEMMA IndexOfPresentPeer ==
    ASSUME NEW rec, NEW S, rec.observations \in Seq(S), OneObservationPerPeer(rec),
           NEW i \in DOMAIN rec.observations
    PROVE  IndexOfPeer(rec, rec.observations[i].peer_id) = i
<1> DEFINE hits == {j \in 1 .. Len(rec.observations) :
                      rec.observations[j].peer_id = rec.observations[i].peer_id}
<1>1. hits = {i}
  BY DEF OneObservationPerPeer
<1>2. Min(hits) = i
  BY <1>1 DEF Min
<1>3. QED
  BY <1>1, <1>2 DEF IndexOfPeer, SelectInSeq

\* The search for a peer without an observation fails.
LEMMA IndexOfAbsentPeer ==
    ASSUME NEW rec, NEW S, rec.observations \in Seq(S), NEW peer_id, peer_id \notin PeersIn(rec)
    PROVE  IndexOfPeer(rec, peer_id) = 0
BY DEF PeersIn, IndexOfPeer, SelectInSeq

\* Else it finds the one observation of the peer.
LEMMA IndexOfPeerCases ==
    ASSUME NEW rec, NEW S, rec.observations \in Seq(S), OneObservationPerPeer(rec), NEW peer_id
    PROVE  LET index == IndexOfPeer(rec, peer_id) IN
           /\ index = 0 <=> peer_id \notin PeersIn(rec)
           /\ index # 0 => /\ index \in DOMAIN rec.observations
                           /\ rec.observations[index].peer_id = peer_id
<1>1. CASE peer_id \notin PeersIn(rec)
  BY <1>1, IndexOfAbsentPeer
<1>2. CASE peer_id \in PeersIn(rec)
  <2>1. PICK i \in DOMAIN rec.observations : rec.observations[i].peer_id = peer_id
    BY <1>2 DEF PeersIn
  <2>2. IndexOfPeer(rec, peer_id) = i /\ i # 0
    BY <2>1, IndexOfPresentPeer
  <2>3. QED
    BY <1>2, <2>1, <2>2
<1>3. QED
  BY <1>1, <1>2

=============================================================================
