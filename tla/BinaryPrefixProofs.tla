-------------------------- MODULE BinaryPrefixProofs --------------------------
(* parse_prefix returns canonical prefixes, for every text and every address. *)
EXTENDS BinaryPrefix, TLAPS

-----------------------------------------------------------------------------
(* The inductive invariant: what has been established at each point.       *)

InferredFamily == family = (IF text.colon THEN "V6" ELSE "V4") /\ (text.colon \/ text.dot)

InferredInv == pc \notin {"infer", "thrown"} => InferredFamily

SplitInv ==
    pc \notin {"infer", "split", "thrown"} => text.slash /\ Stoul(text) = length

MaskV4Inv ==
    pc = "mask_v4" => family = "V4" /\ length <= 32 /\ text.v4 # NoAddress /\ network = text.v4

\* The bytes before index are masked, the others still as they were read.
BytesInv ==
    \A k \in 1 .. 16 :
        bytes[k] = IF k < index THEN MaskedV6(text.v6, length)[k] ELSE text.v6[k]

\* What is left of len bits at byte k.
BitsAt(len, k) == IF len > 8 * (k - 1) THEN len - 8 * (k - 1) ELSE 0

MaskV6Inv ==
    pc = "mask_v6" =>
        /\ family = "V6" /\ length <= 128 /\ text.v6 # NoAddress
        /\ bits_left = BitsAt(length, index)
        /\ BytesInv

\* What is accepted, once std::stoul has read the number.
Accepted(t) == HasAddress(t) /\ Stoul(t) \in LengthsOf(t)

PrintedInv ==
    printed # NoPrefix =>
        Accepted(text) /\ Canonical(text) = printed

SeparatorsInv ==
    /\ text.v4 # NoAddress => text.dot /\ ~text.colon
    /\ text.v6 # NoAddress => text.colon

IInv ==
    /\ TypeOK /\ SeparatorsInv
    /\ InferredInv /\ SplitInv /\ MaskV4Inv /\ MaskV6Inv
    /\ ParsedIsCanonical /\ AcceptsExactly /\ PrintedInv

-----------------------------------------------------------------------------
(* Masks.                                                                  *)

\* A masked network is a network of its family.
LEMMA MaskedTypes ==
    /\ \A net \in NetworkV4, len \in Nat : MaskedV4(net, len) \in NetworkV4
    /\ \A net \in NetworkV6, len \in Nat : MaskedV6(net, len) \in NetworkV6
<1>1. ASSUME NEW net \in NetworkV4, NEW len \in Nat
      PROVE  MaskedV4(net, len) \in NetworkV4
  BY DEF MaskedV4, NetworkV4, Bit
<1>2. ASSUME NEW net \in NetworkV6, NEW len \in Nat
      PROVE  MaskedV6(net, len) \in NetworkV6
  <2>1. ASSUME NEW k \in 1 .. 16
        PROVE  [i \in 1 .. 8 |-> IF 8 * (k - 1) + i <= len THEN net[k][i] ELSE 0] \in Byte
    BY DEF NetworkV6, Byte, Bit
  <2>2. QED
    BY <2>1 DEF MaskedV6, NetworkV6
<1>3. QED
  BY <1>1, <1>2

\* Masking twice is masking once.
LEMMA MaskedTwice ==
    /\ \A net \in NetworkV4, len \in Nat : MaskedV4(MaskedV4(net, len), len) = MaskedV4(net, len)
    /\ \A net \in NetworkV6, len \in Nat : MaskedV6(MaskedV6(net, len), len) = MaskedV6(net, len)
<1>1. ASSUME NEW net \in NetworkV4, NEW len \in Nat
      PROVE  MaskedV4(MaskedV4(net, len), len) = MaskedV4(net, len)
  BY DEF MaskedV4
<1>2. ASSUME NEW net \in NetworkV6, NEW len \in Nat
      PROVE  MaskedV6(MaskedV6(net, len), len) = MaskedV6(net, len)
  <2>1. ASSUME NEW k \in 1 .. 16, NEW i \in 1 .. 8
        PROVE  (IF 8 * (k - 1) + i <= len THEN MaskedV6(net, len)[k][i] ELSE 0)
                 = (IF 8 * (k - 1) + i <= len THEN net[k][i] ELSE 0)
    BY DEF MaskedV6
  <2>2. QED
    BY <2>1 DEF MaskedV6
<1>3. QED
  BY <1>1, <1>2

\* 0xFFFFFFFF << (32 - length) keeps the first length bits, if length is not 0.
LEMMA ShiftedMask ==
    ASSUME NEW net \in NetworkV4, NEW len \in 1 .. 32, NEW mask \in OnesShifted(32 - len)
    PROVE  [i \in 1 .. 32 |-> And(net[i], mask[i])] = MaskedV4(net, len)
<1>1. mask = [i \in 1 .. 32 |-> IF i + (32 - len) <= 32 THEN 1 ELSE 0]
  BY DEF OnesShifted
<1>2. ASSUME NEW i \in 1 .. 32
      PROVE  And(net[i], mask[i]) = IF i <= len THEN net[i] ELSE 0
  BY <1>1 DEF And, NetworkV4, Bit
<1>3. QED
  BY <1>2 DEF MaskedV4

\* A mask of length 0 leaves no bit.
LEMMA NoBitsKept ==
    \A net \in NetworkV4 : MaskedV4(net, 0) = ZeroV4
BY DEF MaskedV4, ZeroV4

\* What the three branches of the loop make of the byte at index.
LEMMA MaskedByte ==
    ASSUME NEW net \in NetworkV6, NEW len \in Nat, NEW k \in 1 .. 16
    PROVE  /\ BitsAt(len, k) >= 8 => MaskedV6(net, len)[k] = net[k]
           /\ BitsAt(len, k) = 0 => MaskedV6(net, len)[k] = ZeroByte
           /\ BitsAt(len, k) \in 1 .. 7 =>
                 MaskedV6(net, len)[k]
                   = [i \in 1 .. 8 |-> And(net[k][i], ByteShifted(8 - BitsAt(len, k))[i])]
<1> DEFINE left == BitsAt(len, k)
<1>0. left = IF len > 8 * (k - 1) THEN len - 8 * (k - 1) ELSE 0
  BY DEF BitsAt
<1> HIDE DEF left
<1>1. /\ MaskedV6(net, len)[k] = [i \in 1 .. 8 |-> IF 8 * (k - 1) + i <= len THEN net[k][i] ELSE 0]
      /\ net[k] \in Byte
  BY DEF MaskedV6, NetworkV6
<1>2. ASSUME left >= 8
      PROVE  MaskedV6(net, len)[k] = net[k]
  <2>1. \A i \in 1 .. 8 : 8 * (k - 1) + i <= len
    BY <1>0, <1>2
  <2>2. net[k] = [i \in 1 .. 8 |-> net[k][i]]
    BY <1>1 DEF Byte
  <2>3. QED
    BY <1>1, <2>1, <2>2
<1>3. ASSUME left = 0
      PROVE  MaskedV6(net, len)[k] = ZeroByte
  <2>1. \A i \in 1 .. 8 : ~ (8 * (k - 1) + i <= len)
    BY <1>0, <1>3
  <2>2. QED
    BY <1>1, <2>1 DEF ZeroByte
<1>4. ASSUME left \in 1 .. 7
      PROVE  MaskedV6(net, len)[k] = [i \in 1 .. 8 |-> And(net[k][i], ByteShifted(8 - left)[i])]
  <2>1. ASSUME NEW i \in 1 .. 8
        PROVE  And(net[k][i], ByteShifted(8 - left)[i])
                 = IF 8 * (k - 1) + i <= len THEN net[k][i] ELSE 0
    <3>1. ByteShifted(8 - left)[i] = IF i <= left THEN 1 ELSE 0
      BY <1>4 DEF ByteShifted
    <3>2. i <= left <=> 8 * (k - 1) + i <= len
      BY <1>0, <1>4
    <3>3. net[k][i] \in Bit
      BY <1>1 DEF Byte
    <3>4. QED
      BY <3>1, <3>2, <3>3 DEF And, Bit
  <2>2. QED
    BY <1>1, <2>1
<1>5. QED
  BY <1>2, <1>3, <1>4 DEF left

-----------------------------------------------------------------------------
(* The number of the length.                                               *)

\* A negated number is a length exactly when it and the length fill the width.
LEMMA Negated ==
    ASSUME NEW d \in 0 .. ULongLimit - 1, NEW len \in 0 .. 128
    PROVE  (len + d) % ULongLimit = 0 <=> (ULongLimit - d) % ULongLimit = len
<1>1. /\ ULongLimit \in Nat /\ ULongLimit > 255 /\ d \in Nat /\ d < ULongLimit
      /\ len \in Nat /\ len < ULongLimit
  BY ULongAssumption
<1>2. CASE d = 0
  <2>1. len % ULongLimit = len /\ ULongLimit % ULongLimit = 0
    BY <1>1
  <2>2. QED
    BY <1>1, <1>2, <2>1
<1>3. CASE d > 0
  <2>1. (ULongLimit - d) % ULongLimit = ULongLimit - d
    BY <1>1, <1>3
  <2>2. CASE len + d < ULongLimit
    <3>1. (len + d) % ULongLimit = len + d
      BY <1>1, <2>2
    <3>2. QED
      BY <1>1, <1>3, <2>1, <2>2, <3>1
  <2>3. CASE len + d >= ULongLimit
    <3>1. (len + d) % ULongLimit = len + d - ULongLimit
      BY <1>1, <2>3
    <3>2. QED
      BY <1>1, <2>1, <3>1
  <2>4. QED
    BY <1>1, <2>2, <2>3
<1>4. QED
  BY <1>1, <1>2, <1>3

\* AcceptsExactly, without std::stoul, names the texts whose number is a length.
LEMMA AcceptedTexts ==
    ASSUME NEW t \in Text
    PROVE  Accepted(t) <=> WellFormed(t) \/ AcceptedAnyway(t)
<1>1. /\ LengthsOf(t) \subseteq 0 .. 128 /\ \A len \in LengthsOf(t) : len < ULongLimit
      /\ t.digits \in Nat \cup {NoNumber} /\ NoNumber \notin Nat
      /\ t.sign \in {"none", "plus", "minus"}
  BY ULongAssumption, ValuesAssumption DEF LengthsOf, Text
<1>2. CASE t.digits = NoNumber \/ t.digits >= ULongLimit
  <2>1. Stoul(t) \notin LengthsOf(t)
    BY <1>1, <1>2 DEF Stoul
  <2>2. t.digits \notin LengthsOf(t) /\ ~(t.digits # NoNumber /\ t.digits < ULongLimit)
    BY <1>1, <1>2, ULongAssumption
  <2>3. QED
    BY <2>1, <2>2 DEF Accepted, WellFormed, AcceptedAnyway
<1>3. CASE t.digits # NoNumber /\ t.digits < ULongLimit
  <2>1. t.digits \in 0 .. ULongLimit - 1
    BY <1>1, <1>3, ULongAssumption
  <2>2. CASE t.sign = "minus"
    <3>1. Stoul(t) = (ULongLimit - t.digits) % ULongLimit
      BY <1>3, <2>1, <2>2, ULongAssumption DEF Stoul
    <3>2. \A len \in LengthsOf(t) : (len + t.digits) % ULongLimit = 0 <=> Stoul(t) = len
      BY <1>1, <2>1, <3>1, Negated
    <3>3. QED
      BY <1>3, <2>2, <3>2 DEF Accepted, WellFormed, AcceptedAnyway, Decorated
  <2>3. CASE t.sign # "minus"
    BY <1>3, <2>1, <2>3, ULongAssumption DEF Stoul, Accepted, WellFormed, AcceptedAnyway
  <2>4. QED
    BY <2>2, <2>3
<1>4. QED
  BY <1>1, <1>2, <1>3, ULongAssumption

-----------------------------------------------------------------------------
(* The initial states and the steps.                                       *)

\* Before the first text nothing has been established.
LEMMA InitHolds == Init => IInv
<1>1. /\ ZeroV4 \in NetworkV4 /\ ZeroV6 \in NetworkV6
  BY DEF ZeroV4, ZeroV6, ZeroByte, NetworkV4, NetworkV6, Byte, Bit
<1>2. SUFFICES ASSUME Init PROVE IInv
  OBVIOUS
<1>3. text \in Text /\ SeparatorsInv
  BY <1>2, TextsAssumption DEF Init, SeparatorsInv
<1>4. TypeOK
  BY <1>1, <1>2, <1>3 DEF Init, TypeOK, Length
<1>5. QED
  BY <1>2, <1>3, <1>4 DEF Init, IInv, InferredInv, SplitInv, MaskV4Inv, MaskV6Inv,
     ParsedIsCanonical, AcceptsExactly, PrintedInv

\* What is accepted once the family is known.
LEMMA AcceptedByFamily ==
    ASSUME IInv, InferredFamily
    PROVE  /\ family = "V4" =>
                 (Accepted(text) <=>
                     text.slash /\ Stoul(text) \in 0 .. 32 /\ text.v4 # NoAddress)
           /\ family = "V6" =>
                 (Accepted(text) <=>
                     text.slash /\ Stoul(text) \in 0 .. 128 /\ text.v6 # NoAddress)
BY DEF IInv, SeparatorsInv, InferredFamily, Accepted, HasAddress, LengthsOf

\* Throwing at a text that is not accepted.
LEMMA ThrowKeeps ==
    ASSUME IInv, Throws, ~Accepted(text)
    PROVE  IInv'
<1>1. TypeOK'
  BY DEF IInv, TypeOK, Throws, input, v6mask
<1>2. AcceptsExactly'
  <2>1. text \in Text /\ text' = text /\ pc' = "thrown"
    BY DEF IInv, TypeOK, Throws, input
  <2>2. ~WellFormed(text) /\ ~AcceptedAnyway(text)
    BY <2>1, AcceptedTexts
  <2>3. QED
    BY <2>1, <2>2 DEF AcceptsExactly
<1>3. QED
  BY <1>1, <1>2 DEF IInv, SeparatorsInv, InferredInv, SplitInv, MaskV4Inv, MaskV6Inv,
     ParsedIsCanonical, PrintedInv, Throws, input, v6mask

\* Finding the family and splitting off the length.
LEMMA TextKeeps ==
    ASSUME IInv, InferFamily \/ InferThrows \/ SplitCidr \/ SplitThrows
    PROVE  IInv'
<1>1. CASE InferFamily
  <2>1. TypeOK'
    BY <1>1 DEF IInv, TypeOK, InferFamily, input, v6mask
  <2>2. QED
    BY <1>1, <2>1 DEF IInv, SeparatorsInv, InferredInv, InferredFamily, SplitInv,
       MaskV4Inv, MaskV6Inv, ParsedIsCanonical, AcceptsExactly, PrintedInv,
       InferFamily, input, v6mask
<1>2. CASE InferThrows
  <2>1. ~Accepted(text)
    BY <1>2 DEF IInv, SeparatorsInv, Accepted, HasAddress, InferThrows
  <2>2. QED
    BY <1>2, <2>1, ThrowKeeps DEF InferThrows
<1>3. CASE SplitCidr
  <2>1. TypeOK'
    BY <1>3 DEF IInv, TypeOK, SplitCidr, input, v6mask
  <2>2. QED
    BY <1>3, <2>1 DEF IInv, SeparatorsInv, InferredInv, InferredFamily, SplitInv,
       MaskV4Inv, MaskV6Inv, ParsedIsCanonical, AcceptsExactly, PrintedInv,
       SplitCidr, input, v6mask
<1>4. CASE SplitThrows
  <2>1. ~Accepted(text)
    BY <1>4 DEF Accepted, HasAddress, LengthsOf, SplitThrows, Length
  <2>2. QED
    BY <1>4, <2>1, ThrowKeeps DEF SplitThrows
<1>5. QED
  BY <1>1, <1>2, <1>3, <1>4

\* Reading the address.
LEMMA AddressKeeps ==
    ASSUME IInv, AddressV4 \/ AddressV6 \/ AddressThrows
    PROVE  IInv'
<1>1. InferredFamily /\ text.slash /\ Stoul(text) = length /\ length \in 0 .. 255 /\ text \in Text
  BY DEF IInv, InferredInv, SplitInv, AddressV4, AddressV6, AddressThrows, TypeOK, Length
<1>2. CASE AddressV4
  <2>1. TypeOK'
    BY <1>1, <1>2 DEF IInv, TypeOK, Text, AddressV4, input, v6mask
  <2>2. QED
    BY <1>1, <1>2, <2>1 DEF IInv, SeparatorsInv, InferredInv, InferredFamily, SplitInv,
       MaskV4Inv, MaskV6Inv, ParsedIsCanonical, AcceptsExactly, PrintedInv,
       AddressV4, input, v6mask
<1>3. CASE AddressV6
  <2>1. TypeOK'
    BY <1>1, <1>3 DEF IInv, TypeOK, Text, AddressV6, input
  <2>2. MaskV6Inv'
    BY <1>1, <1>3 DEF MaskV6Inv, BytesInv, BitsAt, AddressV6, input
  <2>3. QED
    BY <1>1, <1>3, <2>1, <2>2 DEF IInv, SeparatorsInv, InferredInv, InferredFamily,
       SplitInv, MaskV4Inv, ParsedIsCanonical, AcceptsExactly, PrintedInv,
       AddressV6, input
<1>4. CASE AddressThrows
  <2>1. ~Accepted(text)
    BY <1>1, <1>4, AcceptedByFamily DEF AddressThrows
  <2>2. QED
    BY <1>4, <2>1, ThrowKeeps DEF AddressThrows
<1>5. QED
  BY <1>2, <1>3, <1>4

\* The last step of a parse: the result is canonical and has its type.
LEMMA DoneKeeps ==
    ASSUME IInv, pc \in {"mask_v4", "mask_v6"}, pc' = "done",
           prefix' = Canonical(text), Accepted(text),
           prefix' \in PrefixV4 \cup PrefixV6,
           UNCHANGED <<input, family, length, network, v6mask>>
    PROVE  IInv'
<1>1. TypeOK'
  BY DEF IInv, TypeOK, input, v6mask
<1>2. AcceptsExactly'
  <2>1. text \in Text /\ text' = text
    BY DEF IInv, TypeOK, input
  <2>2. QED
    BY <2>1, AcceptedTexts DEF AcceptsExactly
<1>3. QED
  BY <1>1, <1>2 DEF IInv, SeparatorsInv, InferredInv, InferredFamily, SplitInv, MaskV4Inv,
     MaskV6Inv, ParsedIsCanonical, PrintedInv, input, v6mask

\* The IPv4 mask, with the shift by the full width that length 0 would take.
LEMMA MaskV4Keeps ==
    ASSUME IInv, MaskV4
    PROVE  IInv'
<1>1. /\ pc = "mask_v4" /\ family = "V4" /\ ~text.colon /\ text.slash
      /\ Stoul(text) = length /\ length \in 0 .. 32
      /\ text.v4 # NoAddress /\ network = text.v4 /\ network \in NetworkV4
  BY DEF MaskV4, IInv, TypeOK, Length, InferredInv, InferredFamily, SplitInv, MaskV4Inv
<1>2. prefix' = [family |-> "V4", network |-> MaskedV4(network, length), length |-> length]
  <2>1. CASE length = 0
    BY <1>1, <2>1, NoBitsKept DEF MaskV4, Returned
  <2>2. CASE length # 0
    <3>1. PICK mask \in OnesShifted(32 - length) :
             prefix' = Returned("V4", [i \in 1 .. 32 |-> And(network[i], mask[i])])
      BY <2>2 DEF MaskV4
    <3>2. length \in 1 .. 32
      BY <1>1, <2>2
    <3>3. [i \in 1 .. 32 |-> And(network[i], mask[i])] = MaskedV4(network, length)
      BY <1>1, <3>2, ShiftedMask
    <3>4. QED
      BY <3>1, <3>3 DEF Returned
  <2>3. QED
    BY <2>1, <2>2
<1>3. prefix' = Canonical(text)
  BY <1>1, <1>2 DEF Canonical
<1>4. prefix' \in PrefixV4
  BY <1>1, <1>2, MaskedTypes DEF PrefixV4
<1>5. Accepted(text)
  BY <1>1 DEF IInv, SeparatorsInv, Accepted, HasAddress, LengthsOf
<1>6. QED
  BY <1>1, <1>3, <1>4, <1>5, DoneKeeps DEF MaskV4

\* One iteration of the loop puts the masked byte in its place.
LEMMA ByteKeeps ==
    ASSUME IInv, KeepByte \/ ClearByte \/ CutByte
    PROVE  IInv'
<1>1. /\ pc = "mask_v6" /\ index \in 1 .. 16 /\ bits_left \in 0 .. 128
      /\ length \in 0 .. 128 /\ bits_left = BitsAt(length, index) /\ BytesInv
      /\ bytes \in NetworkV6 /\ text.v6 \in NetworkV6 /\ text.v6 # NoAddress
  BY DEF KeepByte, ClearByte, CutByte, AtByte, IInv, TypeOK, Length, Text, MaskV6Inv
<1>2. /\ index' = index + 1
      /\ UNCHANGED <<input, pc, family, length, network, prefix>>
  BY DEF KeepByte, ClearByte, CutByte, NextByte
<1>3. bytes[index] = text.v6[index]
  BY <1>1 DEF BytesInv
<1> DEFINE masked == MaskedV6(text.v6, length)[index]
<1>4. length \in Nat
  BY <1>1
<1>5. /\ bits_left >= 8 => masked = text.v6[index]
      /\ bits_left = 0 => masked = ZeroByte
      /\ bits_left \in 1 .. 7 =>
            masked = [i \in 1 .. 8 |-> And(text.v6[index][i], ByteShifted(8 - bits_left)[i])]
  <2>1. bits_left = BitsAt(length, index) /\ index \in 1 .. 16 /\ text.v6 \in NetworkV6
    BY <1>1
  <2>2. /\ BitsAt(length, index) >= 8 => masked = text.v6[index]
        /\ BitsAt(length, index) = 0 => masked = ZeroByte
        /\ BitsAt(length, index) \in 1 .. 7 =>
              masked = [i \in 1 .. 8 |->
                          And(text.v6[index][i], ByteShifted(8 - BitsAt(length, index))[i])]
    BY <1>4, <2>1, MaskedByte, Zenon
  <2>3. QED
    BY <2>1, <2>2, Zenon
<1>6. masked \in Byte
  BY <1>1, <1>4, MaskedTypes DEF NetworkV6
<1>7. \A k \in 1 .. 16 : k = index => MaskedV6(text.v6, length)[k] = masked
  OBVIOUS
<1> HIDE DEF masked
<1>8. /\ bytes' = [bytes EXCEPT ![index] = masked]
      /\ bits_left' = (IF bits_left >= 8 THEN bits_left - 8 ELSE 0)
  <2>1. CASE KeepByte
    BY <1>1, <1>3, <1>5, <2>1 DEF KeepByte, NetworkV6
  <2>2. CASE ClearByte
    <3>1. masked = ZeroByte
      BY <1>5, <2>2 DEF ClearByte
    <3>2. QED
      BY <2>2, <3>1 DEF ClearByte
  <2>3. CASE CutByte
    <3>1. bytes' = [bytes EXCEPT ![index] =
                      [i \in 1 .. 8 |-> And(bytes[index][i], ByteShifted(8 - bits_left)[i])]]
      BY <2>3 DEF CutByte
    <3>2. bits_left \in 1 .. 7 /\ bits_left' = 0
      BY <2>3 DEF CutByte
    <3>3. masked = [i \in 1 .. 8 |-> And(bytes[index][i], ByteShifted(8 - bits_left)[i])]
      BY <1>3, <1>5, <3>2
    <3>4. QED
      BY <3>1, <3>2, <3>3
  <2>4. QED
    BY <2>1, <2>2, <2>3
<1>9. bytes' \in NetworkV6
  BY <1>1, <1>6, <1>8 DEF NetworkV6
<1>10. bits_left' = BitsAt(length', index') /\ bits_left' \in 0 .. 128
  BY <1>1, <1>2, <1>8 DEF BitsAt
<1>11. BytesInv'
  BY <1>1, <1>2, <1>7, <1>8 DEF BytesInv, NetworkV6, input
<1>12. TypeOK'
  BY <1>1, <1>2, <1>9, <1>10 DEF IInv, TypeOK, input
<1>13. QED
  BY <1>1, <1>2, <1>10, <1>11, <1>12 DEF IInv, SeparatorsInv, InferredInv, InferredFamily,
     SplitInv, MaskV4Inv, MaskV6Inv, ParsedIsCanonical, AcceptsExactly, PrintedInv, input

\* After its last byte the IPv6 mask has kept the leading bits and no others.
LEMMA MaskV6Keeps ==
    ASSUME IInv, MaskV6Ends
    PROVE  IInv'
<1>1. /\ pc = "mask_v6" /\ index = 17 /\ family = "V6" /\ text.colon /\ text.slash
      /\ Stoul(text) = length /\ length \in 0 .. 128
      /\ text.v6 # NoAddress /\ text.v6 \in NetworkV6
      /\ BytesInv /\ bytes \in NetworkV6
  BY DEF MaskV6Ends, IInv, TypeOK, Text, Length, InferredInv, InferredFamily, SplitInv, MaskV6Inv
<1>2. bytes = MaskedV6(text.v6, length)
  <2>1. length \in Nat
    BY <1>1
  <2>2. MaskedV6(text.v6, length) \in NetworkV6
    BY <1>1, <2>1, MaskedTypes
  <2>3. \A k \in 1 .. 16 : bytes[k] = MaskedV6(text.v6, length)[k]
    BY <1>1 DEF BytesInv
  <2>4. QED
    BY <1>1, <2>2, <2>3 DEF NetworkV6
<1>3. prefix' = Canonical(text)
  BY <1>1, <1>2 DEF Canonical, MaskV6Ends, Returned
<1>4. prefix' \in PrefixV6
  BY <1>1 DEF PrefixV6, MaskV6Ends, Returned
<1>5. Accepted(text)
  BY <1>1 DEF IInv, SeparatorsInv, Accepted, HasAddress, LengthsOf
<1>6. QED
  BY <1>1, <1>3, <1>4, <1>5, DoneKeeps DEF MaskV6Ends

\* to_string of a canonical prefix is a text of that prefix.
LEMMA PrintKeeps ==
    ASSUME IInv, PrintAndParse
    PROVE  IInv'
<1>1. /\ pc = "done" /\ prefix = Canonical(text) /\ Accepted(text) /\ text \in Text
      /\ SeparatorsInv /\ InferredFamily /\ Stoul(text) = length
  <2>1. text \in Text /\ (WellFormed(text) \/ AcceptedAnyway(text))
    BY DEF PrintAndParse, IInv, TypeOK, AcceptsExactly
  <2>2. Accepted(text)
    BY <2>1, AcceptedTexts
  <2>3. QED
    BY <2>1, <2>2 DEF PrintAndParse, IInv, ParsedIsCanonical, InferredInv, SplitInv
<1>2. PICK dotted \in BOOLEAN : text' = ToString(prefix, dotted)
  BY DEF PrintAndParse
<1>3. /\ prefix \in PrefixV4 \cup PrefixV6
      /\ text' \in Text /\ SeparatorsInv' /\ Accepted(text') /\ Canonical(text') = prefix
      /\ prefix.family = (IF text'.colon THEN "V6" ELSE "V4") /\ (text'.colon \/ text'.dot)
  <2>1. CASE text.colon
    <3>1. /\ Stoul(text) \in 0 .. 128 /\ Stoul(text) \in Nat /\ text.v6 \in NetworkV6
          /\ MaskedV6(text.v6, Stoul(text)) \in NetworkV6
      <4>1. Stoul(text) \in 0 .. 128 /\ text.v6 \in NetworkV6
        BY <1>1, <2>1 DEF Accepted, HasAddress, LengthsOf, SeparatorsInv, Text
      <4>2. Stoul(text) \in Nat
        BY <4>1
      <4>3. QED
        BY <4>1, <4>2, MaskedTypes
    <3>2. /\ prefix.family = "V6" /\ prefix.length = Stoul(text)
          /\ prefix.network = MaskedV6(text.v6, Stoul(text))
          /\ prefix \in PrefixV6
      BY <1>1, <2>1, <3>1 DEF Canonical, PrefixV6
    <3>3. prefix.network \in NetworkV6 /\ prefix.network # NoAddress
      BY <3>2, ValuesAssumption DEF PrefixV6
    <3>4. text' = [slash |-> TRUE, colon |-> TRUE, dot |-> dotted, blanks |-> FALSE,
                   sign |-> "none", digits |-> prefix.length, rest |-> FALSE,
                   v4 |-> NoAddress, v6 |-> prefix.network]
      BY <1>2, <3>2 DEF ToString
    <3>5. text' \in Text
      BY <3>1, <3>2, <3>3, <3>4 DEF Text
    <3>6. Stoul(text') = prefix.length
      BY <3>1, <3>2, <3>4, ULongAssumption, ValuesAssumption DEF Stoul
    <3>7. SeparatorsInv' /\ Accepted(text')
      BY <3>1, <3>2, <3>3, <3>4, <3>6 DEF SeparatorsInv, Accepted, HasAddress, LengthsOf
    <3>8. MaskedV6(prefix.network, prefix.length) = prefix.network
      BY <3>1, <3>2, MaskedTwice
    <3>9. Canonical(text') = [family |-> "V6", network |-> prefix.network, length |-> prefix.length]
      BY <3>4, <3>6, <3>8 DEF Canonical
    <3>10. QED
      BY <3>2, <3>4, <3>5, <3>7, <3>9 DEF PrefixV6
  <2>2. CASE ~text.colon
    <3>1. /\ Stoul(text) \in 0 .. 32 /\ Stoul(text) \in Nat /\ text.v4 \in NetworkV4
          /\ MaskedV4(text.v4, Stoul(text)) \in NetworkV4
      <4>1. Stoul(text) \in 0 .. 32 /\ text.v4 \in NetworkV4
        BY <1>1, <2>2 DEF Accepted, HasAddress, LengthsOf, SeparatorsInv, Text
      <4>2. Stoul(text) \in Nat
        BY <4>1
      <4>3. QED
        BY <4>1, <4>2, MaskedTypes
    <3>2. /\ prefix.family = "V4" /\ prefix.length = Stoul(text)
          /\ prefix.network = MaskedV4(text.v4, Stoul(text))
          /\ prefix \in PrefixV4
      BY <1>1, <2>2, <3>1 DEF Canonical, PrefixV4
    <3>3. prefix.network \in NetworkV4 /\ prefix.network # NoAddress
      BY <3>2, ValuesAssumption DEF PrefixV4
    <3>4. text' = [slash |-> TRUE, colon |-> FALSE, dot |-> TRUE, blanks |-> FALSE,
                   sign |-> "none", digits |-> prefix.length, rest |-> FALSE,
                   v4 |-> prefix.network, v6 |-> NoAddress]
      BY <1>2, <3>2 DEF ToString
    <3>5. text' \in Text
      BY <3>1, <3>2, <3>3, <3>4 DEF Text
    <3>6. Stoul(text') = prefix.length
      BY <3>1, <3>2, <3>4, ULongAssumption, ValuesAssumption DEF Stoul
    <3>7. SeparatorsInv' /\ Accepted(text')
      BY <3>1, <3>2, <3>3, <3>4, <3>6 DEF SeparatorsInv, Accepted, HasAddress, LengthsOf
    <3>8. MaskedV4(prefix.network, prefix.length) = prefix.network
      BY <3>1, <3>2, MaskedTwice
    <3>9. Canonical(text') = [family |-> "V4", network |-> prefix.network, length |-> prefix.length]
      BY <3>4, <3>6, <3>8 DEF Canonical
    <3>10. QED
      BY <3>2, <3>4, <3>5, <3>7, <3>9 DEF PrefixV4
  <2>3. QED
    BY <2>1, <2>2
<1>4. TypeOK'
  BY <1>3 DEF PrintAndParse, IInv, TypeOK, v6mask
<1>5. QED
  BY <1>3, <1>4 DEF PrintAndParse, IInv, InferredInv, InferredFamily, SplitInv, MaskV4Inv,
     MaskV6Inv, ParsedIsCanonical, AcceptsExactly, PrintedInv

\* Nothing changes, nothing breaks.
LEMMA StutterKeeps ==
    ASSUME IInv, UNCHANGED vars
    PROVE  IInv'
<1>1. TypeOK'
  BY DEF IInv, TypeOK, vars, input, v6mask
<1>2. MaskV6Inv'
  BY DEF IInv, MaskV6Inv, BytesInv, BitsAt, vars, input, v6mask
<1>3. QED
  BY <1>1, <1>2 DEF IInv, SeparatorsInv, InferredInv, InferredFamily, SplitInv, MaskV4Inv,
     ParsedIsCanonical, AcceptsExactly, PrintedInv, vars, input, v6mask

\* Each point of parse_prefix has established what IInv says of it.
THEOREM InvariantHolds == Spec => []IInv
<1>1. IInv /\ [Next]_vars => IInv'
  BY TextKeeps, AddressKeeps, MaskV4Keeps, ByteKeeps, MaskV6Keeps, PrintKeeps, StutterKeeps
  DEF Next, Parse
<1>2. QED
  BY InitHolds, <1>1, PTL DEF Spec

-----------------------------------------------------------------------------
(* The properties.                                                         *)

\* Every variable of parse_prefix keeps its C++ type: bits_left never wraps.
THEOREM TypesHold == Spec => []TypeOK
<1>1. IInv => TypeOK
  BY DEF IInv
<1>2. QED
  BY InvariantHolds, <1>1, PTL

\* parse_prefix returns the address with exactly its first length bits, for every
\* address, length and family.
THEOREM ParsedStaysCanonical == Spec => []ParsedIsCanonical
<1>1. IInv => ParsedIsCanonical
  BY DEF IInv
<1>2. QED
  BY InvariantHolds, <1>1, PTL

\* parse_prefix returns for the well-formed texts, for those that std::stoul reads as
\* one though they are not, and for no others.
THEOREM AcceptedAreExactly == Spec => []AcceptsExactly
<1>1. IInv => AcceptsExactly
  BY DEF IInv
<1>2. QED
  BY InvariantHolds, <1>1, PTL

\* The printed form of every parsed prefix parses to the same key: what a snapshot
\* stores is what is restored.
THEOREM SnapshotKeysSurvive == Spec => []RoundTrip
<1>1. IInv => RoundTrip
  <2>1. ASSUME IInv, Accepted(text)
        PROVE  WellFormed(text) \/ AcceptedAnyway(text)
    BY <2>1, AcceptedTexts DEF IInv, TypeOK
  <2>2. QED
    BY <2>1 DEF IInv, ParsedIsCanonical, AcceptsExactly, PrintedInv, RoundTrip
<1>2. QED
  BY InvariantHolds, <1>1, PTL

=============================================================================
