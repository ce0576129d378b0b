----------------------------- MODULE BinaryPrefix -----------------------------
(***************************************************************************)
(* parse_prefix of prefix.cpp, and to_string with the parse that reads its *)
(* result back: the way of every key of RoutingState, out of a message and *)
(* through a snapshot.  A text is what the code looks for in it; an        *)
(* address is its bits, the most significant first.                        *)
(***************************************************************************)
EXTENDS Integers

CONSTANTS
    Texts,       \* what parse_prefix may be called with
    ULongLimit,  \* the first number that does not fit an unsigned long
    NoNumber,    \* std::stoul finds no number, or one out of range
    NoAddress,   \* inet_pton does not accept the text
    NoPrefix

Bit       == {0, 1}
NetworkV4 == [1 .. 32 -> Bit]            \* uint32_t in host order
Byte      == [1 .. 8 -> Bit]
NetworkV6 == [1 .. 16 -> Byte]           \* std::array<uint8_t, 16>
Length    == 0 .. 255                    \* uint8_t

PrefixV4 == [family : {"V4"}, network : NetworkV4, length : 0 .. 32]
PrefixV6 == [family : {"V6"}, network : NetworkV6, length : 0 .. 128]

ASSUME ULongAssumption == ULongLimit \in Nat /\ ULongLimit > 255
ASSUME ValuesAssumption ==
    NoNumber \notin Nat /\ NoAddress \notin NetworkV4 \cup NetworkV6
        /\ NoPrefix \notin PrefixV4 \cup PrefixV6

\* slash, colon, dot: what find finds, the last two before the slash. After it come
\* blanks or not, a sign or none, digits with their value, and some rest or none.
\* v4, v6: what inet_pton makes of the address.
Text ==
    [slash : BOOLEAN, colon : BOOLEAN, dot : BOOLEAN,
     blanks : BOOLEAN, sign : {"none", "plus", "minus"},
     digits : Nat \cup {NoNumber}, rest : BOOLEAN,
     v4 : NetworkV4 \cup {NoAddress}, v6 : NetworkV6 \cup {NoAddress}]

\* Addresses of a family have its separators.
ASSUME TextsAssumption ==
    /\ Texts \subseteq Text
    /\ \A t \in Texts :
          /\ t.v4 # NoAddress => t.dot /\ ~t.colon
          /\ t.v6 # NoAddress => t.colon

VARIABLES
    text,            \* cidr_text
    pc,              \* where parse_prefix is; "done" or "thrown" at its end
    family,
    length,
    network,         \* host_order of parse_prefix_v4
    bytes,           \* network of apply_mask_v6
    index, bits_left,
    prefix,          \* what is returned
    printed          \* the prefix to_string was called for

input  == <<text, printed>>
v6mask == <<bytes, index, bits_left>>
vars   == <<input, pc, family, length, network, v6mask, prefix>>

ZeroV4   == [i \in 1 .. 32 |-> 0]
ZeroByte == [i \in 1 .. 8 |-> 0]
ZeroV6   == [k \in 1 .. 16 |-> ZeroByte]

Init ==
    /\ text \in Texts
    /\ pc = "infer"
    /\ family = "V4" /\ length = 0
    /\ network = ZeroV4
    /\ bytes = ZeroV6 /\ index = 1 /\ bits_left = 0
    /\ prefix = NoPrefix /\ printed = NoPrefix

Throws ==
    /\ pc' = "thrown"
    /\ UNCHANGED <<input, family, length, network, v6mask, prefix>>

-----------------------------------------------------------------------------
(* The text.                                                               *)

\* An IPv6 address may hold dots, too.
InferFamily ==
    /\ pc = "infer"
    /\ text.colon \/ text.dot
    /\ family' = IF text.colon THEN "V6" ELSE "V4"
    /\ pc' = "split"
    /\ UNCHANGED <<input, length, network, v6mask, prefix>>

InferThrows == pc = "infer" /\ ~text.colon /\ ~text.dot /\ Throws

\* std::stoul skips blanks, takes a sign, wraps what a minus negates, and ignores
\* what follows the digits.
Stoul(t) ==
    IF t.digits = NoNumber \/ t.digits >= ULongLimit THEN NoNumber
    ELSE IF t.sign = "minus" THEN (ULongLimit - t.digits) % ULongLimit
    ELSE t.digits

\* Mutant: the length is narrowed before it is compared.
SplitCidrNarrows ==
    /\ pc = "split"
    /\ text.slash /\ Stoul(text) # NoNumber
    /\ length' = Stoul(text) % 256
    /\ pc' = "address"
    /\ UNCHANGED <<input, family, network, v6mask, prefix>>

\* A number above 255 is no Length, NoNumber neither.
SplitCidr ==
    /\ pc = "split"
    /\ text.slash /\ Stoul(text) \in Length
    /\ length' = Stoul(text)
    /\ pc' = "address"
    /\ UNCHANGED <<input, family, network, v6mask, prefix>>

SplitThrows ==
    /\ pc = "split"
    /\ ~text.slash \/ Stoul(text) \notin Length
    /\ Throws

AddressV4 ==
    /\ pc = "address" /\ family = "V4"
    /\ length <= 32 /\ text.v4 # NoAddress
    /\ network' = text.v4
    /\ pc' = "mask_v4"
    /\ UNCHANGED <<input, family, length, v6mask, prefix>>

AddressV6 ==
    /\ pc = "address" /\ family = "V6"
    /\ length <= 128 /\ text.v6 # NoAddress
    /\ bytes' = text.v6 /\ index' = 1 /\ bits_left' = length
    /\ pc' = "mask_v6"
    /\ UNCHANGED <<input, family, length, network, prefix>>

AddressThrows ==
    /\ pc = "address"
    /\ \/ family = "V4" /\ (length > 32 \/ text.v4 = NoAddress)
       \/ family = "V6" /\ (length > 128 \/ text.v6 = NoAddress)
    /\ Throws

-----------------------------------------------------------------------------
(* The mask.                                                               *)

And(x, y) == IF x = 1 THEN y ELSE 0

\* 0xFFFFFFFF << count.  A shift by the width is undefined: processors leave the
\* value as it is or shift everything out.
OnesShifted(count) ==
    IF count < 32
    THEN {[i \in 1 .. 32 |-> IF i + count <= 32 THEN 1 ELSE 0]}
    ELSE {[i \in 1 .. 32 |-> 1], ZeroV4}

Returned(fam, net) == [family |-> fam, network |-> net, length |-> length]

\* Mutant: length 0 is shifted like any other.
MaskV4Unguarded ==
    /\ pc = "mask_v4"
    /\ \E mask \in OnesShifted(32 - length) :
          prefix' = Returned("V4", [i \in 1 .. 32 |-> And(network[i], mask[i])])
    /\ pc' = "done"
    /\ UNCHANGED <<input, family, length, network, v6mask>>

MaskV4 ==
    /\ pc = "mask_v4"
    /\ IF length = 0
       THEN prefix' = Returned("V4", ZeroV4)
       ELSE \E mask \in OnesShifted(32 - length) :
               prefix' = Returned("V4", [i \in 1 .. 32 |-> And(network[i], mask[i])])
    /\ pc' = "done"
    /\ UNCHANGED <<input, family, length, network, v6mask>>

\* The low byte of 0xFF << count, for counts below 8.
ByteShifted(count) == [i \in 1 .. 8 |-> IF i + count <= 8 THEN 1 ELSE 0]

AtByte == pc = "mask_v6" /\ index <= 16

NextByte ==
    /\ index' = index + 1
    /\ UNCHANGED <<input, pc, family, length, network, prefix>>

KeepByte ==
    /\ AtByte
    /\ bits_left >= 8
    /\ bits_left' = bits_left - 8
    /\ UNCHANGED bytes
    /\ NextByte

ClearByte ==
    /\ AtByte
    /\ bits_left = 0
    /\ bytes' = [bytes EXCEPT ![index] = ZeroByte]
    /\ UNCHANGED bits_left
    /\ NextByte

\* Mutant: bits_left stays, the bytes after this one are cut like it.
CutByteAndNext ==
    /\ AtByte
    /\ bits_left \in 1 .. 7
    /\ bytes' = [bytes EXCEPT ![index] =
                    [i \in 1 .. 8 |-> And(@[i], ByteShifted(8 - bits_left)[i])]]
    /\ UNCHANGED bits_left
    /\ NextByte

CutByte ==
    /\ AtByte
    /\ bits_left \in 1 .. 7
    /\ bytes' = [bytes EXCEPT ![index] =
                    [i \in 1 .. 8 |-> And(@[i], ByteShifted(8 - bits_left)[i])]]
    /\ bits_left' = 0
    /\ NextByte

MaskV6Ends ==
    /\ pc = "mask_v6" /\ index = 17
    /\ prefix' = Returned("V6", bytes)
    /\ pc' = "done"
    /\ UNCHANGED <<input, family, length, network, v6mask>>

-----------------------------------------------------------------------------
(* to_string, as save_snapshot calls it, and the parse that load_snapshot  *)
(* picks by the family it finds before the text.                           *)

\* inet_ntop prints what inet_pton reads back; an IPv6 address with or without dots.
ToString(p, dotted) ==
    [slash |-> TRUE, colon |-> p.family = "V6", dot |-> p.family = "V4" \/ dotted,
     blanks |-> FALSE, sign |-> "none", digits |-> p.length, rest |-> FALSE,
     v4 |-> IF p.family = "V4" THEN p.network ELSE NoAddress,
     v6 |-> IF p.family = "V6" THEN p.network ELSE NoAddress]

PrintAndParse ==
    /\ pc = "done" /\ printed = NoPrefix
    /\ \E dotted \in BOOLEAN : text' = ToString(prefix, dotted)
    /\ printed' = prefix
    /\ family' = prefix.family
    /\ pc' = "split"
    /\ UNCHANGED <<length, network, v6mask, prefix>>

Parse ==
    \/ InferFamily \/ InferThrows \/ SplitCidr \/ SplitThrows
    \/ AddressV4 \/ AddressV6 \/ AddressThrows
    \/ MaskV4 \/ KeepByte \/ ClearByte \/ CutByte \/ MaskV6Ends

Next == Parse \/ PrintAndParse

Spec == Init /\ [][Next]_vars

-----------------------------------------------------------------------------
(* Properties.                                                             *)

\* Every variable has a value of its C++ type; bits_left does not wrap.
TypeOK ==
    /\ text \in Text
    /\ pc \in {"infer", "split", "address", "mask_v4", "mask_v6", "done", "thrown"}
    /\ family \in {"V4", "V6"}
    /\ length \in Length
    /\ network \in NetworkV4
    /\ bytes \in NetworkV6 /\ index \in 1 .. 17 /\ bits_left \in 0 .. 128
    /\ prefix \in PrefixV4 \cup PrefixV6 \cup {NoPrefix}
    /\ printed \in PrefixV4 \cup PrefixV6 \cup {NoPrefix}

MaskedV4(net, len) == [i \in 1 .. 32 |-> IF i <= len THEN net[i] ELSE 0]

MaskedV6(net, len) ==
    [k \in 1 .. 16 |-> [i \in 1 .. 8 |-> IF 8 * (k - 1) + i <= len THEN net[k][i] ELSE 0]]

Canonical(t) ==
    IF t.colon
    THEN [family |-> "V6", network |-> MaskedV6(t.v6, Stoul(t)), length |-> Stoul(t)]
    ELSE [family |-> "V4", network |-> MaskedV4(t.v4, Stoul(t)), length |-> Stoul(t)]

\* The key is the address with exactly its first length bits, so texts of one network
\* give one key, whatever host bits they carry, from 0/0 to a full host length.
ParsedIsCanonical == pc = "done" => prefix = Canonical(text)

LengthsOf(t) == IF t.v4 # NoAddress THEN 0 .. 32 ELSE 0 .. 128

HasAddress(t) == t.slash /\ (t.v4 # NoAddress \/ t.v6 # NoAddress)

Decorated(t) == t.blanks \/ t.rest \/ t.sign # "none"

\* A prefix as one writes it: an address, a slash and the digits of a length.
WellFormed(t) == HasAddress(t) /\ ~Decorated(t) /\ t.digits \in LengthsOf(t)

\* What passes as well: "/ 24", "/+24", "/24abc", and a negated number that is a
\* length once it has wrapped.
AcceptedAnyway(t) ==
    /\ HasAddress(t) /\ Decorated(t)
    /\ t.digits # NoNumber /\ t.digits < ULongLimit
    /\ IF t.sign = "minus"
       THEN \E len \in LengthsOf(t) : (len + t.digits) % ULongLimit = 0
       ELSE t.digits \in LengthsOf(t)

\* parse_prefix accepts every well-formed text and, by the leniency of std::stoul,
\* the decorated ones above, which are malformed and not thrown. It throws for all
\* others: no length is narrowed into the range, and no address goes to the parser
\* of the other family (split_cidr, parse_prefix_v4, parse_prefix_v6).
AcceptsExactly ==
    /\ pc = "done" => WellFormed(text) \/ AcceptedAnyway(text)
    /\ pc = "thrown" => ~WellFormed(text) /\ ~AcceptedAnyway(text)

\* What a snapshot stores is the same key when it is loaded (to_string, load_snapshot).
RoundTrip ==
    printed # NoPrefix => pc # "thrown" /\ (pc = "done" => prefix = printed)

=============================================================================
