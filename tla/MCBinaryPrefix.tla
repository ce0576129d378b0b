---------------------------- MODULE MCBinaryPrefix ----------------------------
(* Small instances of BinaryPrefix for TLC. *)
EXTENDS BinaryPrefix

SomeV4 == {[i \in 1 .. 32 |-> 1], [i \in 1 .. 32 |-> i % 2]}
SomeV6 == {[k \in 1 .. 16 |-> [i \in 1 .. 8 |-> 1]], [k \in 1 .. 16 |-> [i \in 1 .. 8 |-> (i + k) % 2]]}

\* Numbers above 255 that narrowing would make lengths, and with ULongLimit = 1024
\* the ones that a minus wraps into the range or out of it.
Numbers == (0 .. 130) \cup {255, 256, 280, NoNumber}
FewNumbers == {0, 24, 33, 129, 256, 1000, 1023, 1024, NoNumber}

Separated(slash, colon, dot, digits) ==
    [slash |-> slash, colon |-> colon, dot |-> dot,
     blanks |-> FALSE, sign |-> "none", digits |-> digits, rest |-> FALSE,
     v4 |-> NoAddress, v6 |-> NoAddress]

\* Addresses of both families with every length.
PlainTexts ==
    {[Separated(slash, FALSE, TRUE, digits) EXCEPT !.v4 = net] :
        slash \in BOOLEAN, digits \in Numbers, net \in SomeV4}
    \cup {[Separated(slash, TRUE, dot, digits) EXCEPT !.v6 = net] :
        slash \in BOOLEAN, dot \in BOOLEAN, digits \in Numbers, net \in SomeV6}

\* The leniency of std::stoul, and texts without an address.
OtherTexts ==
    {[t EXCEPT !.digits = digits, !.blanks = blanks, !.sign = sign, !.rest = rest] :
        t \in {u \in PlainTexts : u.digits = 8}, digits \in FewNumbers,
        blanks \in BOOLEAN, sign \in {"none", "plus", "minus"}, rest \in BOOLEAN}
    \cup {Separated(slash, colon, dot, digits) :
        slash \in BOOLEAN, colon \in BOOLEAN, dot \in BOOLEAN, digits \in {0, 8, NoNumber}}

AllTexts == PlainTexts \cup OtherTexts

=============================================================================
