\* The real widths of addresses, two addresses of each family, every length and some
\* beyond. An unsigned long of 10 bits, four times what the code compares with.
CONSTANTS
    ULongLimit = 1024
    NoNumber = NoNumber   NoAddress = NoAddress   NoPrefix = NoPrefix
    Texts <- AllTexts
SPECIFICATION Spec
INVARIANTS ParsedIsCanonical AcceptsExactly RoundTrip
\* parse_prefix ends.
CHECK_DEADLOCK FALSE
