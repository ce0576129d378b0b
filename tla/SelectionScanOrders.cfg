\* Every set of up to four counters with values up to three, in every order.
CONSTANTS
    CountedAsns <- FourAsns
    MaxCount = 3
SPECIFICATION Spec
INVARIANTS OrderDoesNotMatter
\* The loop ends.
CHECK_DEADLOCK FALSE
