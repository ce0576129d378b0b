\* Reconnecting off, on without limit, or on with five attempts per outage; delays
\* 2, 4, 8, 12, 12, slept in chunks of up to 3; every kind of drop.
CONSTANTS
    InitialDelay = 2
    MaxDelay = 12
    AttemptLimits = {0, 5}
    SleepChunk = 3
    SizeLimit = 64
    AttemptCap = 7
    DropKinds <- AnyDrop
SPECIFICATION FairSpec
INVARIANTS TypeOK ReadsOnlySubscribed OneWholeMessage BackoffIsExponential GivesUpWhenExhausted
PROPERTIES NoConnectAfterStop StopTerminatesIfNoticed Recovers ImplementsMessageSource
\* The process ends.
CHECK_DEADLOCK FALSE
