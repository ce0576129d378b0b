\* Connections die silently.
CONSTANTS
    InitialDelay = 1
    MaxDelay = 2
    AttemptLimits = {0}
    SleepChunk = 3
    SizeLimit = 64
    AttemptCap = 2
    DropKinds <- SilentOnly
SPECIFICATION FairSpec
PROPERTIES StopTerminates
\* The process ends.
CHECK_DEADLOCK FALSE
