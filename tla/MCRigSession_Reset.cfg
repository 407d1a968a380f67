SPECIFICATION FairSpec
CONSTANTS
    telemetry = telemetry
    fallback = fallback
    Loops <- MCLoops
    Telemetry = telemetry
    MaxRigs = 2
    MaxFaults = 0
    MaxCrashes = 0
PROPERTIES OnlyDeadRigsCleared
CHECK_DEADLOCK FALSE
