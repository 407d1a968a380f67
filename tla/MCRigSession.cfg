SPECIFICATION FairSpec
CONSTANTS
    telemetry = telemetry
    fallback = fallback
    Loops <- MCLoops
    Telemetry = telemetry
    MaxRigs = 2
    MaxFaults = 1
    MaxCrashes = 1
INVARIANTS TypeOK TokenMatchesRig 
PROPERTIES LiveRigsKept DeletedRigForgotten EnrolledGetsConnected
CHECK_DEADLOCK FALSE
