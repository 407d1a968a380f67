SPECIFICATION Spec
CONSTANTS
    MaxVersion = 3
    MaxFaults = 0
    MaxCrashes = 1
INVARIANTS CrashesHarmless
CHECK_DEADLOCK FALSE
