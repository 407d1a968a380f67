SPECIFICATION Spec
CONSTANTS
    MaxVersion = 3
    MaxFaults = 2
    MaxCrashes = 2
INVARIANTS TypeOK InstallSurvives
PROPERTIES BackupOutlivesSwap
CHECK_DEADLOCK FALSE
