SPECIFICATION FairSpec
CONSTANTS
    w1 = w1
    w2 = w2
    m = m
    s1 = s1
    s2 = s2
    s3 = s3
    Calls <- MCCalls
    Tool <- MCTool
    Profiles <- MCProfiles
    MaxRounds = 3
    MaxQueue = 2
    MaxFaults = 1
INVARIANTS TypeOK ChangesApproved EndedTurnGone RowSettled StopHeeded
PROPERTIES ChannelOrdered TurnEnds
