SPECIFICATION FairLifeSpec
CONSTANTS
    Proc = {p1, p2}
    First = p1
    Main = main
    Nobody = Nobody
    Writer = {main, r1}
    Worker = {k1}
    MaxJobs = 1
    MaxStops = 1
    MaxRequests = 2
    MaxWrites = 5
    MaxFaults = 1
    Configs <- MCConfigs
INVARIANTS LifeTypeOK FlushHandsOverAll LateWritesHarmless NoUseAfterClose LogoutHolds SecondDirFree
PROPERTY StopEnds
CHECK_DEADLOCK FALSE
