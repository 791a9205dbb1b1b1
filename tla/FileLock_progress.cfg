SPECIFICATION FairSpec
CONSTANTS
    p1 = p1
    p2 = p2
    p3 = p3
    Processes <- TwoProcesses
    MaxSaves = 1
PROPERTIES
    EveryOKAnswered
    AloneGetsIn
