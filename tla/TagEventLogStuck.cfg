CONSTANTS
    Paths = {"a"}
    TagSets <- MCTagSets
    Replayers = {"tagUI"}
    LineLen = 8
    PartLen = 1
    MaxEvents = 3
    MaxStops = 0
    NoProc = NoProc
SPECIFICATION FairSpec
PROPERTY EveryEventApplied
