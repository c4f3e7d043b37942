CONSTANTS
    Paths = {"a"}
    TagSets <- MCTagSets
    Replayers = {"tagUI", "tagctl"}
    LineLen = 4
    PartLen = 1
    MaxEvents = 4
    MaxStops = 2
    NoProc = NoProc
SPECIFICATION FairSpec
INVARIANT TypeOK
INVARIANT CheckpointCovers
INVARIANT MarkedWasApplied
PROPERTY LogOnlyGrows
PROPERTY AppliedUnlessShifted
