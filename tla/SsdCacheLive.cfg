CONSTANTS
    Paths = {"a", "b"}
    Passes = {"ticker"}
    EvictFlags = {TRUE}
    Quiet = TRUE
    Readers = {}
    MaxWrites = 1
    MaxFails = 1
    NoFile = NoFile
    NoPass = NoPass
SPECIFICATION FairSpec
PROPERTY StaleEnds
INVARIANT ValidHasCopy
INVARIANT StaleOnlyByCause
