CONSTANTS
    Paths = {"a"}
    Passes = {"ticker"}
    EvictFlags = {TRUE}
    Quiet = FALSE
    Readers = {"a"}
    MaxWrites = 1
    MaxFails = 0
    NoFile = NoFile
    NoPass = NoPass
SPECIFICATION Spec
INVARIANT ReadFresh
