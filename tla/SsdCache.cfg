CONSTANTS
    Paths = {a, b}
    Passes = {s, t}
    EvictFlags = {TRUE, FALSE}
    Quiet = FALSE
    Readers = {a, b}
    MaxWrites = 1
    MaxFails = 1
    NoFile = NoFile
    NoPass = NoPass
SPECIFICATION Spec
SYMMETRY Symmetry
INVARIANT TypeOK
INVARIANT StaleOnlyByCause
