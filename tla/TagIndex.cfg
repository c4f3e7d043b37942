CONSTANTS
    Paths = {a, b}
    Tags = {x, y}
    Temps = {n1, n2, n3, n4}
    Procs = {u, v}
    MaxOps = 3
    MaxCrashes = 1
    NoFile = NoFile
SPECIFICATION Spec
SYMMETRY Symmetry
INVARIANT TypeOK
INVARIANT QueryExact
