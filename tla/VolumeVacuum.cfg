CONSTANTS
    Keys = {1, 2}
    Data = {x, y}
    Masters = {m}
    Workers = {w}
    MaxOps = 4
    MaxFails = 1
    MaxRuns = 2
    Empty = Empty
    NoFile = NoFile
    NoMap = NoMap
    NoDriver = NoDriver
SPECIFICATION Spec
SYMMETRY Symmetry
INVARIANT TypeOK
INVARIANT FilesKeepAcked
INVARIANT ReadsLastAcked
 
CHECK_DEADLOCK FALSE
