CONSTANTS
    c1 = c1
    c2 = c2
    c3 = c3
    Chunks = {c1, c2, c3}
    ChunkSize = 2
    ConcurrentWriters = 1
    Requests <- MCRequests
    Reads = {c1}
    Readers = {"r"}
    Flushers = {"f"}
    Loops = {"loop"}
    MaxWrites = 3
    MaxFaults = 1
SPECIFICATION Spec
INVARIANT TypeOK
 
INVARIANT BlocksApart
INVARIANT NoneWaits
 
CHECK_DEADLOCK FALSE
