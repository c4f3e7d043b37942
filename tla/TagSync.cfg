CONSTANTS
    Paths = {"a"}
    Tags = {"x"}
    TagSets <- MCTagSets
    m1 = m1
    m2 = m2
    Mounts = {m1, m2}
    Tools = {"tagctl"}
    Uis = {"ui"}
    Commands = {"set", "add", "delete"}
    watcher = watcher
    replay = replay
    Replayers = {watcher, replay}
    LineLen = 8
    PartLen = 1
    MaxEvents = 2
    MaxStops = 1
    NoProc = NoProc
SPECIFICATION SyncSpec
SYMMETRY Symmetry
INVARIANT SyncTypeOK
 
