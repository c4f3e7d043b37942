CONSTANTS
    Paths = {"a", "b"}
    Events <- MCEvents
    Capacity = 3
    Writers = {"server", "mount"}
    Kind <- MCKindMixed
    MaxFails = 2
    NoEvent = NoEvent
    NoWriter = NoWriter
SPECIFICATION Spec
INVARIANT TypeOK
INVARIANT DriftBounded
INVARIANT RingShape
