CONSTANTS
    Filers = {1, 2, 3}
    Clients = {c1, c2}
    c1 = c1
    c2 = c2
    KeyHash = 5
    Seed <- MCSeed
    FirstFilers = {1, 2}
    TTL = 2
    MaxEvents = 2
    NoLock = NoLock
SPECIFICATION Spec
INVARIANT TypeOK
INVARIANT ExclusiveWhenSettled

PROPERTY SomeoneLocks
PROPERTY RingsAgree
