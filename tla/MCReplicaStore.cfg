SPECIFICATION FairSpec
CONSTANTS
    Boxes = {b1}
    Payloads = {p1, p2}
    Threads = {t1, t2}
    LockIds = {l1, l2}
    MaxEpoch = 2
    Tombstone = Tombstone
    Absent = Absent
    NoLock = NoLock
    NoThread = NoThread
INVARIANTS BoxMutex LockMapExact ReadLinearizable
PROPERTIES ImmutableBoxes EveryRequestAnswered
