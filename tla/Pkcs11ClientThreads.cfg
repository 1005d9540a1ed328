SPECIFICATION Spec
CONSTANTS
    Threads = {t1, t2}
    Readers = {r1}
    Cards = {c1}
    NoCard = NoCard
    NoReader = NoReader
    MaxCrashes = 0
    MaxInserts = 1
INVARIANTS KeptSnapshotIsCurrent
CHECK_DEADLOCK FALSE
