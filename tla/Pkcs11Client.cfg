SPECIFICATION FairSpec
CONSTANTS
    Threads = {t1}
    Readers = {r1}
    Cards = {c1, c2}
    NoCard = NoCard
    NoReader = NoReader
    MaxCrashes = 1
    MaxInserts = 2
INVARIANTS KeptSnapshotIsCurrent SettledIsThisCard FinishedStillComing
PROPERTIES SnapshotReturns PresenceSurfaces
CHECK_DEADLOCK FALSE
