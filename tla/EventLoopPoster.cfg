SPECIFICATION FairSpec
CONSTANTS
    Callbacks = {p1, p2, d1}
    Delayed = {d1}
INVARIANTS NoLostWakeup RunAtMostOnce RunsInOrder
PROPERTY AcceptedRuns
CHECK_DEADLOCK FALSE
