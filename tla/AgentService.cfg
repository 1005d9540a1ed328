SPECIFICATION FairSpec
CONSTANTS
    Workers = {w1, w2}
    Stuck = {w1}
    MaxRounds = 4
    MaxSwitches = 2
INVARIANTS NothingReachesTheDead DrainLeavesOnlyTheStuck LeavingForgets
PROPERTIES StopsAfterSignal
CHECK_DEADLOCK FALSE
