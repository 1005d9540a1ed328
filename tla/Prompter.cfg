SPECIFICATION Spec
CONSTANTS
    Prompts = {p1, p2}
    Ids = {i1, i2}
    NoId = NoId
    Nobody = Nobody
    Asks <- RestartAsks
    MaxAgents = 2
    MaxExits = 0
SYMMETRY PromptSymmetry
INVARIANTS CancelledIsTruthful CancelReachesWindow RegistryIsWhatStands PredecessorsSwept
CHECK_DEADLOCK FALSE
