SPECIFICATION FairSpec
CONSTANTS
    Prompts = {p1}
    Ids = {i1}
    NoId = NoId
    Nobody = Nobody
    Asks <- EveryAsk
    MaxAgents = 2
    MaxExits = 1
INVARIANTS SecretIsClassified ShownIsDismissible EntryTimeKept
PROPERTIES AbandonedWindowCloses ImplementsPromptLife
CHECK_DEADLOCK FALSE
