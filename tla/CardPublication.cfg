SPECIFICATION FairSpec
CONSTANTS
    Readers = {r1}
    Cards = {c1, c2}
    NoReader = NoReader
    NoCard = NoCard
    NoEntry = NoEntry
    Retries = 1
    HookOrders = {"first", "last"}
INVARIANTS OneResolveInFlight NoUseAfterFree TreeMatchesReaders
PROPERTIES ImplementsDirectory PendingResolves WithdrawnUnexports
CHECK_DEADLOCK FALSE
