SPECIFICATION Spec
CONSTANTS
    Readers = {r1}
    Cards = {c1, c2}
    NoReader = NoReader
    NoCard = NoCard
    NoEntry = NoEntry
    Retries = 1
    HookOrders = {"last"}
SYMMETRY IdSymmetry
CHECK_DEADLOCK FALSE
INVARIANT HoldReleased
