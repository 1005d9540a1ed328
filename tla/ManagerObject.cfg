SPECIFICATION Spec
CONSTANTS
    ConfigCalls = {k1, k2}
    CryptoCalls = {p1, p2}
    Requests <- MCRequests
    NoRequest = NoRequest
    Rights <- MCRights
    MaxCrashes = 1
    MaxWipes = 1
    Asks <- MCAsks
    NoAsk = NoAsk
    Failures = {"Internal"}
    MaxCalls = 2
    MaxFaults = 1
SYMMETRY CallSymmetry
INVARIANTS ReportIsBorneOut AnswerFitsTheAsk EveryCallIsAnsweredOnce
PROPERTY ChangeNeedsRight
CHECK_DEADLOCK FALSE
