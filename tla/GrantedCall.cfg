SPECIFICATION FairSpec
CONSTANTS
    Calls = {k1, k2}
    Clients = {a, b}
    NoClient = NoClient
    NoCall = NoCall
INVARIANTS GrantedBodyOnLiveObject ReplyIsTruthful
PROPERTIES EveryCallAnswered DestructorFinishes
CHECK_DEADLOCK FALSE
