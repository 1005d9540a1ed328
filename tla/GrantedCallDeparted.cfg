SPECIFICATION Spec
CONSTANTS
    Calls = {k1}
    Clients = {a}
    NoClient = NoClient
    NoCall = NoCall
INVARIANT DepartedClientHasNoOperation
CHECK_DEADLOCK FALSE
