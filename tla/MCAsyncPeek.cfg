SPECIFICATION Spec
CONSTANTS
    Clients = {c1, c2}
    NoClient = NoClient
    PeekWithEvent = TRUE
PROPERTIES
    OnlyCompleteReturned
CHECK_DEADLOCK FALSE
