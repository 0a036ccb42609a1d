SPECIFICATION Spec
CONSTANTS
    Clients = {c1, c2, c3}
    NoClient = NoClient
    PeekWithEvent = FALSE
INVARIANTS
    TypeOK
    PendingInOnePlace
    NoLostWakeup
    NoUseAfterReturn
PROPERTIES
    OnlyCompleteReturned
    AcceptedCompletes
    ImplementsOverlapped
CHECK_DEADLOCK FALSE
