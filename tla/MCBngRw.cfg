SPECIFICATION Spec
CONSTANTS
    Scans = {1, 2}
    MaxPackets = 2
    MaxCancels = 2
    Timeouts <- MCTimeouts
    Grace = 1
INVARIANTS
    CardsHandedOver
    BufferAlive
    BusyTellsScan
PROPERTIES
    ScanEnds
CHECK_DEADLOCK FALSE
