SPECIFICATION Spec
CONSTANTS
    Games = {g1, g2}
    Starters = {g1}
    Patient = TRUE
    MaxPollers = 2
    MaxWritten = 2
    Capacity = 2
INVARIANTS
    StreamWhole
    StopCeasesCallbacks
    ScanningMeansPolling
PROPERTIES
    StopReturns
    ReportsKeepComing
