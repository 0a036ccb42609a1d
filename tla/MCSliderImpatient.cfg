SPECIFICATION Spec
CONSTANTS
    Games = {g1, g2}
    Starters = {g1}
    Patient = FALSE
    MaxPollers = 2
    MaxWritten = 2
    Capacity = 2
INVARIANT
    StartOutlivesStop
