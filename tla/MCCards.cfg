SPECIFICATION Spec
CONSTANTS
    Ids = {c1, c2}
    NoId = NoId
    OptionSets = {{"image", "bin", "refill"},
                  {"image", "bin", "indirect", "refill"},
                  {"serial", "image"},
                  {"bin"}}
    Size = 2
    Full = 3
    Low = 3
    Refill = 2
    Word = 8
    MaxPages = 2
    MaxFaults = 1
INVARIANTS
    CardsWhole
    ImagesMatch
    PagesCounted
    SuppliesLast
    ScanDelivers
SYMMETRY CardIds
CHECK_DEADLOCK FALSE
