SPECIFICATION Spec
CONSTANTS
    Clients = {c1, c2}
    Final = {"SUCCESS", "UNSUCCESSFUL"}
    NoReport = NoReport
    Beams = 1
    MaxCredits = 2
INVARIANTS
    CoinsCounted
PROPERTIES
    ReportsTrue
    ReadsComplete
