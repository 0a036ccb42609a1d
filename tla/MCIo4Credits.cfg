SPECIFICATION Spec
CONSTANTS
    Clients = {c1}
    Final = {"SUCCESS", "UNSUCCESSFUL"}
    NoReport = NoReport
    Beams = 0
    MaxCredits = 2
PROPERTY
    CreditsSettle
