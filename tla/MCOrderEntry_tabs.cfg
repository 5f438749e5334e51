SPECIFICATION FairSpec
CONSTANTS
    Tabs = {t1, t2}
    Products = {p1}
    Overridden = Overridden
    NoBackup = NoBackup
    Methods = {}
    MaxQuantity = 2
    MaxKeys = 1
    MaxCalls = 2
    MaxEdits = 1
CHECK_DEADLOCK FALSE
PROPERTIES
    NoBlindOverwrite
    PlacedIsWhatWasSent
    IntakeRefined
    SpinnersStop
