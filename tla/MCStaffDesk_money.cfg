SPECIFICATION Spec
CONSTANTS
    Kinds = {"payment", "refund", "supplier", "delivery"}
    Supers = {s}
    Admins = {}
    Accountants = {c}
    Drivers = {d, e}
    MaxAmount = 2
    MaxGoods = 1
    MaxOrdered = 1
    MaxCalls = 2
    MaxDocuments = 2
SYMMETRY RoleSymmetry
CHECK_DEADLOCK FALSE
INVARIANTS
    CreditNotOverspent
    BillsAddUp
    InstrumentRecordedOnce
PROPERTIES
    StaleClicksAreHarmless
    OfferedIsAccepted
