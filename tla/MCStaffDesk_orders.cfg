SPECIFICATION Spec
CONSTANTS
    Kinds = {"order", "return", "exception", "adjustment"}
    Supers = {}
    Admins = {a, b}
    Accountants = {}
    Drivers = {}
    MaxAmount = 2
    MaxGoods = 1
    MaxOrdered = 2
    MaxCalls = 2
    MaxDocuments = 3
SYMMETRY RoleSymmetry
CHECK_DEADLOCK FALSE
INVARIANTS
    CheckedByAnother
    AllocatedInFull
    ReductionsAddUp
    RequestedOnce
PROPERTIES
    StaleClicksAreHarmless
    OfferedIsAccepted
    ImpactWasShown
