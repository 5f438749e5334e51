SPECIFICATION Spec
CONSTANTS
    Products = {p1, p2}
    OpeningStock = 2
    Quantities = {}
    ReturnQuantities = {}
    ReturnProducts = {}
    FormProducts = {}
    ExceptionSources = {"AVAILABLE"}
    MaxRows = 5
    MaxExceptions = 0
    Orders = {o1}
    OrderedQuantities = {0, 1, 2}
    PickStatuses = {"ALLOCATED", "PICKED"}
    MaxDeliveries = 2
    DbChecks = TRUE
CHECK_DEADLOCK FALSE
INVARIANTS
    RelievedOncePerDelivery
    NothingDeliveredUnpicked
    NoOrphanedCustody
    OnlyApprovedClaims
PROPERTIES
    CommitmentRefined
