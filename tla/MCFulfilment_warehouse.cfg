SPECIFICATION Spec
CONSTANTS
    Products = {p1}
    OpeningStock = 3
    Quantities = {1}
    ReturnQuantities = {}
    ReturnProducts = {}
    FormProducts = {}
    ExceptionSources = {"AVAILABLE"}
    MaxRows = 6
    MaxExceptions = 1
    Orders = {o1, o2}
    OrderedQuantities = {1, 2}
    PickStatuses = {"ALLOCATED", "PICKED"}
    MaxDeliveries = 1
    DbChecks = TRUE
CHECK_DEADLOCK FALSE
SYMMETRY OrderSymmetry
INVARIANTS
    FulfilmentTypeOK
    ReservedIsClaimed
    LedgerReconcilesUndisturbed
