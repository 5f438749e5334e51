SPECIFICATION Spec
CONSTANTS
    Products = {p1}
    OpeningStock = 3
    Quantities = {}
    ReturnQuantities = {}
    ReturnProducts = {}
    FormProducts = {}
    ExceptionSources = {"AVAILABLE"}
    MaxRows = 6
    MaxExceptions = 0
    Orders = {o1}
    OrderedQuantities = {1, 2}
    PickStatuses = {"ALLOCATED", "PICKED"}
    MaxDeliveries = 2
    DbChecks = TRUE
CHECK_DEADLOCK FALSE
INVARIANTS
    NoDoubleDeduction
