SPECIFICATION InventorySpec
CONSTANTS
    Products = {p1}
    OpeningStock = 3
    Quantities = {1, 2}
    ReturnQuantities = {1, 2}
    ReturnProducts = {p1}
    FormProducts = {}
    ExceptionSources = {"AVAILABLE", "RESERVED"}
    MaxRows = 6
    MaxExceptions = 2
INVARIANTS
    TypeOK
    BalanceMath
    LedgerReconciles
    QuarantineCovered
PROPERTIES
    StockRefined
