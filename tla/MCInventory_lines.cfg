SPECIFICATION InventorySpec
CONSTANTS
    Products = {p1, p2}
    OpeningStock = 2
    Quantities = {1}
    ReturnQuantities = {1}
    ReturnProducts = {p2}
    FormProducts = {p1}
    ExceptionSources = {"AVAILABLE", "RESERVED"}
    MaxRows = 4
    MaxExceptions = 1
PROPERTIES
    NoLostUpdate
