SPECIFICATION Spec
CONSTANTS
    Orders = {o1}
    NoOrder = NoOrder
    Instruments = {c1}
    Cash = Cash
    OrderTotals = {1, 2}
    Amounts = {1, 2}
    Reductions = {1}
    MaxPayments = 2
    MaxAdjustments = 2
CHECK_DEADLOCK FALSE
INVARIANTS
    SettlementTypeOK
    LedgerIsExact
    JournalsFollowLedger
    SummaryReconciles
PROPERTIES
    StatusFollowsVerifiedSum
    AccountRefined
