SPECIFICATION Spec
CONSTANTS
    Lists = {"payments", "inventory", "adjustments", "returns", "deliveries", "orders",
             "exceptions", "drafts", "categories", "products", "customers", "salesmen",
             "notifications", "timeline", "refunds", "credits", "invoices", "receivables",
             "payables", "journals", "reconciliation", "statement", "salesman.orders",
             "tax-profiles", "security.log", "receivables.show", "general-ledger",
             "trial-balance", "balance-sheet", "profit-loss", "reports.sales",
             "reports.delivery", "reports.salesmen", "reports.customers",
             "reports.inventory", "reports.financial"}
    MaxSteps = 6
INVARIANT ControlsTellTheList
CHECK_DEADLOCK FALSE
