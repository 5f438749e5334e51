-------------------------------- MODULE MCAccess --------------------------------
(***************************************************************************)
(* Instances of Access for TLC.                                            *)
(***************************************************************************)
EXTENDS Access, TLC

CONSTANTS b1, b2, b3

\* Every page that some page links to.
AllPages ==
    {"dashboard", "orders", "orders.show", "orders.review", "salesman.orders",
     "salesman.orders.show", "salesman.orders.create", "drafts", "drafts.edit", "adjustments",
     "adjustments.review", "inventory", "inventory.show", "exceptions", "deliveries", "delivery",
     "delivery.show", "payments", "invoices", "invoices.show", "invoices.print", "invoices.pdf",
     "salesman.invoices", "salesman.invoices.show", "order-of-invoice", "returns",
     "returns.create", "returns.show", "credits", "credits.show", "refunds", "refunds.show",
     "receivables", "receivables.show", "statement", "payables", "payables.show", "accounting",
     "accounts", "journals", "journals.show", "general-ledger", "trial-balance", "profit-loss",
     "balance-sheet", "reconciliation", "reports.sales", "reports.customers",
     "reports.salesmen", "reports.inventory", "reports.delivery", "reports.financial",
     "customers", "customers.show", "customers.create", "customers.edit", "products",
     "products.show", "products.create", "products.edit", "categories", "categories.show",
     "categories.create", "categories.edit", "tax-profiles", "tax-profiles.create",
     "tax-profiles.edit", "salesmen", "salesmen.show", "salesmen.create", "salesmen.edit",
     "timeline", "security.log", "security.roles", "system.company", "notifications",
     "preferences", "mfa", "sessions"}

FewPages == {"dashboard", "mfa", "sessions"}

\* One signs in from two browsers and looks at the pages about that; one goes everywhere
\* in whatever role.
TheirBrowsers == [p \in People |-> IF p = "cautious" THEN {b1, b2} ELSE {b3}]

TheirRoles == [p \in People |-> IF p = "cautious" THEN {"SALESMAN", "ADMIN"} ELSE Roles]

TheirPages == [p \in People |-> IF p = "cautious" THEN FewPages ELSE AllPages]

\* The two browsers of one user are interchangeable.
SameBrowsers == Permutations({b1, b2})
================================================================================
