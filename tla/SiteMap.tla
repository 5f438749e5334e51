-------------------------------- MODULE SiteMap --------------------------------
(***************************************************************************)
(* The pages a user can look at, by the names of their routes: whom a      *)
(* route lets in, and the links that each page shows to whom.              *)
(*                                                                         *)
(* A route asks for a permission, some controllers turn a role away as     *)
(* well.  The pages decide by the permissions and the role that came with  *)
(* them which links to show, and most show their links to everybody.       *)
(***************************************************************************)
EXTENDS StaffRoles, FiniteSets

--------------------------------------------------------------------------------
\* Whom the routes let in

\* What the route of a page asks for; "" where every user may come.
Needs(page) ==
    CASE page \in {"customers", "customers.show"} -> "customer.view"
      [] page = "customers.create" -> "customer.create"
      [] page = "customers.edit" -> "customer.update"
      [] page \in {"salesmen", "salesmen.show"} -> "user.view"
      [] page = "salesmen.create" -> "user.create"
      [] page = "salesmen.edit" -> "user.update"
      [] page \in {"products", "products.show", "categories", "categories.show"} -> "product.view"
      [] page \in {"products.create", "categories.create"} -> "product.create"
      [] page \in {"products.edit", "categories.edit"} -> "product.update"
      [] page \in {"tax-profiles", "tax-profiles.create", "tax-profiles.edit"} -> "product.tax.update"
      [] page \in {"security.roles", "system.company"} -> "role.manage"
      [] page \in {"salesman.orders.create", "drafts", "drafts.edit"} -> "order.create"
      [] page \in {"salesman.orders", "salesman.orders.show", "orders", "orders.show",
                   "orders.review", "reports.sales"} -> "order.view"
      [] page \in {"adjustments", "adjustments.review"} -> "order.adjust.review"
      [] page \in {"inventory", "inventory.show", "exceptions", "reports.inventory"} -> "inventory.view"
      [] page = "payments" -> "payment.verify"
      [] page \in {"deliveries", "delivery", "delivery.show", "reports.delivery"} -> "delivery.view"
      [] page \in {"invoices", "invoices.show", "salesman.invoices", "salesman.invoices.show"} -> "invoice.view"
      [] page = "invoices.print" -> "invoice.print"
      [] page = "invoices.pdf" -> "invoice.download"
      [] page \in {"returns", "returns.show"} -> "return.review"
      [] page \in {"returns.create", "salesman.returns", "salesman.returns.create",
                   "salesman.returns.show"} -> "return.request"
      [] page \in {"credits", "credits.show"} -> "credit.view"
      [] page \in {"refunds", "refunds.show"} -> "refund.view"
      [] page \in {"receivables", "receivables.show", "statement"} -> "receivable.view"
      [] page \in {"payables", "payables.show"} -> "payable.view"
      [] page \in {"accounting", "accounts", "journals", "journals.show", "general-ledger",
                   "trial-balance", "profit-loss", "balance-sheet", "reconciliation",
                   "reports.financial"} -> "accounting.view"
      [] page = "reports.customers" -> "customer.view"
      [] page = "timeline" -> "audit.view"
      [] page = "security.log" -> "audit.security.view"
      [] OTHER -> ""

FieldRoles == {"SALESMAN", "DELIVERY_PARTNER"}

\* The roles that a controller turns away, whatever they are permitted.
TurnedAway(page) ==
    CASE page \in {"orders", "orders.review", "reports", "reports.sales", "reports.customers",
                   "reports.salesmen", "reports.inventory", "reports.delivery",
                   "reports.financial"} -> FieldRoles
      [] page = "orders.show" -> FieldRoles \cup {"WAREHOUSE_MANAGER"}
      [] OTHER -> {}

\* /orders/{order} is a link of the invoices and no route.
NoRoute == {"order-of-invoice"}

Opens(page, role) ==
    /\ page \notin NoRoute
    /\ Needs(page) = "" \/ Needs(page) \in PermissionsOf(role)
    /\ role \notin TurnedAway(page)

\* The dashboard is another page for each role.
Landing(page, role) ==
    IF page # "dashboard" THEN page
    ELSE CASE role = "SALESMAN" -> "salesman.dashboard"
           [] role = "DELIVERY_PARTNER" -> "delivery"
           [] role = "WAREHOUSE_MANAGER" -> "inventory"
           [] OTHER -> "dashboard"

--------------------------------------------------------------------------------
\* The navigation beside every page

May(role, permission) == permission \in PermissionsOf(role)

\* A link to these pages, if the condition holds.
Link(condition, pages) == {page \in pages : condition}

\* A flag holds for whoever has the permission or one of the roles that have it at first.
hasCreditView(role) == May(role, "credit.create") \/ role \in {"SUPER_ADMIN", "ADMIN", "ACCOUNTANT"}
hasAdminOrderQueue(role) == role \in {"SUPER_ADMIN", "ADMIN", "ACCOUNTANT"}
hasOrderView(role) == May(role, "order.view")
hasReportingAccess(role) == role \notin FieldRoles

SalesLinks(role) ==
    Link(hasAdminOrderQueue(role), {"orders"})
    \cup Link(role = "SALESMAN", {"salesman.orders"})
    \cup Link(May(role, "order.adjust.review"), {"adjustments"})
    \cup Link(May(role, "return.review"), {"returns"})
    \cup Link(May(role, "order.create"), {"salesman.orders.create"})
    \cup Link(May(role, "invoice.view"),
              IF role = "SALESMAN" THEN {"salesman.invoices"} ELSE {"invoices"})

MasterDataLinks(role) ==
    Link(May(role, "customer.view"), {"customers"})
    \cup Link(May(role, "customer.view") /\ May(role, "customer.create"), {"customers.create"})
    \cup Link(May(role, "product.view"), {"products", "categories"})
    \cup Link(May(role, "product.view") /\ May(role, "product.tax.update"), {"tax-profiles"})
    \cup Link(May(role, "inventory.view"), {"inventory", "exceptions"})

MoneyLinks(role) ==
    Link(May(role, "payment.verify") /\ role # "SALESMAN", {"payments"})
    \cup Link(hasCreditView(role) /\ role # "SALESMAN", {"credits"})
    \cup Link(May(role, "receivable.view"), {"receivables"})
    \cup Link(May(role, "payable.view"), {"payables"})
    \cup Link(May(role, "accounting.view"), {"general-ledger", "trial-balance", "profit-loss",
                                             "balance-sheet", "reconciliation", "accounts"})

ReportLinks(role) ==
    Link(hasReportingAccess(role) /\ hasOrderView(role), {"reports.sales"})
    \cup Link(hasReportingAccess(role) /\ May(role, "customer.view"), {"reports.customers"})
    \cup Link(hasReportingAccess(role) /\ (hasOrderView(role) \/ May(role, "user.view")), {"reports.salesmen"})
    \cup Link(hasReportingAccess(role) /\ May(role, "inventory.view"), {"reports.inventory"})
    \cup Link(hasReportingAccess(role) /\ May(role, "delivery.view"), {"reports.delivery"})
    \cup Link(hasReportingAccess(role) /\ May(role, "accounting.view"), {"reports.financial"})

GovernanceLinks(role) ==
    Link(May(role, "audit.view"), {"timeline"})
    \cup Link(May(role, "audit.security.view"), {"security.log"})
    \cup Link(May(role, "user.view"), {"salesmen"})
    \cup Link(May(role, "role.manage"), {"security.roles", "system.company"})

OwnLinks == {"notifications", "preferences", "mfa", "sessions"}

AppLayout(role) ==
    {"dashboard"} \cup SalesLinks(role) \cup MasterDataLinks(role) \cup MoneyLinks(role)
    \cup ReportLinks(role) \cup GovernanceLinks(role) \cup OwnLinks

DeliveryLayout == {"delivery", "preferences", "notifications"}

--------------------------------------------------------------------------------
\* The links of the pages themselves

DashboardCards == {"orders", "inventory", "deliveries", "payments"}
DashboardQueues == {"orders", "orders.show", "payments", "customers", "receivables", "reports.financial"}

SalesmanDashboardCards == {"drafts", "salesman.orders.create", "customers", "salesman.orders"}
SalesmanDashboardFeed ==
    {"salesman.orders", "salesman.orders.show", "salesman.orders.create", "customers", "products"}

AdminOrderQueueTable == {"orders.show", "orders.review"}
AdminOrderQueueCard == {"orders.show", "orders.review"}
OrderDetailHeader(role) == {"orders"} \cup Link(May(role, "order.approve"), {"orders.review"})
OrderDetailCustomerCard == {"customers.show"}
PendingAdjustmentBanner(role) == Link(May(role, "order.adjust.review"), {"adjustments.review"})

OrderHistoryTable == {"salesman.orders.show"}
OrderHistoryCard == {"salesman.orders.show"}
OrderHistoryHeader == {"drafts", "salesman.orders.create"}
DraftsTable == {"salesman.orders.create", "drafts.edit"}
DraftsCards == {"drafts.edit"}
SalesmanOrderHeader == {"salesman.orders", "salesman.orders.create", "customers"}

AdjustmentsTable == {"adjustments.review"}
AdjustmentsCards == {"adjustments.review"}
AdjustmentReviewHeader == {"adjustments", "orders.show"}

InventoryTable == {"inventory.show"}
InventoryCards == {"inventory.show"}
InventoryBalanceHeader == {"inventory", "exceptions"}
ExceptionsHeader == {"inventory"}

DeliveriesTable == {"delivery", "delivery.show"}
MissionList == {"delivery.show"}

\* Salesmen have routes of their own for the pages of invoices and returns.
getItemUrl(page) == IF page = "salesman.invoices" THEN "salesman.invoices.show" ELSE "invoices.show"
InvoicesTable(page) == {getItemUrl(page), "order-of-invoice", "invoices.print", "invoices.pdf"}
InvoicesCards(page) == {getItemUrl(page), "invoices.pdf"}
InvoiceHeader(page) ==
    {IF page = "salesman.invoices.show" THEN "salesman.invoices" ELSE "invoices",
     "invoices.print", "invoices.pdf", "order-of-invoice"}

ReturnsTable(page) ==
    IF page = "salesman.returns" THEN {"salesman.returns.create", "salesman.returns.show"}
    ELSE {"returns.create", "returns.show"}
ReturnsCards(page) == {IF page = "salesman.returns" THEN "salesman.returns.show" ELSE "returns.show"}
ReturnHeader(page) ==
    {IF page = "salesman.returns.show" THEN "salesman.returns" ELSE "returns", "orders.show"}

CreditsTable == {"returns", "refunds", "credits.show"}
CreditsCards == {"credits.show"}
CreditLinkages == {"credits", "returns.show", "orders.show", "refunds.show"}
RefundsTable == {"credits", "credits.show", "refunds.show"}
RefundsCards == {"refunds.show"}
RefundHeader == {"refunds", "credits.show"}

ReceivablesTable == {"receivables.show", "statement"}
ReceivablesCards == {"receivables.show", "statement"}
CustomerLedgerHeader == {"receivables", "statement"}
StatementHeader == {"receivables.show"}
PayablesTable == {"payables.show"}

AccountingCards ==
    {"journals", "journals.show", "accounts", "general-ledger", "trial-balance", "profit-loss",
     "balance-sheet", "reconciliation"}
GeneralLedgerTable == {"journals.show"}
GeneralLedgerCards == {"journals.show"}
TrialBalanceTable == {"general-ledger"}
TrialBalanceCards == {"general-ledger"}
JournalsTable == {"journals.show"}
JournalHeader == {"journals", "journals.show", "general-ledger"}
AccountsTable == {"general-ledger"}

ReportCatalog ==
    {"reports.sales", "reports.customers", "reports.salesmen", "reports.inventory",
     "reports.delivery", "reports.financial"}
SalesReportTabs == {"customers.show", "orders.show"}
DeliveriesReportTab == {"orders.show"}
CustomersReportTable == {"statement"}
FinancialReportHeader == {"accounting"}

CategoriesTable(role) ==
    {"categories.show"} \cup Link(May(role, "product.create"), {"categories.create"})
                        \cup Link(May(role, "product.update"), {"categories.edit"})
TreeNode(role) == {"categories.show"} \cup Link(May(role, "product.update"), {"categories.edit"})
CategoryHeader(role) ==
    {"categories", "categories.show"} \cup Link(May(role, "product.update"), {"categories.edit"})
SubcategoriesAndProducts(role) ==
    {"categories.show", "products", "products.show"}
    \cup Link(May(role, "product.create"), {"categories.create"})
ProductsTable(role) ==
    {"products.show"} \cup Link(May(role, "product.create"), {"products.create"})
                      \cup Link(May(role, "product.update"), {"products.edit"})
ProductsCards == {"products.show"}
ProductHeader(role) == {"products"} \cup Link(May(role, "product.update"), {"products.edit"})
CustomersTable(role) ==
    {"customers.show"} \cup Link(May(role, "customer.create"), {"customers.create"})
CustomersCards == {"customers.show"}
CustomerHeader(role) == {"customers"} \cup Link(May(role, "customer.update"), {"customers.edit"})
SalesmenTable(role) ==
    {"salesmen.show"} \cup Link(May(role, "user.create"), {"salesmen.create"})
SalesmanHeader(role) ==
    {"salesmen", "customers.show"} \cup Link(May(role, "user.update"), {"salesmen.edit"})
TaxProfilesTable(role) == Link(May(role, "product.tax.update"), {"tax-profiles.create", "tax-profiles.edit"})

TimelineHeader == {"security.log"}
SecurityLogHeader == {"timeline"}
NotificationsHeader == {"preferences"}
RolesHeader == {"dashboard", "mfa", "sessions"}
SessionsHeader == {"dashboard", "mfa"}
MfaHeader == {"sessions"}

\* The page that is shown instead of one that may not be seen.
ErrorPage == {"dashboard"}

--------------------------------------------------------------------------------
\* The site

OfficeLinks(page, role) ==
    CASE page = "dashboard" -> DashboardCards \cup DashboardQueues
      [] page = "salesman.dashboard" -> SalesmanDashboardCards \cup SalesmanDashboardFeed
      [] page = "orders" -> AdminOrderQueueTable \cup AdminOrderQueueCard
      [] page = "orders.show" ->
            OrderDetailHeader(role) \cup OrderDetailCustomerCard \cup PendingAdjustmentBanner(role)
      [] page = "orders.review" -> {"orders"}
      [] page = "salesman.orders" -> OrderHistoryHeader \cup OrderHistoryTable \cup OrderHistoryCard
      [] page = "salesman.orders.show" -> SalesmanOrderHeader \cup PendingAdjustmentBanner(role)
      [] page = "salesman.orders.create" -> {"drafts"}
      [] page = "drafts" -> DraftsTable \cup DraftsCards
      [] page = "adjustments" -> AdjustmentsTable \cup AdjustmentsCards
      [] page = "adjustments.review" -> AdjustmentReviewHeader
      [] page = "inventory" -> InventoryTable \cup InventoryCards
      [] page = "inventory.show" -> InventoryBalanceHeader
      [] page = "exceptions" -> ExceptionsHeader
      [] page = "deliveries" -> DeliveriesTable
      [] page \in {"returns", "salesman.returns"} -> ReturnsTable(page) \cup ReturnsCards(page)
      [] page \in {"returns.show", "salesman.returns.show"} -> ReturnHeader(page)
      [] page = "returns.create" -> {"returns"}
      [] OTHER -> {}

MoneyPageLinks(page) ==
    CASE page \in {"invoices", "salesman.invoices"} -> InvoicesTable(page) \cup InvoicesCards(page)
      [] page \in {"invoices.show", "salesman.invoices.show"} -> InvoiceHeader(page)
      [] page = "credits" -> CreditsTable \cup CreditsCards
      [] page = "credits.show" -> CreditLinkages
      [] page = "refunds" -> RefundsTable \cup RefundsCards
      [] page = "refunds.show" -> RefundHeader
      [] page = "receivables" -> ReceivablesTable \cup ReceivablesCards
      [] page = "receivables.show" -> CustomerLedgerHeader
      [] page = "statement" -> StatementHeader
      [] page = "payables" -> PayablesTable
      [] page = "payables.show" -> {"payables"}
      [] page = "accounting" -> AccountingCards
      [] page = "general-ledger" -> GeneralLedgerTable \cup GeneralLedgerCards
      [] page = "trial-balance" -> TrialBalanceTable \cup TrialBalanceCards
      [] page = "journals" -> JournalsTable
      [] page = "journals.show" -> JournalHeader
      [] page = "accounts" -> AccountsTable
      [] page = "reports" -> ReportCatalog
      [] page = "reports.sales" -> SalesReportTabs
      [] page = "reports.delivery" -> DeliveriesReportTab
      [] page = "reports.customers" -> CustomersReportTable
      [] page = "reports.financial" -> FinancialReportHeader
      [] OTHER -> {}

MasterDataPageLinks(page, role) ==
    CASE page = "categories" -> CategoriesTable(role) \cup TreeNode(role)
      [] page = "categories.show" -> CategoryHeader(role) \cup SubcategoriesAndProducts(role)
      [] page = "products" -> ProductsTable(role) \cup ProductsCards
      [] page = "products.show" -> ProductHeader(role)
      [] page = "customers" -> CustomersTable(role) \cup CustomersCards
      [] page = "customers.show" -> CustomerHeader(role)
      [] page = "salesmen" -> SalesmenTable(role)
      [] page = "salesmen.show" -> SalesmanHeader(role)
      [] page = "tax-profiles" -> TaxProfilesTable(role)
      [] page = "timeline" -> TimelineHeader
      [] page = "security.log" -> SecurityLogHeader
      [] page = "notifications" -> NotificationsHeader
      [] page = "security.roles" -> RolesHeader
      [] page = "sessions" -> SessionsHeader
      [] page = "mfa" -> MfaHeader
      [] page = "denied" -> ErrorPage
      [] OTHER -> {}

\* What a page that came to somebody of this role shows him.
Links(page, role) ==
    CASE page \in {"delivery", "delivery.show"} -> DeliveryLayout \cup MissionList
      [] page = "denied" -> ErrorPage
      [] OTHER -> AppLayout(role) \cup OfficeLinks(page, role) \cup MoneyPageLinks(page)
                                  \cup MasterDataPageLinks(page, role)
================================================================================
