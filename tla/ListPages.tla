------------------------------- MODULE ListPages -------------------------------
(***************************************************************************)
(* The pages that show a list narrowed by controls, and what each does     *)
(* with them.                                                              *)
(*                                                                         *)
(* The controls of a page are of five kinds:                               *)
(*   "list"     shows what the list was narrowed by (the filters that came *)
(*              with it) and asks for a new list when it is changed;       *)
(*   "local"    shows what was chosen, and asks when it is changed;        *)
(*   "typed"    shows what was typed, and asks when the form is submitted; *)
(*   "erasable" the same, with a button that clears it and asks at once;   *)
(*   "delayed"  asks when nothing was typed for a third of a second.       *)
(* A page asks either for what its list was narrowed by, with the change   *)
(* made to it (base "list"), or for what all its controls say ("local").   *)
(* A request keeps the state of the page ("stays") or has it built anew    *)
(* from the answer ("remounts").                                           *)
(***************************************************************************)

\* The controls, what a request starts from, the controls a reset leaves alone, how a reset
\* ("none" where there is none) and how the links to the other pages of the list are sent.
List(bar, base, keeps, reset, turns) ==
    [bar |-> bar, base |-> base, keeps |-> keeps, reset |-> reset, turns |-> turns]

--------------------------------------------------------------------------------
\* Lists that start from what they were narrowed by

PaymentsBar == [tab |-> "list", search |-> "erasable", method |-> "list"]
PaymentsIndex == List(PaymentsBar, "list", {"tab"}, "remounts", "remounts")

InventoryBar == [search |-> "erasable", warehouse |-> "list", sort |-> "list"]
InventoryIndex == List(InventoryBar, "list", {}, "remounts", "stays")

AdjustmentsBar == [queue |-> "list", search |-> "typed", exception |-> "list"]
AdjustmentsIndex == List(AdjustmentsBar, "list", {"queue"}, "stays", "remounts")

ReturnsBar == [status |-> "local", search |-> "typed", warehouse |-> "local"]
ReturnsIndex == List(ReturnsBar, "list", {}, "none", "remounts")

DeliveriesBar == [tab |-> "list", search |-> "typed", driver |-> "typed"]
DeliveriesIndex == List(DeliveriesBar, "list", {"tab"}, "stays", "remounts")

OrderQueueBar == [queue |-> "list", search |-> "delayed", status |-> "list"]
OrderQueueIndex == List(OrderQueueBar, "list", {"queue"}, "stays", "stays")

SalesReportBar == [from |-> "typed", to |-> "typed"]
SalesReport == List(SalesReportBar, "list", {}, "remounts", "none")

DeliveryReportBar == [from |-> "typed", to |-> "typed"]
DeliveryReport == List(DeliveryReportBar, "list", {}, "remounts", "none")

SalesmenReportBar == [from |-> "typed", to |-> "typed"]
SalesmenReport == List(SalesmenReportBar, "list", {}, "remounts", "none")

CustomersReportBar == [search |-> "typed", balance |-> "typed", status |-> "typed"]
CustomersReport == List(CustomersReportBar, "list", {}, "remounts", "none")

\* The search of these waits for a pause, and starts then from the filters of the moment the
\* last letter was typed.
CategoryBar == [search |-> "delayed", status |-> "local", rootOnly |-> "local"]
CategoryIndex == List(CategoryBar, "list", {}, "stays", "stays")

ProductBar == [search |-> "delayed", category |-> "local", status |-> "local"]
ProductIndex == List(ProductBar, "list", {}, "stays", "stays")

CustomerBar == [search |-> "delayed", status |-> "local", salesman |-> "local"]
CustomerIndex == List(CustomerBar, "list", {}, "none", "stays")

SalesmanBar == [search |-> "delayed", status |-> "local", sort |-> "list"]
SalesmanIndex == List(SalesmanBar, "list", {}, "remounts", "stays")

TaxProfileBar == [search |-> "delayed", status |-> "local", sort |-> "list"]
TaxProfileIndex == List(TaxProfileBar, "list", {}, "stays", "stays")

--------------------------------------------------------------------------------
\* Lists that start from what their controls say

RefundsBar == [status |-> "local", search |-> "typed"]
RefundsIndex == List(RefundsBar, "local", {}, "none", "remounts")

CreditsBar == [status |-> "local", search |-> "typed"]
CreditsIndex == List(CreditsBar, "local", {}, "none", "remounts")

InvoicesBar == [search |-> "typed", status |-> "typed", customer |-> "typed"]
InvoicesIndex == List(InvoicesBar, "local", {}, "stays", "remounts")

ReceivablesBar == [search |-> "typed", date |-> "local"]
ReceivablesIndex == List(ReceivablesBar, "local", {}, "none", "none")

PayablesBar == [search |-> "typed", status |-> "local"]
PayablesIndex == List(PayablesBar, "local", {}, "none", "stays")

TimelineBar == [search |-> "typed", module |-> "local", from |-> "local"]
AuditTimeline == List(TimelineBar, "local", {}, "remounts", "remounts")

SecurityLogBar == [search |-> "typed", type |-> "local", severity |-> "local"]
SecurityLogsIndex == List(SecurityLogBar, "local", {}, "remounts", "remounts")

NotificationsBar == [tab |-> "local", category |-> "local", search |-> "typed"]
NotificationIndex == List(NotificationsBar, "local", {}, "none", "remounts")

ExceptionsBar == [search |-> "typed", status |-> "typed", warehouse |-> "typed"]
ExceptionsIndex == List(ExceptionsBar, "local", {}, "remounts", "none")

DraftsBar == [search |-> "typed"]
DraftsIndex == List(DraftsBar, "local", {}, "stays", "remounts")

OrderHistoryBar == [search |-> "delayed", status |-> "delayed", from |-> "delayed"]
OrderHistoryIndex == List(OrderHistoryBar, "local", {}, "stays", "stays")

\* The stock status is no part of what a change of the tab asks for.
InventoryReportBar == [tab |-> "list", warehouse |-> "typed", stockStatus |-> "typed"]
InventoryReport == List(InventoryReportBar, "local", {"tab"}, "remounts", "none")
LeftOut(page, c) == IF page = "reports.inventory" /\ c = "tab" THEN {"stockStatus"} ELSE {}

FinancialReportBar == [tab |-> "list", from |-> "typed", asOf |-> "typed"]
FinancialReport == List(FinancialReportBar, "local", {}, "none", "none")

JournalsBar == [search |-> "typed", status |-> "typed", from |-> "typed"]
JournalsIndex == List(JournalsBar, "local", {}, "remounts", "stays")

GeneralLedgerBar == [account |-> "typed", from |-> "typed"]
GeneralLedgerPage == List(GeneralLedgerBar, "local", {}, "none", "none")

TrialBalanceBar == [asOf |-> "typed", from |-> "typed"]
TrialBalancePage == List(TrialBalanceBar, "local", {}, "none", "none")

BalanceSheetBar == [asOf |-> "typed"]
BalanceSheetPage == List(BalanceSheetBar, "local", {}, "none", "none")

ProfitLossBar == [from |-> "typed", to |-> "typed"]
ProfitLossPage == List(ProfitLossBar, "local", {}, "none", "none")

ReconciliationBar == [account |-> "typed", asOf |-> "typed"]
ReconciliationPage == List(ReconciliationBar, "local", {}, "none", "none")

CustomerLedgerBar == [date |-> "local"]
CustomerLedgerShow == List(CustomerLedgerBar, "local", {}, "none", "remounts")

\* The presets set both dates at once.
StatementBar == [range |-> "erasable"]
ReceivablesStatement == List(StatementBar, "local", {}, "none", "none")

--------------------------------------------------------------------------------
\* All of them

OfficeLists ==
    [payments |-> PaymentsIndex, inventory |-> InventoryIndex, adjustments |-> AdjustmentsIndex,
     returns |-> ReturnsIndex, deliveries |-> DeliveriesIndex, orders |-> OrderQueueIndex,
     exceptions |-> ExceptionsIndex, drafts |-> DraftsIndex,
     categories |-> CategoryIndex, products |-> ProductIndex, customers |-> CustomerIndex,
     salesmen |-> SalesmanIndex, notifications |-> NotificationIndex, timeline |-> AuditTimeline]

MoneyLists ==
    [refunds |-> RefundsIndex, credits |-> CreditsIndex, invoices |-> InvoicesIndex,
     receivables |-> ReceivablesIndex, payables |-> PayablesIndex, journals |-> JournalsIndex,
     reconciliation |-> ReconciliationPage, statement |-> ReceivablesStatement]

ListOf(page) ==
    CASE page \in DOMAIN OfficeLists -> OfficeLists[page]
      [] page \in DOMAIN MoneyLists -> MoneyLists[page]
      [] page = "salesman.orders" -> OrderHistoryIndex
      [] page = "tax-profiles" -> TaxProfileIndex
      [] page = "security.log" -> SecurityLogsIndex
      [] page = "receivables.show" -> CustomerLedgerShow
      [] page = "general-ledger" -> GeneralLedgerPage
      [] page = "trial-balance" -> TrialBalancePage
      [] page = "balance-sheet" -> BalanceSheetPage
      [] page = "profit-loss" -> ProfitLossPage
      [] page = "reports.sales" -> SalesReport
      [] page = "reports.delivery" -> DeliveryReport
      [] page = "reports.salesmen" -> SalesmenReport
      [] page = "reports.customers" -> CustomersReport
      [] page = "reports.inventory" -> InventoryReport
      [] page = "reports.financial" -> FinancialReport

ListPageNames ==
    DOMAIN OfficeLists \cup DOMAIN MoneyLists
    \cup {"salesman.orders", "tax-profiles", "security.log", "receivables.show",
          "general-ledger", "trial-balance", "balance-sheet", "profit-loss", "reports.sales",
          "reports.delivery", "reports.salesmen", "reports.customers", "reports.inventory",
          "reports.financial"}
================================================================================
