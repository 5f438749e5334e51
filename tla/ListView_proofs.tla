---------------------------- MODULE ListView_proofs ----------------------------
(***************************************************************************)
(* Proofs about ListView: for every list of ListPages and any number of    *)
(* steps.                                                                  *)
(***************************************************************************)
EXTENDS ListView, TLAPS

--------------------------------------------------------------------------------
\* The lists

Kinds == {"list", "local", "typed", "erasable", "delayed"}

\* What the modules of the pages have in common.  A reset leaves alone only controls that show
\* the list; where a search is delayed, nothing else waits to be submitted, and a page that
\* starts from its controls delays all of them.
PageSound(page) ==
    LET controls == DOMAIN page.bar IN
    /\ controls # {} /\ \A c \in controls : page.bar[c] \in Kinds
    /\ page.base \in {"list", "local"}
    /\ \A c \in controls \cap page.keeps : page.bar[c] = "list"
    /\ \A c, d \in controls :
          page.bar[c] = "delayed" =>
             IF page.base = "local" THEN page.bar[d] = "delayed"
                                    ELSE page.bar[d] \notin {"typed", "erasable"}

ListedPages ==
    {PaymentsIndex, InventoryIndex, AdjustmentsIndex, ReturnsIndex,
     DeliveriesIndex, OrderQueueIndex, SalesReport, DeliveryReport,
     SalesmenReport, CustomersReport, CategoryIndex, ProductIndex, CustomerIndex,
     SalesmanIndex, TaxProfileIndex, RefundsIndex, CreditsIndex, InvoicesIndex,
     ReceivablesIndex, PayablesIndex, AuditTimeline, SecurityLogsIndex,
     NotificationIndex, ExceptionsIndex, DraftsIndex, OrderHistoryIndex,
     InventoryReport, FinancialReport, JournalsIndex, GeneralLedgerPage,
     TrialBalancePage, BalanceSheetPage, ProfitLossPage, ReconciliationPage,
     CustomerLedgerShow, ReceivablesStatement}

LEMMA PagesAreSound == \A page \in ListedPages : PageSound(page)
<1>1. PageSound(PaymentsIndex)
  BY DEF PageSound, Kinds, List, PaymentsIndex, PaymentsBar
<1>2. PageSound(InventoryIndex)
  BY DEF PageSound, Kinds, List, InventoryIndex, InventoryBar
<1>3. PageSound(AdjustmentsIndex)
  BY DEF PageSound, Kinds, List, AdjustmentsIndex, AdjustmentsBar
<1>4. PageSound(ReturnsIndex)
  BY DEF PageSound, Kinds, List, ReturnsIndex, ReturnsBar
<1>5. PageSound(DeliveriesIndex)
  BY DEF PageSound, Kinds, List, DeliveriesIndex, DeliveriesBar
<1>6. PageSound(OrderQueueIndex)
  BY DEF PageSound, Kinds, List, OrderQueueIndex, OrderQueueBar
<1>7. PageSound(SalesReport)
  BY DEF PageSound, Kinds, List, SalesReport, SalesReportBar
<1>8. PageSound(DeliveryReport)
  BY DEF PageSound, Kinds, List, DeliveryReport, DeliveryReportBar
<1>9. PageSound(SalesmenReport)
  BY DEF PageSound, Kinds, List, SalesmenReport, SalesmenReportBar
<1>10. PageSound(CustomersReport)
  BY DEF PageSound, Kinds, List, CustomersReport, CustomersReportBar
<1>11. PageSound(CategoryIndex)
  BY DEF PageSound, Kinds, List, CategoryIndex, CategoryBar
<1>12. PageSound(ProductIndex)
  BY DEF PageSound, Kinds, List, ProductIndex, ProductBar
<1>13. PageSound(CustomerIndex)
  BY DEF PageSound, Kinds, List, CustomerIndex, CustomerBar
<1>14. PageSound(SalesmanIndex)
  BY DEF PageSound, Kinds, List, SalesmanIndex, SalesmanBar
<1>15. PageSound(TaxProfileIndex)
  BY DEF PageSound, Kinds, List, TaxProfileIndex, TaxProfileBar
<1>16. PageSound(RefundsIndex)
  BY DEF PageSound, Kinds, List, RefundsIndex, RefundsBar
<1>17. PageSound(CreditsIndex)
  BY DEF PageSound, Kinds, List, CreditsIndex, CreditsBar
<1>18. PageSound(InvoicesIndex)
  BY DEF PageSound, Kinds, List, InvoicesIndex, InvoicesBar
<1>19. PageSound(ReceivablesIndex)
  BY DEF PageSound, Kinds, List, ReceivablesIndex, ReceivablesBar
<1>20. PageSound(PayablesIndex)
  BY DEF PageSound, Kinds, List, PayablesIndex, PayablesBar
<1>21. PageSound(AuditTimeline)
  BY DEF PageSound, Kinds, List, AuditTimeline, TimelineBar
<1>22. PageSound(SecurityLogsIndex)
  BY DEF PageSound, Kinds, List, SecurityLogsIndex, SecurityLogBar
<1>23. PageSound(NotificationIndex)
  BY DEF PageSound, Kinds, List, NotificationIndex, NotificationsBar
<1>24. PageSound(ExceptionsIndex)
  BY DEF PageSound, Kinds, List, ExceptionsIndex, ExceptionsBar
<1>25. PageSound(DraftsIndex)
  BY DEF PageSound, Kinds, List, DraftsIndex, DraftsBar
<1>26. PageSound(OrderHistoryIndex)
  BY DEF PageSound, Kinds, List, OrderHistoryIndex, OrderHistoryBar
<1>27. PageSound(InventoryReport)
  BY DEF PageSound, Kinds, List, InventoryReport, InventoryReportBar
<1>28. PageSound(FinancialReport)
  BY DEF PageSound, Kinds, List, FinancialReport, FinancialReportBar
<1>29. PageSound(JournalsIndex)
  BY DEF PageSound, Kinds, List, JournalsIndex, JournalsBar
<1>30. PageSound(GeneralLedgerPage)
  BY DEF PageSound, Kinds, List, GeneralLedgerPage, GeneralLedgerBar
<1>31. PageSound(TrialBalancePage)
  BY DEF PageSound, Kinds, List, TrialBalancePage, TrialBalanceBar
<1>32. PageSound(BalanceSheetPage)
  BY DEF PageSound, Kinds, List, BalanceSheetPage, BalanceSheetBar
<1>33. PageSound(ProfitLossPage)
  BY DEF PageSound, Kinds, List, ProfitLossPage, ProfitLossBar
<1>34. PageSound(ReconciliationPage)
  BY DEF PageSound, Kinds, List, ReconciliationPage, ReconciliationBar
<1>35. PageSound(CustomerLedgerShow)
  BY DEF PageSound, Kinds, List, CustomerLedgerShow, CustomerLedgerBar
<1>36. PageSound(ReceivablesStatement)
  BY DEF PageSound, Kinds, List, ReceivablesStatement, StatementBar
<1> QED
  BY <1>1, <1>2, <1>3, <1>4, <1>5, <1>6, <1>7, <1>8, <1>9, <1>10, <1>11, <1>12, <1>13, <1>14,
     <1>15, <1>16, <1>17, <1>18, <1>19, <1>20, <1>21, <1>22, <1>23, <1>24, <1>25, <1>26,
     <1>27, <1>28, <1>29, <1>30, <1>31, <1>32, <1>33, <1>34, <1>35, <1>36 DEF ListedPages

OfficeNames ==
    {"payments", "inventory", "adjustments", "returns", "deliveries", "orders", "exceptions",
     "drafts", "categories", "products", "customers", "salesmen", "notifications", "timeline"}

LEMMA OfficeListsAre ==
    DOMAIN OfficeLists = OfficeNames /\ \A name \in OfficeNames : OfficeLists[name] \in ListedPages
<1>1. DOMAIN OfficeLists = OfficeNames
  BY DEF OfficeLists, OfficeNames
<1>2. \A name \in {"payments", "inventory", "adjustments", "returns", "deliveries", "orders", "exceptions",
        "drafts", "categories", "products", "customers", "salesmen", "notifications", "timeline"} :
        OfficeLists[name] \in ListedPages
  BY DEF OfficeLists, ListedPages
<1> QED
  BY <1>1, <1>2 DEF OfficeNames

MoneyNames ==
    {"refunds", "credits", "invoices", "receivables", "payables", "journals", "reconciliation",
     "statement"}

LEMMA MoneyListsAre ==
    DOMAIN MoneyLists = MoneyNames /\ \A name \in MoneyNames : MoneyLists[name] \in ListedPages
<1>1. DOMAIN MoneyLists = MoneyNames
  BY DEF MoneyLists, MoneyNames
<1>2. \A name \in {"refunds", "credits", "invoices", "receivables", "payables", "journals", "reconciliation",
        "statement"} :
        MoneyLists[name] \in ListedPages
  BY DEF MoneyLists, ListedPages
<1> QED
  BY <1>1, <1>2 DEF MoneyNames

OtherNames ==
    {"salesman.orders", "tax-profiles", "security.log", "receivables.show", "general-ledger",
     "trial-balance", "balance-sheet", "profit-loss", "reports.sales", "reports.delivery",
     "reports.salesmen", "reports.customers", "reports.inventory", "reports.financial"}

LEMMA OtherListsAre == \A name \in OtherNames : ListOf(name) \in ListedPages
<1>1. \A name \in OtherNames : name \notin DOMAIN OfficeLists /\ name \notin DOMAIN MoneyLists
  BY OfficeListsAre, MoneyListsAre DEF OtherNames, OfficeNames, MoneyNames
<1>2. ASSUME NEW name \in OtherNames PROVE ListOf(name) \in ListedPages
  <2>1. name \notin DOMAIN OfficeLists /\ name \notin DOMAIN MoneyLists
    BY <1>1
  <2>2. name \in {"salesman.orders", "tax-profiles", "security.log", "receivables.show",
            "general-ledger", "trial-balance", "balance-sheet", "profit-loss"}
        => ListOf(name) \in ListedPages
    BY <2>1 DEF ListOf, ListedPages
  <2>3. name \in {"reports.sales", "reports.delivery", "reports.salesmen", "reports.customers",
            "reports.inventory", "reports.financial"}
        => ListOf(name) \in ListedPages
    BY <2>1 DEF ListOf, ListedPages
  <2> QED
    BY <2>2, <2>3 DEF OtherNames
<1> QED
  BY <1>2

LEMMA ListsAreSound ==
    ASSUME NEW name \in ListPageNames
    PROVE  PageSound(ListOf(name))
<1>1. CASE name \in DOMAIN OfficeLists
  <2>1. ListOf(name) = OfficeLists[name]
    BY <1>1, OfficeListsAre, MoneyListsAre DEF ListOf, OfficeNames, MoneyNames
  <2>2. OfficeLists[name] \in ListedPages
    BY <1>1, OfficeListsAre
  <2> QED
    BY <2>1, <2>2, PagesAreSound
<1>2. CASE name \in DOMAIN MoneyLists
  <2>1. name \notin DOMAIN OfficeLists
    BY <1>2, MoneyListsAre, OfficeListsAre DEF MoneyNames, OfficeNames
  <2>2. ListOf(name) = MoneyLists[name]
    BY <1>2, <2>1, MoneyListsAre DEF ListOf, MoneyNames
  <2>3. MoneyLists[name] \in ListedPages
    BY <1>2, MoneyListsAre
  <2> QED
    BY <2>2, <2>3, PagesAreSound
<1>3. CASE name \notin DOMAIN OfficeLists \cup DOMAIN MoneyLists
  <2>1. ListOf(name) \in ListedPages
    BY <1>3, OtherListsAre DEF ListPageNames, OtherNames
  <2> QED
    BY <2>1, PagesAreSound
<1> QED
  BY <1>1, <1>2, <1>3

LEMMA OrdersAre ==
    /\ ListOf("orders").base = "list" /\ "search" \in DOMAIN ListOf("orders").bar
    /\ ListOf("orders").bar["search"] = "delayed"
    /\ \A c \in DOMAIN ListOf("orders").bar \ {"search"} : ListOf("orders").bar[c] = "list"
<1>1. ListOf("orders") = OrderQueueIndex
  <2>1. "orders" \in DOMAIN OfficeLists /\ "orders" \notin DOMAIN MoneyLists
    BY OfficeListsAre, MoneyListsAre DEF OfficeNames, MoneyNames
  <2>2. ListOf("orders") = OfficeLists["orders"]
    BY <2>1 DEF ListOf
  <2> QED
    BY <2>2 DEF OfficeLists
<1> QED
  BY <1>1 DEF OrderQueueIndex, OrderQueueBar, List

LEMMA LeftOutAre ==
    ASSUME NEW name, NEW c, NEW d \in LeftOut(name, c)
    PROVE  ListOf(name).base = "local" /\ ListOf(name).bar[d] = "typed"
<1>1. name = "reports.inventory" /\ d = "stockStatus"
  BY DEF LeftOut
<1>2. ListOf("reports.inventory") = InventoryReport
  <2>1. "reports.inventory" \notin DOMAIN OfficeLists \cup DOMAIN MoneyLists
    BY OfficeListsAre, MoneyListsAre DEF OfficeNames, MoneyNames
  <2> QED
    BY <2>1 DEF ListOf
<1> QED
  BY <1>1, <1>2 DEF InventoryReport, InventoryReportBar, List

--------------------------------------------------------------------------------
\* The page that is looked at, and the invariant

PageIs ==
    /\ Controls # {} /\ \A c \in Controls : Page.bar[c] \in Kinds
    /\ Page.base \in {"list", "local"}
    /\ \A c \in Controls : c \in Page.keeps => Page.bar[c] = "list"
    /\ \A c, d \in Controls :
          Page.bar[c] = "delayed" =>
             IF Page.base = "local" THEN Page.bar[d] = "delayed"
                                    ELSE Page.bar[d] \notin {"typed", "erasable"}
    /\ list = "orders" =>
          /\ Page.base = "list" /\ "search" \in Controls /\ Page.bar["search"] = "delayed"
          /\ \A c \in Controls : c # "search" => Page.bar[c] = "list"
    /\ \A c, d : d \in LeftOut(list, c) => Page.base = "local" /\ Page.bar[d] = "typed"

LEMMA ThePageIs == ASSUME list \in Lists PROVE PageIs
<1>1. PageSound(Page)
  BY ListViewAssumption, ListsAreSound DEF Page
<1>2. list = "orders" =>
          /\ Page.base = "list" /\ "search" \in Controls /\ Page.bar["search"] = "delayed"
          /\ \A c \in Controls : c # "search" => Page.bar[c] = "list"
  BY OrdersAre DEF Page, Controls
<1>3. \A c, d : d \in LeftOut(list, c) => Page.base = "local" /\ Page.bar[d] = "typed"
  BY LeftOutAre DEF Page
<1> QED
  BY <1>1, <1>2, <1>3 DEF PageIs, PageSound, Controls

\* The controls that say something of their own: the others show the list.
Kept == Controls \ OfKind({"list"})

\* Nothing is under way, and the list is as it was asked for;
Settled ==
    /\ ~timer.due /\ visit = NoVisit /\ asked = applied
    /\ \A c \in Kept \ typed : told[c] = applied[c]

\* or a request asks for all that was asked for (the queue of orders may have yet to take its
\* search over);
OnItsWay ==
    /\ ~timer.due /\ visit # NoVisit /\ asked = visit.query
    /\ \A c \in Kept \ typed :
          told[c] = visit.query[c] \/ (list = "orders" /\ c = "search" /\ told[c] = applied[c])

\* or a delayed request is due that will ask for what the controls say;
DueFromControls == timer.due /\ Page.base = "local" /\ asked = told

\* or one that will ask for the searches, and for the list as it is otherwise.
DueFromList ==
    /\ timer.due /\ Page.base = "list" /\ visit = NoVisit /\ timer.seen = applied
    /\ \A c \in Controls : asked[c] = IF c \in Delayed THEN told[c] ELSE applied[c]
    /\ \A c \in Kept \ Delayed : told[c] = applied[c]

InStep == Settled \/ OnItsWay \/ DueFromControls \/ DueFromList

WellFormed ==
    /\ ListTypeOK
    /\ ~timer.due => timer = NoTimer
    /\ timer.due => timer.seen \in [Controls -> 0..1]

ListInv == WellFormed /\ (muddle = {} => InStep)

LEMMA AskIsAVisit ==
    ASSUME PageIs, NEW query, DOMAIN query = Controls, NEW stays,
           visit' = [query |-> query, stays |-> stays]
    PROVE  visit' # NoVisit /\ visit'.query = query
<1>1. DOMAIN query # DOMAIN NoVisit.query
  BY DEF PageIs, NoVisit
<1>2. visit'.query = query
  OBVIOUS
<1>3. CASE visit' = NoVisit
  BY <1>1, <1>2, <1>3
<1> QED
  BY <1>2, <1>3

\* A control shows 0 or 1, and a request has a value for every control.
LEMMA ShownIs ==
    ASSUME WellFormed, NEW state \in [Controls -> 0..1]
    PROVE  /\ \A c \in Controls : Shown(state, c) \in 0..1
           /\ Base(state) \in [Controls -> 0..1]
<1>1. \A c \in Controls : Shown(state, c) \in 0..1
  BY DEF WellFormed, ListTypeOK, Shown
<1> QED
  BY <1>1 DEF Base, WellFormed, ListTypeOK

LEMMA InitKeeps == Init => ListInv
<1> SUFFICES ASSUME Init PROVE ListInv
  OBVIOUS
<1>1. WellFormed
  BY DEF Init, WellFormed, ListTypeOK, NoTimer
<1>2. Settled
  BY DEF Init, Settled, NoTimer, Kept
<1> QED
  BY <1>1, <1>2 DEF ListInv, InStep

SamePage == list' = list /\ Page' = Page /\ Controls' = Controls

LEMMA PageStays == ASSUME list' = list PROVE SamePage
  BY DEF SamePage, Page, Controls

\* A delayed request that is made for the searches, or the one there was.
TimerFits(t) ==
    /\ ~t.due => t = NoTimer
    /\ t.due => t.seen \in [Controls -> 0..1] /\ Delayed # {}

LEMMA SetTimerFits ==
    ASSUME WellFormed, NEW state, SetTimer(state)
    PROVE  /\ TimerFits(timer')
           /\ IF \E c \in Delayed : state[c] # told[c]
              THEN timer'.due /\ timer'.seen = applied ELSE timer' = timer
<1>1. CASE \E c \in Delayed : state[c] # told[c]
  <2>1. timer' = [due |-> TRUE, seen |-> applied]
    BY <1>1 DEF SetTimer
  <2> QED
    BY <1>1, <2>1 DEF TimerFits, WellFormed, ListTypeOK
<1>2. CASE ~\E c \in Delayed : state[c] # told[c]
  <2>1. timer' = timer
    BY <1>2 DEF SetTimer
  <2> QED
    BY <1>2, <2>1 DEF TimerFits, WellFormed, ListTypeOK
<1> QED
  BY <1>1, <1>2

Texts == OfKind({"typed", "erasable"})

LEMMA WellFormedNext ==
    ASSUME WellFormed, list' = list,
           applied' \in [Controls -> 0..1], told' \in [Controls -> 0..1], asked' \in [Controls -> 0..1],
           typed' \subseteq Texts, visit' # NoVisit => visit'.query \in [Controls -> 0..1],
           TimerFits(timer'), muddle' \subseteq {"hurry", "lost", "reset", "left out"}
    PROVE  WellFormed'
<1>1. SamePage
  BY PageStays
<1>2. NoVisit' = NoVisit /\ NoTimer' = NoTimer
  BY DEF NoVisit, NoTimer
<1>3. ListTypeOK'
  BY <1>1, <1>2 DEF ListTypeOK, SamePage, OfKind, Delayed, Texts, TimerFits, WellFormed
<1> QED
  BY <1>1, <1>2, <1>3 DEF WellFormed, SamePage, TimerFits

LEMMA TimerOfNow == ASSUME WellFormed PROVE TimerFits(timer)
  BY DEF WellFormed, ListTypeOK, TimerFits

LEMMA HurriedIs ==
    ASSUME PageIs
    PROVE  /\ Hurried \subseteq {"hurry"}
           /\ Hurried = {} => Page.base = "local" \/ (visit = NoVisit /\ ~timer.due)
  BY DEF Hurried, PageIs

LEMMA TypeKeepsType ==
    ASSUME WellFormed, PageIs, NEW c \in Controls, Type(c)
    PROVE  WellFormed'
<1> DEFINE now == [told EXCEPT ![c] = 1 - @]
<1>1. /\ list' = list /\ applied' = applied /\ told' = now /\ visit' = visit
  BY DEF Type, Act
<1>2. told \in [Controls -> 0..1] /\ now \in [Controls -> 0..1]
  <2>1. told \in [Controls -> 0..1]
    BY DEF WellFormed, ListTypeOK
  <2>2. told[c] \in 0..1 /\ 1 - told[c] \in 0..1
    BY <2>1
  <2> QED
    BY <2>1, <2>2
<1>3. typed' \subseteq Texts /\ muddle' \subseteq {"hurry", "lost", "reset", "left out"}
  <2>1. typed \subseteq Texts /\ muddle \subseteq {"hurry", "lost", "reset", "left out"}
    BY DEF WellFormed, ListTypeOK, Texts
  <2>2. typed' = typed \/ (c \in Texts /\ typed' = typed \cup {c})
    BY DEF Type, Texts
  <2>3. muddle' = muddle \/ muddle' = muddle \cup Hurried
    BY DEF Type
  <2> QED
    BY <2>1, <2>2, <2>3, HurriedIs
<1>4. asked' \in [Controls -> 0..1]
  <2>1. CASE asked' = asked
    BY <2>1 DEF WellFormed, ListTypeOK
  <2>2. CASE asked' = [asked EXCEPT ![c] = now[c]]
    BY <2>2, <1>2 DEF WellFormed, ListTypeOK
  <2> QED
    BY <2>1, <2>2 DEF Type
<1>5. TimerFits(timer')
  <2>1. CASE timer' = timer
    BY <2>1, TimerOfNow
  <2>2. CASE SetTimer(now)
    BY <2>2, SetTimerFits
  <2> QED
    BY <2>1, <2>2 DEF Type
<1>6. applied' \in [Controls -> 0..1] /\ (visit' # NoVisit => visit'.query \in [Controls -> 0..1])
  BY <1>1 DEF WellFormed, ListTypeOK
<1> HIDE DEF now
<1> QED
  BY <1>1, <1>2, <1>3, <1>4, <1>5, <1>6, WellFormedNext

LEMMA SubmitKeepsType ==
    ASSUME WellFormed, PageIs, Submit
    PROVE  WellFormed'
<1> DEFINE query == [c \in Controls |-> IF c \in Texts THEN told[c] ELSE Base(told)[c]]
<1>1. /\ list' = list /\ applied' = applied /\ told' = told /\ timer' = timer /\ typed' = {}
      /\ muddle' = muddle \cup Hurried
      /\ visit' = [query |-> query, stays |-> TRUE]
      /\ asked' = [c \in Controls |-> IF c \in Texts \/ Page.base = "local" THEN query[c] ELSE asked[c]]
  BY DEF Submit, Act, Ask, Texts
<1>2. told \in [Controls -> 0..1] /\ applied \in [Controls -> 0..1] /\ asked \in [Controls -> 0..1]
  BY DEF WellFormed, ListTypeOK
<1>3. query \in [Controls -> 0..1]
  BY <1>2, ShownIs
<1> HIDE DEF query
<1>4. asked' \in [Controls -> 0..1]
  BY <1>1, <1>2, <1>3
<1>5. visit'.query = query
  BY <1>1
<1>6. muddle' \subseteq {"hurry", "lost", "reset", "left out"}
  BY <1>1, HurriedIs DEF WellFormed, ListTypeOK
<1> QED
  BY <1>1, <1>2, <1>3, <1>4, <1>5, <1>6, TimerOfNow, WellFormedNext

LEMMA LoseKeepsType ==
    ASSUME WellFormed, PageIs, Lose
    PROVE  WellFormed'
<1>1. SamePage
  BY PageStays DEF Lose
<1> QED
  BY <1>1 DEF WellFormed, ListTypeOK, Lose, SamePage, OfKind, Delayed

LEMMA TurnKeepsType ==
    ASSUME WellFormed, PageIs, Turn
    PROVE  WellFormed'
<1>1. SamePage
  BY PageStays DEF Turn, Act
<1> QED
  BY <1>1 DEF WellFormed, ListTypeOK, Turn, Act, SamePage, OfKind, Delayed, Ask, Hurried

LEMMA ChooseKeepsType ==
    ASSUME WellFormed, PageIs, NEW c \in Controls, Choose(c)
    PROVE  WellFormed'
<1> DEFINE value == IF Page.bar[c] = "erasable" THEN 0 ELSE 1 - Shown(told, c)
           now == IF Page.bar[c] = "list" THEN told ELSE [told EXCEPT ![c] = value]
           query == [d \in Controls |->
                       IF d = c THEN value ELSE IF d \in LeftOut(list, c) THEN 0 ELSE Base(now)[d]]
<1>1. /\ list' = list /\ applied' = applied /\ told' = now /\ timer' = timer
      /\ typed' = IF Page.base = "local" THEN {} ELSE typed \ {c}
      /\ visit' = [query |-> query, stays |-> TRUE]
      /\ asked' = IF Page.base = "local"
                  THEN [d \in Controls |-> IF d = c THEN value ELSE Shown(now, d)]
                  ELSE [asked EXCEPT ![c] = value]
  BY DEF Choose, Act, Ask
<1>2. told \in [Controls -> 0..1] /\ applied \in [Controls -> 0..1] /\ asked \in [Controls -> 0..1]
  BY DEF WellFormed, ListTypeOK
<1>3. value \in 0..1
  <2>1. Shown(told, c) \in 0..1
    BY <1>2, ShownIs
  <2> QED
    BY <2>1
<1>4. now \in [Controls -> 0..1]
  BY <1>2, <1>3
<1>5. query \in [Controls -> 0..1]
  BY <1>3, <1>4, ShownIs
<1>6. muddle' \subseteq {"hurry", "lost", "reset", "left out"}
  BY HurriedIs DEF WellFormed, ListTypeOK, Choose
<1> HIDE DEF query, now, value
<1>7. asked' \in [Controls -> 0..1]
  BY <1>1, <1>2, <1>3, <1>4, ShownIs
<1>8. typed' \subseteq Texts
  BY <1>1 DEF WellFormed, ListTypeOK, Texts
<1>9. visit'.query = query
  BY <1>1
<1> QED
  BY <1>1, <1>2, <1>4, <1>5, <1>6, <1>7, <1>8, <1>9, TimerOfNow, WellFormedNext

LEMMA ResetKeepsType ==
    ASSUME WellFormed, PageIs, Reset
    PROVE  WellFormed'
<1> DEFINE cleared == [c \in Controls |-> IF c \in Page.keeps THEN told[c] ELSE 0]
           query == [c \in Controls |-> IF c \in Page.keeps THEN applied[c] ELSE 0]
<1>1. /\ list' = list /\ applied' = applied /\ typed' = {} /\ asked' = query
      /\ told' = IF list # "orders" THEN cleared ELSE told
      /\ SetTimer(told')
      /\ visit'.query = query
  BY DEF Reset, Act, Ask
<1>2. told \in [Controls -> 0..1] /\ applied \in [Controls -> 0..1]
  BY DEF WellFormed, ListTypeOK
<1>3. cleared \in [Controls -> 0..1] /\ query \in [Controls -> 0..1]
  BY <1>2
<1>4. muddle' \subseteq {"hurry", "lost", "reset", "left out"}
  BY HurriedIs DEF WellFormed, ListTypeOK, Reset
<1>5. TimerFits(timer')
  BY <1>1, SetTimerFits
<1> HIDE DEF cleared, query
<1> QED
  BY <1>1, <1>2, <1>3, <1>4, <1>5, WellFormedNext

LEMMA FireTimerKeepsType ==
    ASSUME WellFormed, PageIs, FireTimer
    PROVE  WellFormed'
<1>1. /\ list' = list /\ applied' = applied /\ told' = told /\ typed' = typed /\ asked' = asked
      /\ muddle' = muddle /\ timer' = NoTimer
  BY DEF FireTimer
<1>2. /\ told \in [Controls -> 0..1] /\ applied \in [Controls -> 0..1] /\ asked \in [Controls -> 0..1]
      /\ typed \subseteq Texts /\ muddle \subseteq {"hurry", "lost", "reset", "left out"}
      /\ visit # NoVisit => visit.query \in [Controls -> 0..1]
      /\ timer.seen \in [Controls -> 0..1]
  BY DEF WellFormed, ListTypeOK, Texts, FireTimer
<1>3. visit' # NoVisit => visit'.query \in [Controls -> 0..1]
  <2>1. CASE visit' = visit
    BY <2>1, <1>2
  <2>2. CASE visit' = [query |-> Base(told), stays |-> TRUE]
    BY <2>2, <1>2, ShownIs
  <2>3. CASE visit' = [query |-> [c \in Controls |-> IF c \in Delayed THEN told[c] ELSE timer.seen[c]],
                       stays |-> TRUE]
    <3>1. visit'.query = [c \in Controls |-> IF c \in Delayed THEN told[c] ELSE timer.seen[c]]
      BY <2>3
    <3> QED
      BY <3>1, <1>2
  <2> QED
    BY <2>1, <2>2, <2>3 DEF FireTimer, Ask
<1>4. TimerFits(timer')
  BY <1>1 DEF TimerFits, NoTimer
<1> QED
  BY <1>1, <1>2, <1>3, <1>4, WellFormedNext

LEMMA AnswerKeepsType ==
    ASSUME WellFormed, PageIs, Answer
    PROVE  WellFormed'
<1>1. list' = list /\ applied' = visit.query /\ visit' = NoVisit
  BY DEF Answer
<1>2. /\ told \in [Controls -> 0..1] /\ applied \in [Controls -> 0..1] /\ asked \in [Controls -> 0..1]
      /\ typed \subseteq Texts /\ muddle \subseteq {"hurry", "lost", "reset", "left out"}
      /\ visit.query \in [Controls -> 0..1]
  BY DEF WellFormed, ListTypeOK, Texts, Answer
<1>3. CASE visit.stays
  <2> DEFINE now == IF list = "orders" /\ applied.search # visit.query.search
                    THEN [told EXCEPT !.search = visit.query.search] ELSE told
  <2>1. /\ told' = now /\ typed' = typed /\ asked' = asked /\ muddle' = muddle
        /\ timer' = IF now # told THEN [due |-> TRUE, seen |-> visit.query] ELSE timer
    BY <1>3 DEF Answer
  <2>2. now \in [Controls -> 0..1]
    BY <1>2 DEF PageIs
  <2>3. now # told => Delayed # {}
    BY DEF PageIs, Delayed, OfKind
  <2> HIDE DEF now
  <2>4. TimerFits(timer')
    <3>1. CASE now # told
      <4>1. timer'.due /\ timer'.seen = visit.query
        BY <2>1, <3>1
      <4> QED
        BY <4>1, <3>1, <2>3, <1>2 DEF TimerFits
    <3>2. CASE now = told
      BY <3>2, <2>1, TimerOfNow
    <3> QED
      BY <3>1, <3>2
  <2> QED
    BY <1>1, <1>2, <2>1, <2>2, <2>4, WellFormedNext
<1>4. CASE ~visit.stays
  <2>1. told' = visit.query /\ asked' = visit.query /\ typed' = {} /\ timer' = NoTimer /\ muddle' = {}
    BY <1>4 DEF Answer
  <2>2. TimerFits(timer')
    BY <2>1 DEF TimerFits, NoTimer
  <2> QED
    BY <1>1, <1>2, <2>1, <2>2, WellFormedNext
<1> QED
  BY <1>3, <1>4

--------------------------------------------------------------------------------
\* The list stays in step with what its controls say

LEMMA SameKinds ==
    ASSUME list' = list
    PROVE  /\ Page' = Page /\ Controls' = Controls
           /\ Kept' = Kept /\ Delayed' = Delayed /\ Texts' = Texts
  BY PageStays DEF SamePage, Kept, Delayed, Texts, OfKind

\* What the kinds of the controls have to do with each other.
LEMMA KindsAre ==
    ASSUME WellFormed, PageIs
    PROVE  /\ Texts \subseteq Kept /\ Delayed \subseteq Kept /\ Kept \subseteq Controls
           /\ typed \subseteq Texts
           /\ Delayed # {} => Texts = {} /\ typed = {}
           /\ Delayed # {} /\ Page.base = "local" => Delayed = Controls /\ Kept = Controls
           /\ \A c \in Kept : c \notin Page.keeps /\ Page.bar[c] # "list"
           /\ timer.due => Delayed # {}
           /\ list = "orders" => Delayed = {"search"} /\ Kept = {"search"} /\ Page.base = "list"
<1>1. typed \subseteq Texts /\ (timer.due => Delayed # {})
  BY DEF WellFormed, ListTypeOK, Texts
<1>2. Texts \subseteq Kept /\ Delayed \subseteq Kept /\ Kept \subseteq Controls
  BY DEF Kept, Texts, Delayed, OfKind
<1>3. Delayed # {} => Texts = {}
  BY DEF Delayed, Texts, OfKind, PageIs
<1>4. Delayed # {} /\ Page.base = "local" => Delayed = Controls
  BY DEF Delayed, OfKind, PageIs
<1>5. \A c \in Kept : c \notin Page.keeps /\ Page.bar[c] # "list"
  BY DEF Kept, OfKind, PageIs
<1>6. list = "orders" => Delayed = {"search"} /\ Kept = {"search"} /\ Page.base = "list"
  BY DEF Delayed, Kept, OfKind, PageIs
<1> QED
  BY <1>1, <1>2, <1>3, <1>4, <1>5, <1>6

LEMMA TypeKeepsStep ==
    ASSUME WellFormed, PageIs, InStep, NEW c \in Controls, Type(c), muddle' = {}
    PROVE  InStep'
<1> DEFINE now == [told EXCEPT ![c] = 1 - @]
<1>1. list' = list /\ applied' = applied /\ told' = now /\ visit' = visit
  BY DEF Type, Act
<1>2. told \in [Controls -> 0..1] /\ asked \in [Controls -> 0..1]
  BY DEF WellFormed, ListTypeOK
<1>3. \A d \in Controls : now[d] = IF d = c THEN 1 - told[c] ELSE told[d]
  BY <1>2
<1>4. now \in [Controls -> Int] /\ now[c] # told[c]
  <2>1. told[c] \in 0..1
    BY <1>2
  <2> QED
    BY <1>2, <2>1
<1> HIDE DEF now
<1>5. CASE c \in Texts
  <2>1. typed' = typed \cup {c} /\ timer' = timer /\ asked' = asked
    BY <1>5 DEF Type, Texts, Delayed, OfKind
  <2>2. ~timer.due
    BY <1>5, KindsAre
  <2>3. CASE Settled
    BY <1>1, <1>3, <2>1, <2>2, <2>3, SameKinds, KindsAre DEF Settled, InStep, NoVisit
  <2>4. CASE OnItsWay
    BY <1>1, <1>3, <2>1, <2>2, <2>4, SameKinds, KindsAre DEF OnItsWay, InStep, NoVisit
  <2> QED
    BY <2>2, <2>3, <2>4 DEF InStep, DueFromControls, DueFromList
<1>6. CASE c \notin Texts
  <2>1. /\ c \in Delayed /\ SetTimer(now) /\ typed' = typed /\ muddle' = muddle \cup Hurried
        /\ asked' = [asked EXCEPT ![c] = now[c]]
    BY <1>6 DEF Type, Texts, now
  <2>2. Hurried = {}
    BY <2>1
  <2>3. timer'.due /\ timer'.seen = applied
    BY <1>4, <2>1, SetTimerFits
  <2>4. \A d \in Controls : asked'[d] = IF d = c THEN now[c] ELSE asked[d]
    BY <1>2, <2>1
  <2>5. typed = {} /\ Delayed # {}
    BY <2>1, KindsAre
  <2>6. CASE Page.base = "local"
    <3>1. Kept = Controls /\ list # "orders"
      BY <2>5, <2>6, KindsAre
    <3>2. \A d \in Controls : asked[d] = told[d]
      BY <2>5, <3>1, <2>6 DEF InStep, Settled, OnItsWay, DueFromControls, DueFromList
    <3>3. \A d \in Controls : asked'[d] = now[d]
      BY <3>2, <2>4, <1>3, <1>4
    <3>4. asked' = now
      BY <3>3, <2>1, <1>2, <1>4
    <3> QED
      BY <3>4, <2>6, <2>3, <1>1, SameKinds DEF InStep, DueFromControls
  <2>7. CASE Page.base # "local"
    <3>1. visit = NoVisit /\ ~timer.due /\ Page.base = "list"
      BY <2>2, <2>7, HurriedIs DEF PageIs
    <3>2. Settled
      BY <3>1 DEF InStep, OnItsWay, DueFromControls, DueFromList
    <3>3. \A d \in Controls : asked'[d] = IF d \in Delayed THEN told'[d] ELSE applied[d]
      BY <3>2, <2>1, <2>4, <2>5, <1>1, <1>3, <1>4, KindsAre DEF Settled
    <3>4. \A d \in Kept \ Delayed : told'[d] = applied[d]
      BY <3>2, <2>1, <2>5, <1>1, <1>3, KindsAre DEF Settled
    <3>5. visit' = NoVisit' /\ Page'.base = "list" /\ timer'.seen = applied'
      BY <3>1, <1>1, <2>3, SameKinds DEF NoVisit
    <3> QED
      BY <3>3, <3>4, <3>5, <2>3, <1>1, SameKinds DEF InStep, DueFromList
  <2> QED
    BY <2>6, <2>7
<1> QED
  BY <1>5, <1>6

LEMMA SubmitKeepsStep ==
    ASSUME WellFormed, PageIs, InStep, Submit, muddle' = {}
    PROVE  InStep'
<1> DEFINE query == [c \in Controls |-> IF c \in Texts THEN told[c] ELSE Base(told)[c]]
<1>1. /\ list' = list /\ applied' = applied /\ told' = told /\ timer' = timer /\ typed' = {}
      /\ Texts # {} /\ Hurried = {}
      /\ visit' = [query |-> query, stays |-> TRUE]
      /\ asked' = [c \in Controls |-> IF c \in Texts \/ Page.base = "local" THEN query[c] ELSE asked[c]]
  BY DEF Submit, Act, Ask, Texts
<1>2. /\ told \in [Controls -> 0..1] /\ applied \in [Controls -> 0..1] /\ asked \in [Controls -> 0..1]
  BY DEF WellFormed, ListTypeOK
<1>3. visit' # NoVisit' /\ visit'.query = query
  BY <1>1, AskIsAVisit DEF NoVisit
<1>4. ~timer.due
  BY <1>1, KindsAre
<1>5. query \in [Controls -> 0..1] /\ asked' \in [Controls -> 0..1]
  <2>1. query \in [Controls -> 0..1]
    BY <1>2, ShownIs
  <2> QED
    BY <2>1, <1>1, <1>2
<1>6. CASE Page.base = "local"
  <2>1. asked' = query
    BY <1>1, <1>5, <1>6
  <2>2. \A c \in Kept : told[c] = query[c]
    BY <1>6, KindsAre DEF Base, Shown
  <2> HIDE DEF query
  <2> QED
    BY <1>1, <1>3, <1>4, <2>1, <2>2, SameKinds DEF InStep, OnItsWay
<1>7. CASE Page.base # "local"
  <2>1. Settled
    BY <1>1, <1>4, <1>7, HurriedIs DEF InStep, OnItsWay, DueFromControls, DueFromList
  <2>2. \A c \in Controls : query[c] = IF c \in Texts THEN told[c] ELSE applied[c]
    BY <1>7 DEF Base, PageIs
  <2>3. \A c \in Kept : told[c] = query[c]
    BY <2>1, <2>2, KindsAre DEF Settled
  <2>4. \A c \in Controls : asked'[c] = query[c]
    BY <2>1, <2>2, <1>1, <1>7 DEF Settled
  <2>5. asked' = query
    BY <2>4, <1>5
  <2> HIDE DEF query
  <2> QED
    BY <1>1, <1>3, <1>4, <2>3, <2>5, SameKinds DEF InStep, OnItsWay
<1> QED
  BY <1>6, <1>7

LEMMA TurnKeepsStep ==
    ASSUME WellFormed, PageIs, InStep, Turn, muddle' = {}
    PROVE  InStep'
<1>1. /\ list' = list /\ applied' = applied /\ told' = told /\ typed' = typed /\ timer' = timer
      /\ asked' = asked /\ visit = NoVisit /\ Hurried = {}
      /\ visit' = [query |-> applied, stays |-> (Page.turns = "stays")]
  BY DEF Turn, Act, Ask
<1>2. visit' # NoVisit' /\ visit'.query = applied
  BY <1>1, AskIsAVisit DEF NoVisit, WellFormed, ListTypeOK
<1>3. CASE timer.due
  <2>1. DueFromControls
    BY <1>1, <1>3, HurriedIs DEF InStep, Settled, OnItsWay, DueFromList
  <2> QED
    BY <2>1, <1>1, SameKinds DEF InStep, DueFromControls
<1>4. CASE ~timer.due
  <2>1. Settled
    BY <1>1, <1>4 DEF InStep, OnItsWay, DueFromControls, DueFromList
  <2> QED
    BY <2>1, <1>1, <1>2, <1>4, SameKinds DEF InStep, Settled, OnItsWay
<1> QED
  BY <1>3, <1>4

LEMMA ChooseKeepsStep ==
    ASSUME WellFormed, PageIs, InStep, NEW c \in Controls, Choose(c), muddle' = {}
    PROVE  InStep'
<1> DEFINE value == IF Page.bar[c] = "erasable" THEN 0 ELSE 1 - Shown(told, c)
           now == IF Page.bar[c] = "list" THEN told ELSE [told EXCEPT ![c] = value]
           query == [d \in Controls |->
                       IF d = c THEN value ELSE IF d \in LeftOut(list, c) THEN 0 ELSE Base(now)[d]]
<1>1. /\ list' = list /\ applied' = applied /\ told' = now /\ timer' = timer
      /\ typed' = IF Page.base = "local" THEN {} ELSE typed \ {c}
      /\ visit' = [query |-> query, stays |-> TRUE]
      /\ asked' = IF Page.base = "local"
                  THEN [d \in Controls |-> IF d = c THEN value ELSE Shown(now, d)]
                  ELSE [asked EXCEPT ![c] = value]
      /\ Hurried = {} /\ Page.bar[c] # "delayed"
      /\ \A d \in LeftOut(list, c) : now[d] = 0
  BY DEF Choose, Act, Ask, OfKind
<1>2. /\ told \in [Controls -> 0..1] /\ applied \in [Controls -> 0..1] /\ asked \in [Controls -> 0..1]
  BY DEF WellFormed, ListTypeOK
<1>3. visit' # NoVisit' /\ visit'.query = query
  BY <1>1, AskIsAVisit DEF NoVisit
<1>4. c \notin Delayed /\ (c \in Kept => Page.bar[c] # "list")
  BY <1>1 DEF Delayed, Kept, OfKind
<1>5. c \in Kept => now[c] = value
  BY <1>2, <1>4
<1>6. \A d \in Controls : d # c => now[d] = told[d]
  BY <1>2
<1>7. \A d \in Controls :
        query[d] = IF d = c THEN value ELSE IF d \in LeftOut(list, c) THEN 0 ELSE Base(now)[d]
  OBVIOUS
<1>8. DOMAIN query = Controls /\ query = [d \in Controls |-> query[d]]
  OBVIOUS
<1> HIDE DEF value, now, query
<1>9. CASE Page.base = "local"
  <2>1. ~timer.due
    BY <1>4, <1>9, KindsAre
  <2>2. \A d \in Controls : asked'[d] = IF d = c THEN value ELSE Shown(now, d)
    BY <1>1, <1>9
  <2>3. \A d \in LeftOut(list, c) : Page.bar[d] # "list"
    BY DEF PageIs
  <2>4. \A d \in Controls : asked'[d] = query[d]
    BY <1>1, <1>7, <1>9, <2>2, <2>3 DEF Base, Shown
  <2>5. asked' = query
    BY <1>1, <1>8, <1>9, <2>4
  <2>6. \A d \in Kept : now[d] = query[d]
    BY <1>5, <1>7, <2>2, <2>4, KindsAre DEF Shown
  <2> QED
    BY <1>1, <1>3, <2>1, <2>5, <2>6, SameKinds DEF InStep, OnItsWay
<1>10. CASE Page.base # "local"
  <2>1. Settled
    BY <1>1, <1>10, HurriedIs DEF InStep, OnItsWay, DueFromControls, DueFromList
  <2>2. \A d \in Controls : query[d] = IF d = c THEN value ELSE applied[d]
    BY <1>7, <1>10 DEF Base, PageIs
  <2>3. asked' = query
    BY <1>1, <1>2, <1>8, <1>10, <2>1, <2>2 DEF Settled
  <2>4. \A d \in Kept \ typed' : now[d] = query[d]
    BY <1>1, <1>5, <1>6, <1>10, <2>1, <2>2, KindsAre DEF Settled
  <2>5. ~timer'.due
    BY <1>1, <2>1 DEF Settled
  <2> QED
    BY <1>1, <1>3, <2>3, <2>4, <2>5, SameKinds DEF InStep, OnItsWay
<1> QED
  BY <1>9, <1>10

LEMMA ResetKeepsStep ==
    ASSUME WellFormed, PageIs, InStep, Reset, muddle' = {}
    PROVE  InStep'
<1> DEFINE cleared == [c \in Controls |-> IF c \in Page.keeps THEN told[c] ELSE 0]
           query == [c \in Controls |-> IF c \in Page.keeps THEN applied[c] ELSE 0]
<1>1. /\ list' = list /\ applied' = applied /\ typed' = {} /\ asked' = query
      /\ told' = IF list # "orders" THEN cleared ELSE told
      /\ SetTimer(told') /\ Hurried = {}
      /\ visit' = [query |-> query, stays |-> (Page.reset = "stays")]
      /\ Page.base = "list" => timer' = timer
  BY DEF Reset, Act, Ask
<1>2. /\ told \in [Controls -> 0..1] /\ applied \in [Controls -> 0..1] /\ asked \in [Controls -> 0..1]
  BY DEF WellFormed, ListTypeOK
<1>3. visit' # NoVisit' /\ visit'.query = query
  BY <1>1, AskIsAVisit DEF NoVisit
<1>4. \A c \in Kept : query[c] = 0 /\ cleared[c] = 0
  BY KindsAre
<1>5. Kept = Controls => cleared = query
  BY KindsAre
<1>6. timer' = timer \/ timer'.due
  BY <1>1, SetTimerFits
<1> HIDE DEF cleared, query
<1>7. CASE ~timer'.due
  <2>1. ~timer.due
    BY <1>6, <1>7
  <2>2. \A c \in Kept :
           told'[c] = visit'.query[c] \/ (list = "orders" /\ c = "search" /\ told'[c] = applied[c])
    <3>1. CASE list # "orders"
      BY <1>1, <1>3, <1>4, <3>1
    <3>2. CASE list = "orders"
      <4>1. Settled
        BY <1>1, <3>2, <2>1, KindsAre, HurriedIs DEF InStep, OnItsWay, DueFromControls, DueFromList
      <4>2. Kept = {"search"} /\ typed = {}
        BY <3>2, KindsAre
      <4> QED
        BY <1>1, <3>2, <4>1, <4>2 DEF Settled
    <3> QED
      BY <3>1, <3>2
  <2> QED
    BY <1>1, <1>3, <1>7, <2>2, SameKinds DEF InStep, OnItsWay
<1>8. CASE timer'.due
  <2>1. Page.base = "local"
    BY <1>1, <1>8, HurriedIs DEF PageIs
  <2>2. Delayed # {}
    <3>1. Delayed' = Delayed
      BY <1>1, SameKinds
    <3> QED
      BY <1>1, <1>8, SetTimerFits DEF TimerFits
  <2>3. Kept = Controls /\ list # "orders"
    BY <2>1, <2>2, KindsAre
  <2>4. asked' = told'
    BY <1>1, <1>5, <2>3
  <2> QED
    BY <1>1, <1>8, <2>1, <2>4, SameKinds DEF InStep, DueFromControls
<1> QED
  BY <1>7, <1>8

LEMMA FireTimerKeepsStep ==
    ASSUME WellFormed, PageIs, InStep, FireTimer
    PROVE  InStep'
<1>1. /\ list' = list /\ applied' = applied /\ told' = told /\ typed' = typed /\ asked' = asked
      /\ timer.due /\ ~timer'.due
  BY DEF FireTimer, NoTimer
<1>2. /\ told \in [Controls -> 0..1] /\ applied \in [Controls -> 0..1] /\ asked \in [Controls -> 0..1]
      /\ Delayed # {} /\ typed = {}
  BY <1>1, KindsAre DEF WellFormed, ListTypeOK
<1>3. CASE Page.base = "local"
  <2>1. DueFromControls /\ Kept = Controls /\ list # "orders"
    BY <1>1, <1>2, <1>3, KindsAre DEF InStep, Settled, OnItsWay, DueFromList
  <2>2. visit' = [query |-> Base(told), stays |-> TRUE]
    BY <1>3 DEF FireTimer, Ask
  <2>3. Base(told) = told
    <3>1. \A c \in Controls : Shown(told, c) = told[c]
      BY <2>1, KindsAre DEF Shown
    <3> QED
      BY <1>2, <1>3, <3>1 DEF Base
  <2>4. visit' # NoVisit' /\ visit'.query = told
    BY <1>2, <2>2, <2>3, AskIsAVisit DEF NoVisit
  <2> QED
    BY <1>1, <2>1, <2>4, SameKinds DEF InStep, OnItsWay, DueFromControls
<1>4. CASE Page.base # "local"
  <2> DEFINE query == [c \in Controls |-> IF c \in Delayed THEN told[c] ELSE timer.seen[c]]
  <2>1. DueFromList
    BY <1>1, <1>4 DEF InStep, Settled, OnItsWay, DueFromControls
  <2>2. asked = query
    BY <1>2, <2>1 DEF DueFromList
  <2>3. \A c \in Kept : told[c] = query[c]
    BY <2>1, KindsAre DEF DueFromList
  <2>4. CASE \E c \in Delayed : told[c] # timer.seen[c]
    <3>1. visit' = [query |-> query, stays |-> TRUE]
      BY <1>4, <2>4 DEF FireTimer, Ask
    <3>2. visit' # NoVisit' /\ visit'.query = query
      BY <3>1, AskIsAVisit DEF NoVisit
    <3> HIDE DEF query
    <3> QED
      BY <1>1, <2>2, <2>3, <3>2, SameKinds DEF InStep, OnItsWay
  <2>5. CASE ~\E c \in Delayed : told[c] # timer.seen[c]
    <3>1. visit' = visit
      BY <1>4, <2>5 DEF FireTimer
    <3>2. asked = applied
      BY <1>2, <2>1, <2>2, <2>5 DEF DueFromList
    <3>3. \A c \in Kept : told[c] = applied[c]
      BY <2>1, <2>5 DEF DueFromList
    <3> HIDE DEF query
    <3> QED
      BY <1>1, <2>1, <3>1, <3>2, <3>3, SameKinds DEF InStep, Settled, DueFromList, NoVisit
  <2> QED
    BY <2>4, <2>5
<1> QED
  BY <1>3, <1>4

LEMMA AnswerKeepsStep ==
    ASSUME WellFormed, PageIs, Answer, muddle = {} => InStep, muddle' = {}
    PROVE  InStep'
<1>1. list' = list /\ applied' = visit.query /\ visit # NoVisit /\ visit' = NoVisit'
  BY DEF Answer, NoVisit
<1>2. CASE ~visit.stays
  <2>1. told' = visit.query /\ asked' = visit.query /\ ~timer'.due
    BY <1>2 DEF Answer, NoTimer
  <2> QED
    BY <1>1, <2>1 DEF InStep, Settled
<1>3. CASE visit.stays
  <2> DEFINE now == IF list = "orders" /\ applied.search # visit.query.search
                    THEN [told EXCEPT !.search = visit.query.search] ELSE told
  <2>1. /\ told' = now /\ typed' = typed /\ asked' = asked /\ muddle' = muddle
        /\ timer' = IF now # told THEN [due |-> TRUE, seen |-> visit.query] ELSE timer
    BY <1>3 DEF Answer
  <2>2. told \in [Controls -> 0..1]
    BY DEF WellFormed, ListTypeOK
  <2>3. OnItsWay \/ DueFromControls
    BY <1>1, <2>1 DEF InStep, Settled, DueFromList
  <2>4. CASE DueFromControls
    <3>1. now = told
      BY <2>4, KindsAre DEF DueFromControls
    <3> HIDE DEF now
    <3> QED
      BY <1>1, <2>1, <2>4, <3>1, SameKinds DEF InStep, DueFromControls
  <2>5. CASE OnItsWay
    <3>1. \A c \in Kept \ typed : now[c] = visit.query[c]
      <4>1. CASE list = "orders"
        <5>1. Kept = {"search"} /\ typed = {} /\ "search" \in Controls
          BY <4>1, KindsAre
        <5>2. now["search"] = visit.query["search"]
          BY <2>2, <2>5, <4>1, <5>1 DEF OnItsWay
        <5> HIDE DEF now
        <5> QED
          BY <5>1, <5>2
      <4>2. CASE list # "orders"
        BY <2>5, <4>2 DEF OnItsWay
      <4> QED
        BY <4>1, <4>2
    <3>2. now # told => list = "orders"
      OBVIOUS
    <3> HIDE DEF now
    <3>3. CASE now = told
      BY <1>1, <2>1, <2>5, <3>1, <3>3, SameKinds DEF InStep, Settled, OnItsWay
    <3>4. CASE now # told
      <4>1. timer'.due /\ timer'.seen = visit.query
        BY <2>1, <3>4
      <4>2. Page.base = "list" /\ Delayed = Kept /\ typed = {}
        BY <3>2, <3>4, KindsAre
      <4>3. asked' = visit.query
        BY <2>1, <2>5 DEF OnItsWay
      <4>4. \A c \in Controls : asked'[c] = IF c \in Delayed THEN told'[c] ELSE applied'[c]
        BY <1>1, <2>1, <3>1, <4>2, <4>3
      <4> QED
        BY <1>1, <4>1, <4>2, <4>4, SameKinds DEF InStep, DueFromList
    <3> QED
      BY <3>3, <3>4
  <2> QED
    BY <2>3, <2>4, <2>5
<1> QED
  BY <1>2, <1>3

LEMMA StepKeeps == ListInv /\ [Next]_vars => ListInv'
<1> SUFFICES ASSUME ListInv, [Next]_vars PROVE ListInv'
  OBVIOUS
<1>1. WellFormed /\ PageIs
  BY ThePageIs DEF ListInv, WellFormed, ListTypeOK
<1>2. ASSUME NEW c \in Controls, Type(c) PROVE ListInv'
  <2>1. WellFormed'
    BY <1>1, <1>2, TypeKeepsType
  <2>2. muddle' = {} => InStep /\ InStep'
    BY <1>1, <1>2, TypeKeepsStep DEF ListInv, Type
  <2> QED
    BY <2>1, <2>2 DEF ListInv
<1>3. ASSUME NEW c \in Controls, Choose(c) PROVE ListInv'
  <2>1. WellFormed'
    BY <1>1, <1>3, ChooseKeepsType
  <2>2. muddle' = {} => InStep /\ InStep'
    BY <1>1, <1>3, ChooseKeepsStep DEF ListInv, Choose
  <2> QED
    BY <2>1, <2>2 DEF ListInv
<1>4. CASE Submit
  <2>1. WellFormed'
    BY <1>1, <1>4, SubmitKeepsType
  <2>2. muddle' = {} => InStep /\ InStep'
    BY <1>1, <1>4, SubmitKeepsStep DEF ListInv, Submit
  <2> QED
    BY <2>1, <2>2 DEF ListInv
<1>5. CASE Reset
  <2>1. WellFormed'
    BY <1>1, <1>5, ResetKeepsType
  <2>2. muddle' = {} => InStep /\ InStep'
    BY <1>1, <1>5, ResetKeepsStep DEF ListInv, Reset
  <2> QED
    BY <2>1, <2>2 DEF ListInv
<1>6. CASE Turn
  <2>1. WellFormed'
    BY <1>1, <1>6, TurnKeepsType
  <2>2. muddle' = {} => InStep /\ InStep'
    BY <1>1, <1>6, TurnKeepsStep DEF ListInv, Turn
  <2> QED
    BY <2>1, <2>2 DEF ListInv
<1>7. CASE FireTimer
  <2>1. WellFormed'
    BY <1>1, <1>7, FireTimerKeepsType
  <2>2. muddle' = {} => InStep /\ InStep'
    BY <1>1, <1>7, FireTimerKeepsStep DEF ListInv, FireTimer
  <2> QED
    BY <2>1, <2>2 DEF ListInv
<1>8. CASE Answer
  <2>1. WellFormed'
    BY <1>1, <1>8, AnswerKeepsType
  <2>2. muddle' = {} => InStep'
    BY <1>1, <1>8, AnswerKeepsStep DEF ListInv
  <2> QED
    BY <2>1, <2>2 DEF ListInv
<1>9. CASE Lose
  <2>1. WellFormed'
    BY <1>1, <1>9, LoseKeepsType
  <2>2. muddle' # {}
    BY <1>9 DEF Lose
  <2> QED
    BY <2>1, <2>2 DEF ListInv
<1>10. CASE UNCHANGED vars
  BY <1>10 DEF ListInv, WellFormed, ListTypeOK, InStep, Settled, OnItsWay, DueFromControls, DueFromList,
              vars, Kept, Delayed, OfKind, Controls, Page, NoVisit, NoTimer
<1> QED
  BY <1>2, <1>3, <1>4, <1>5, <1>6, <1>7, <1>8, <1>9, <1>10 DEF Next

--------------------------------------------------------------------------------
\* The theorems

\* For any of the lists and any number of steps, the controls stay on or off, only the texts of
\* a page wait to be submitted, a delayed request is due only where a search is delayed, and
\* with the filters the list had; and the list is in step with its controls.
THEOREM ListStaysTyped == Spec => []ListTypeOK
<1>1. ListInv => ListTypeOK
  BY DEF ListInv, WellFormed
<1> QED
  BY InitKeeps, StepKeeps, <1>1, PTL DEF Spec

\* At rest, and while muddle is empty, a list is narrowed by what its controls say, and that
\* is what was asked for last.  On the lists that start from their controls requests, delays
\* and answers may overlap as they will; on those that start from their filters muddle is
\* empty only as long as none does.
THEOREM ListsTellWhatWasAsked == Spec => []ControlsTellTheList
<1>1. ListInv => ControlsTellTheList
  <2> SUFFICES ASSUME ListInv, muddle = {}, AtRest PROVE
          \A c \in Controls \ typed : Shown(told, c) = applied[c] /\ applied[c] = asked[c]
    BY DEF ControlsTellTheList, ListIsAsAsked
  <2>1. Settled
    BY DEF ListInv, InStep, AtRest, OnItsWay, DueFromControls, DueFromList
  <2> QED
    BY <2>1 DEF Settled, Shown, Kept, OfKind
<1> QED
  BY InitKeeps, StepKeeps, <1>1, PTL DEF Spec
================================================================================
