# Wholesale distribution: a TLA+ development

This directory specifies the core of the wholesale distribution system in
`src/`: a Laravel application (PHP, PostgreSQL, React pages) in which salesmen
submit orders, administrators approve them against warehouse stock, drivers
deliver them, and payments, returns, credit notes and journals follow. TLC
checks the modules on small instances; TLAPS proves what is said under
*Theorems* for every value of the constants.

## 1. The system

All state is in one relational database. A request runs one service method; a
method authorises the actor, opens one transaction, locks the rows it needs with
`SELECT ... FOR UPDATE`, re-reads them, checks, writes, and commits or rolls back
as a whole. There is no queue or background worker in the core. What is
concurrent is *people*: staff, drivers and customers act on the same rows in any
order, through pages rendered an arbitrary time before they are posted, and may
post twice. In production the database is PostgreSQL with CHECK constraints; the
same migrations run on SQLite without them.

| component | state | operations | hard because | correct when |
|---|---|---|---|---|
| Stock balances, ledger (`Services/Inventory`) | one row per product: on hand, reserved, available, damaged, version; append-only movements | four manual adjustments, reserve, release, initialise | every write clamps with `max(0, ..)`; optimistic version held in a form | no unit is lost; the ledger explains the balance; a form is never posted on other numbers |
| Stock exceptions | quarantine tickets | report, resolve, dismiss (with or without revert) | stock moves between report and review; reserved stock can be quarantined | pending units stay in quarantine; none is reverted twice |
| Order workflow (`OrderWorkflowService`) | order statuses, items, allocations | approve, reject, cancel | all lines or none; races with delivery | the claim begins at approval and ends at closing |
| Delivery (`Services/Delivery`) | deliveries with a manifest, a driver | assign, pick up, start, complete, fail, reschedule, return | writes five tables, of which each method reads a part; the driver changes under the page | stock leaves once per delivery; nothing stays on a van that is home |
| Order drafts, submission (`OrderService`, `Pages/Salesman/Orders`) | draft row with version, idempotency key; cart of a tab, backup in `localStorage` | save, submit, discard, create, replay | several tabs, dropped visits, lost answers, retries, a key that is known | one order per key; nothing unseen is overwritten; no button spins for ever |
| Adjustments, allocations | requested reductions, allocation rows | request, withdraw, review, approve, reject, apply, reverse | applies to an order already allocated or picked; impact is computed when the page is made | reductions add up; what is ordered stays allocated; impact was shown; nobody approves his own |
| Payments, receivables | payment status, ledger rows, order payment status | record, verify, reject, resubmit, reverse | two reviewers; order total changes under it | paid status is the verified sum; one posting per source |
| Returns, credit notes, refunds | request, inspection, credit, refund status | request, inspect, approve, credit, refund | quantity and value limits across several requests | never more than delivered or credited |
| Invoices, accounting, payables | snapshots, journals, bills | issue, post, reverse, pay | idempotent posting; partial payments taken back | balanced and posted once; a bill is due for what was not paid |
| Sign-in, second factor, sessions (`Services/Auth`, `Http/Controllers/Auth`, `Security`) | account, role, secret, recovery codes; sessions and cookies of browsers | log in, challenge, enrol, disable, revoke, reset the password, change role or status | several browsers; a page outlives its session; half a sign-in | a privileged session has a second factor; a new password ends old sign-ins |
| Navigation (`routes/web.php`, layouts, pages) | what a page shows | follow a link | links are shown by flags of their own, routes check permissions | a link that is shown opens |
| Lists (36 `Index` pages and reports) | filters on the server, controls in the page | type, choose, reset, turn the page | debounced searches and Inertia visits overtake one another | a list at rest is what its controls say |
| Catalogue, customers, pricing, tax, notifications, audit, reports, files | rows of their own | create, read, update | little, except two moves of categories at once | |

How they interact: approval calls `reserveStockForOrder`, cancellation
`releaseStockForOrder`; completion writes the balance itself and records a
movement; a return's approval calls `ReturnInventoryService`; completion,
payment verification and credit notes post journals in the same transaction.
The warehouse balance is the shared resource of all of them. The pages reach the
services through Inertia: a *visit* is one request at a time per page, a visit that
starts drops the one under way, its request may still reach the server, and a page shows
the props it came with until the next answer.

## 2. Modules

    StockLedger        what an inventory promises            (abstract)
      ^ StockRefined
    Inventory          balances, ledger, exceptions, form
      ^ EXTENDS
    Fulfilment         orders, allocations, deliveries, over the same Inventory
      v CommitmentRefined
    OrderCommitment    what an order promises the warehouse  (abstract)

    ReceivableAccount  what a customer's account promises    (abstract)
      ^ AccountRefined
    Settlement         payments, invoices, adjusted totals, receivable ledger, journals

    OrderIntake        what an idempotency key promises      (abstract)
      ^ IntakeRefined
    OrderEntry         tabs of the order builder, the draft and order service

    StaffRoles         roles, permissions, the vocabulary of buttons and answers
      ^ EXTENDS
    MoneyDesk          pages and services of payments, refunds, suppliers
    FloorDesk          pages and services of orders, returns, exceptions, deliveries
    AdjustmentDesk     pages and services of order adjustments
      ^ EXTENDS (all three)
    StaffDesk          users at those pages, requests in flight

    StaffRoles <- SiteMap <- Access      pages and links; sign-in, sessions
    ListPages <- ListView                lists with their controls; a user at one

    Sums                                 a column added up over a finite set of rows;
                                         used by Inventory, Fulfilment, Settlement and the desks' proofs
    *_proofs (Sums, Inventory, Fulfilment, Settlement, OrderEntry, StaffDesk, Access,
              ListView)                  theorems
    MC*                                  instances for TLC

`Settlement` shares only the order's status with `Fulfilment` (money never looks at
stock, deliveries never at payments), so it is a module of its own with the three
steps of the order workflow that touch that status. The desks stand beside
`Fulfilment` and `Settlement` and not above them: a desk keeps of a document what
its page shows and its service checks, and is about two people, stale pages and lost
calls; `Fulfilment` and `Settlement` are about what the transactions of many documents do to
the stock and the books. Where both model a method they map the same lines.

**One method, one action.** A method's transaction locks each row before it
reads it, so its effects are atomic and it is one action, with the order of
writes inside. State read outside the transaction is state of its own: the
browser's adjustment form (`form`), what a tab or page shows, and the row on which a
user was authorised before the transaction (`Admit`, then `Serve`). A replay that finds
the work done returns early; it is a stutter or, in the desks, an answer. An error path
changes nothing: it is the action being disabled or, where a page waits for it, an answer.

### Inventory

| TLA+ | code |
|---|---|
| `balance[p]` | row of `inventory_balances` (one warehouse: the first version has no other, DEC-018) |
| `ledger[p]` | `inventory_movements` of p: row count, net quantity moved in and out of each stock state, units disposed of, "after" columns of the newest row. Rows are never read back, so the aggregate is enough |
| `exceptions` | `stock_exceptions` in creation order |
| `form` | the `useForm` state of `Pages/Admin/Inventory/Show.tsx`, with the row it was rendered from |
| `Recalculated`, `Saved`, `Recorded`, `Book` | `calculateAvailableQuantity`, the common tail `version += 1; save()`, `recordMovement` |
| `IncreaseOnHand` .. `DisposeDamaged` | the branches of `InventoryAdjustmentService::adjustBalance`; `viaForm` is whether the request carries `expected_version` |
| `ReportException`, `ResolveException`, `DismissException` | `StockExceptionService` |
| `ReserveStock`, `ReleaseStock` | `InventoryService`, all lines in one step |
| `ExecuteDisposition` | `ReturnInventoryService`, good part, refresh, damaged part |

`InventorySpec` closes the module: reservations and releases of any quantity
stand for the orders. The opening stock is a receipt of `OpeningStock` units.

### Fulfilment

| TLA+ | code |
|---|---|
| `order[o]` | `status`, `fulfillment_status`, `delivery_status` |
| `item[o][p]` | ordered and reserved quantity of the line of p (0 ordered: no line). Nothing cancels part of a line here, so `fulfillableQuantity` is the ordered quantity |
| `alloc[o][p]` | the `-01` row of `order_item_allocations` that approval creates |
| `deliveries[o]` | `deliveries` of the order, oldest first; `manifest` is `delivery_items.deliverable_quantity` |
| `ApproveOrder`, `RejectOrder`, `CancelOrder` | `OrderWorkflowService`. At this commit `cancelOrder` has no route: tests are its only callers |
| `Pick` | external. No code writes `picked_quantity`; the tests do, leaving the status ALLOCATED or making it PICKED (`PickStatuses`) |
| `AssignOrder` | `DeliveryAssignmentService::assignOrder`, reusing an open delivery or creating one from the active allocations |
| `ConfirmPickup` .. `ReturnToWarehouse` | `DeliveryWorkflowService` |
| `Committed` | the CHECKs of `order_item_allocations` and `inventory_balances`; with `DbChecks = FALSE` (SQLite) they are absent |

Statuses that no code ever sets on these rows (DRAFT is over before the model
starts; PENDING_APPROVAL, PROCESSING, COMPLETED) are not in the state space.
Customers and products are taken to be active: an inactive one only disables
`ApproveOrder` and `AssignOrder`.

### Settlement

| TLA+ | code |
|---|---|
| `order[o]` | `status`, `grand_total`, `adjustment_total`, `payment_status`; subtotal and tax are written together with the grand total and always add up to it |
| `applied[o]` | `order_adjustments` with status APPLIED, by `applied_at`: their `projected_grand_total_reduction` |
| `payments` | `payments` of one customer, oldest first; `instrument` is bank and number of a cheque, issuer and number of a money order, or `Cash`; `order` is `NoOrder` for a payment on account |
| `invoice[o]` | `invoices` (unique per order) |
| `ledger` | `receivable_transactions` as a set of (type, source, debit - credit) |
| `journals` | `journal_entries` as a set of (event, source, SYSTEM or REVERSAL, amount on account 1100, status) |
| `RecordPayment` .. `CorrectAndResubmitPayment` | `PaymentService`, `PaymentVerificationService`, `PaymentReversalService`, with the reconciliation of the order, the ledger row and the journal of the same transaction |
| `GenerateInvoice` | `InvoiceGeneratorService::generateForOrder`, which posts the charge and a journal that must balance (`InvoiceBalances`) |
| `ReverseJournal` | `JournalReversalService`, by hand |
| `ApplyAdjustment`, `ReverseAdjustment` | what `OrderAdjustmentWorkflowService` does to the totals: apply within what is left, reverse the latest |

Amounts are natural numbers of cents. `Enter` and `Posted` look for the source
before they insert, as the code does; a unique index backs both
lookups (for journals on PostgreSQL only).

### OrderEntry

| TLA+ | code |
|---|---|
| `orders` | rows of `orders` with idempotency key, status, `version`, lines; `payments` counts those recorded with it |
| `tab[t]` | the React state of `Pages/Salesman/Orders/Create.tsx`: step, cart, draft and version, key, the fetch (`saving`) and the visit it waits for |
| `storage` | the backup in `localStorage`, shared by all tabs |
| `calls` | requests in flight: `SaveDraft` is a `fetch`, `SubmitOrder` and `DiscardDraft` are visits; `Serve` then `SaveReturns`/`VisitReturns`, or `Fail` at either end |
| `OpenBuilder`, `OpenDraft`, `Restored`, `Resumed`, `CloseTab` | the two effects that fill the page and back it up; a crash or reload loses what the tab held |
| `createOrder`, `submitDraft`, `createDraft`, `updateDraft`, `discardDraft` | `OrderService`, with `resolveIdempotentReplayOrConflict`; `Collect` is the payment recorded after the order is committed |
| `FilterCatalogue` | a filter of the catalogue, which drops the visit under way and changes the address |

### MoneyDesk, FloorDesk, AdjustmentDesk, StaffDesk

For each of eight pages the desks say what is shown (`..Document`, `..Opened`), what may
happen elsewhere (`..Elsewhere`), which buttons it offers to whom (`..Buttons`), what its
dialogs can send, which flag disables a button and what clears it (`..Flag`), who is allowed (`..Allowed`,
the authorisation before the transaction) and what the service does (`..Served`).

| TLA+ (StaffDesk) | code |
|---|---|
| `kind`, `row` | the page looked at, what the database holds of it |
| `page[u]` | what user u has before him: the props, the dialog, the visit it waits for, the flags held |
| `calls` | requests: `sent`, `admitted` (authorised on the row as loaded), `answered`, `over` |
| `Load`, `Press`, `Open`, `Confirm`, `Dismiss` | what a user does; `Send` drops the visit under way |
| `Admit`, `Serve` | middleware and policy, then the transaction |
| `Return` | the answer: new props for a success or list of errors, none for a conflict, another page when denied |
| `Lose` | request or answer lost; `onFinish` runs, `onSuccess` and `onError` do not |

### SiteMap, Access

| TLA+ | code |
|---|---|
| `Needs`, `TurnedAway`, `Opens` | `routes/web.php` and the role checks of controllers |
| `AppLayout`, `OfficeLinks`, .. , `Links` | the layouts and the links of each page |
| `account` | the row of the user, his secret and recovery codes |
| `browser[b]` | page shown, session, remembering cookie, challenge under way; two history variables: `since`, the password was given here since it was replaced or all sessions ended; `outlived`, it was given before, and the challenge was open then |
| `Login`, `EnterCode`, `EnterRecoveryCode`, `Expire` | `LoginRequest`, `MfaChallengeController` |
| `enable`, `confirm`, `disable`, `regenerateRecoveryCodes` | `TwoFactorAuthenticationController` |
| `revokeSession`, `revokeOthers`, `revokeAll`, `ResetPassword`, `Revoked` | `SessionManagementController`, `NewPasswordController`, `SessionRevocationService`, which finds sessions by `user_id`: that of a challenge has none and stays |
| `assignRole`, `changeStatus` | what others do to the account, with the sessions that ends |

### ListPages, ListView

`ListPages` has one record per list: its controls by kind, what a request starts from
(the filters the list came with, or what all controls say), what a reset keeps, and whether
requests keep the page or rebuild it. `ListView` is one user at one list: `applied` (the
filters of the list), `told` (the state of the controls), `timer` (a debounced search),
`visit`, `asked` (history: what he asked of each control last) and `muddle` (history: what has
come between him and his list).

## 3. Properties and runs

Passing runs (states are distinct states found):

| run | instance | properties | shows |
|---|---|---|---|
| `inventory_ledger` | 1 product, 3 units, 6 rows, 2 tickets, quantities 1-2; 35 k states | `TypeOK`, `BalanceMath`, `LedgerReconciles`, `QuarantineCovered`, `StockRefined` | the clamps never hide a shortage; the movements replay to the balance; pending quarantined units are still there; every transaction is a booking of `StockLedger` |
| `inventory_lines` | 2 products, a form on one, returns of the other, 4 rows, 1 ticket | `NoLostUpdate` | the version guards the form against every operation except a restocked return of the same product |
| `fulfilment_warehouse` | 2 orders of 1-2 units, 3 units in stock, staff adjusting and quarantining; 456 k | `FulfilmentTypeOK`, `ReservedIsClaimed`, `LedgerReconcilesUndisturbed` | orders neither leak a reservation nor spend one another's |
| `fulfilment_lines` | 1 order, 2 lines of 0-2 units, 2 deliveries; 120 k | `RelievedOncePerDelivery`, `NothingDeliveredUnpicked`, `NoOrphanedCustody`, `OnlyApprovedClaims`, `CommitmentRefined` | one relief per completed delivery through retries and second deliveries, no delivery that by itself lists more than was picked, custody on the van of an order with one delivery, and the commitment of a whole order |
| `settlement_books` | 1 order of 1-2, payments on it and on account, 1 cheque and cash, 2 payments of 1-2, adjustments of 1; 282 k | `SettlementTypeOK`, `LedgerIsExact`, `JournalsFollowLedger`, `SummaryReconciles`, `StatusFollowsVerifiedSum`, `AccountRefined` | payments through rejection, correction, verification and reversal, with invoicing, adjustments, cancellation and manual journal reversals in between, leave no stale, missing or second posting; every decision on a payment leaves the status that the verified sum calls for; two independent computations of the balance agree |
| `order_entry` | 2 tabs, 1 product up to 2 units, 2 calls, 1 edit, with or without a draft left before; 577 k | `NoBlindOverwrite`, `PlacedIsWhatWasSent`, `IntakeRefined`, `SpinnersStop` | through lost requests and answers, dropped visits, crashed tabs and shared backups: no save overwrites lines its tab did not know of, what is reported placed is what was sent, a key names one order for good, and no button spins for ever |
| `desk_money` | a super admin, an accountant, two drivers; 2 calls, 2 documents, amounts to 2; 1.00 M | `CreditNotOverspent`, `BillsAddUp`, `InstrumentRecordedOnce`, `StaleClicksAreHarmless`, `OfferedIsAccepted` | payments, refunds, supplier bills and deliveries: limits hold across requests that each fit; a stale click does nothing that a fresh page would not offer; a fresh page is not refused but for the cases listed |
| `desk_orders` | two admins; 2 calls, 3 documents, an order of 2; 1.20 M | `CheckedByAnother`, `AllocatedInFull`, `ReductionsAddUp`, `RequestedOnce`, `StaleClicksAreHarmless`, `OfferedIsAccepted`, `ImpactWasShown` | orders, returns, exceptions and adjustments: a recorded approver is not the maker, an approved order stays allocated in full but for what reversals left, reductions add up through picking and reversal, whoever takes allocated goods back was shown that he does |
| `lists` | 36 lists, 6 steps of the user; 155 k | `ControlsTellTheList` | a list at rest is narrowed by what its controls say and by what was asked, but after a `muddle` |
| `access` | one user with 2 browsers and 2 roles, one with 1 browser, all roles and all pages; 2 secrets, 2 events; 1.16 M | `PrivilegedHasMfa`, `OldSignInsAreOver`, `LinksOpen` | no privileged session without a second factor (a remembered one apart), no session older than the password but by a challenge that was open when it was replaced (`outlived`), no dead link but the listed ones |

Runs in which the code does not do what its documents say. Each checks one
property, and TLC's counterexample is a sequence of ordinary calls:

| run | property | what happens |
|---|---|---|
| `fulfilment_double_deduction` | `NoDoubleDeduction` | picked up before picking, assigned again, both deliveries completed |
| `settlement_journal_reversal` | `ReversalOffsets` | only POSTED journals are summed; the reversal is POSTED and the original no longer, so the account is off by the amount |

Other places in which the code differs from its documents, or from what one would
expect, are in the model as the code has them. No run is spent on each; the property that comes nearest
names the case it leaves out:

- A return restocks without advancing the version, so an older form is accepted
  (`ReturnInventoryService.php:78`); `inventory_lines` keeps forms and returns on different products.
- Completion computes available without damaged (`DeliveryWorkflowService.php:324`): quarantined
  units go on sale on SQLite, and on PostgreSQL the completion aborts.
- An order whose total was lowered cannot be invoiced: `adjustment_total` is positive and the
  journal credits it as a charge (`JournalMappingService.php:99`).
- A corrected payment is not checked for a duplicate instrument (`PaymentService.php:332`).
- `amount_due` of an invoice is written at issue and never again (`InvoiceGeneratorService.php:152`).
- Payments are verified by whoever recorded them (`PaymentVerificationService.php:38`).
- `applyAdjustment` compares no version; applying releases allocations without releasing the
  balance (`OrderAdjustmentWorkflowService.php:665`).
- A delivery stays open when its order is cancelled, and its driver can complete it. A driver who has
  lost a delivery between authorisation and transaction still acts on it, within what its page offers
  the new driver.
- Pages offer what their service refuses: `Overpromised` in `StaffDesk` lists every case.
- Buttons whose flag is cleared by `onSuccess` and `onError` only (`cleared = "outcome"`) stay disabled
  after a conflict, a lost answer or a dropped visit, until the dialog is closed or the page reloaded.
- Reversing an adjustment allocates the units that were affected when it was requested
  (`OrderAdjustmentWorkflowService.php:1143`), not those that applying it released (`:650`): an order approved after the
  request and reduced then is left with units that are ordered and not allocated (`NotAllocatedAgain`).
- Links that turn their reader away: `DeadEnds` and `NoRoute`, against "No dead links"
  (`docs/FULL_REAL_BROWSER_MANUAL_AUDIT_MASTER_BUG_DISCOVERY_CHECKLIST.md:123`).
- Recovery codes made while enrolling at sign-in are never shown (`MfaChallengeController.php:197-213`),
  and the form that confirms a secret is gone after one wrong code (`Pages/Security/MFA/Index.tsx:343`).
- A sign-in remembered by a cookie is not challenged (`recalled`).
- A challenge that was begun with the old password survives a reset or the end of all sessions and still signs in: its
  session has no `user_id` to be found by (`SessionRevocationService.php:144`), and the password is not asked for again
  (`MfaChallengeController.php:71`), against "Mandatory prior session invalidation across all devices"
  (`NewPasswordController.php`); `outlived`.
- Lists that start from the filters they came with lose a choice made while a visit or a delayed
  search is under way (`muddle` "hurry"); a reset with a delayed search brings the old filters back
  ("reset", `Product/Index.tsx:271`); the inventory report drops the stock status with a change of tab
  ("left out", `Reporting/Inventory.tsx:135-141`).
- A draft is submitted as it is stored, not as it is shown (`Create.tsx:399`); edits made while a save is
  under way count as saved; after a lost answer a page that was rebuilt has a new key and places a second
  order; a replayed order records its cash payment again.

`ReservedIsClaimed` and `LedgerReconcilesUndisturbed` are about histories without
some of those disturbances; `Undisturbed` names exactly what they exclude: a second
delivery, a cancellation after an assignment, a quarantined reservation of that
product. The model drops none of it from the state
space: cancelling leaves an open delivery open, and the driver can complete it;
cancelling after completion releases stock other orders have reserved; pickup and
return rewrite cancelled allocation rows; a delivery rescheduled after it failed on
the road finds no active allocation to be assigned with; completing an order whose
reserved unit was quarantined clamps and books the full quantity.

**Bounds.** `MaxRows` (movement rows per product), `MaxExceptions` and
`MaxDeliveries` are guards of the actions that create a row. Two orders are enough for one to spend the other's reservation; two
products for a transaction to write one row and not the other; two deliveries
per order for a second relief; three units with orders of up to two for both a
shortage and a leftover. Six rows of one product hold receipt, two reservations,
a quarantine, its revert and a relief or a release. Orders (and products) are
symmetric: nothing compares them except the lock order, and a transaction is one
step. In `Settlement`, `MaxPayments` and `MaxAdjustments` bound the rows; rejections and
corrections, invoices and journals are not bounded otherwise. Two payments are
enough for a partial, a full and an overpaid order, for one payment to be corrected to
the other's cheque, and for one to be reversed while the other stands; two
adjustments for the order in which they are taken back. Postings of different orders
share nothing but the customer, so one order and the account stand for several.

In `OrderEntry`, `MaxCalls`, `MaxKeys` and `MaxEdits` bound what is sent, generated and typed. Two calls are
enough for a save to overtake another, for a retry of what was already served, and for a discard that races
a submission; one edit for a tab to differ from what is stored; quantities to 2 for a line to be changed
within its bounds and to be clamped. `Methods` is empty in the run: payments that come with an order
change nothing its properties speak of. In `StaffDesk`, `MaxCalls`, `MaxDocuments` and the amounts bound the
instance: two calls are one that changes the row under the other; of every page both a maker and a checker,
or a dispatcher and two drivers, are present, and the initial rows (`..Opened`) include documents half way
through their life, so that two calls reach the late steps; new supplier bills come to `MaxAmount` and
payments on account to 1. Users of a role are symmetric. In `ListView`,
`MaxSteps` bounds what the user does: six steps are a text, a choice, a reset, a page link and two more
between them. In `Access`, `Attempts` is 2 where the code has 5, `MaxSecrets` bounds enrolments (two: a second
browser's, or one after the factor was switched off) and `MaxEvents` what others do (a role given and
taken back).

**Deadlock.** The `MCInventory` runs check it. The other configurations switch it off because the
bounded instance really stops: when every order is closed, every payment and journal reversed, or every
call, edit, step or event spent.

**Fairness.** Only `OrderEntry` states any: `FairSpec` has weak fairness of `Settles(t)` for each tab, which is that
the browser ends every fetch and every visit it has started, with an answer or with an error. The code relies on it in the
`finally` of `handleSaveDraft` and the `onFinish` of its visits, and a browser does end every request it makes. It assumes
neither that the server answers (`Fail` settles a call too) nor that anybody does anything. Every other
action is a person's, and no code makes anyone act, so no other liveness property would say anything
about the code. On the desks' pages the buttons that `onFinish` clears come back because Inertia ends every visit
(`Cleared`), and the others may not: no property is stated about either.
`SpinnersStop` is written `[]<>~Awaited(i)`, which is the same as `Awaited(i) ~> ~Awaited(i)`.

**Faults.** `Fail` and `Lose` lose a request before it is served or its answer after; `Send` in both modules and
`FilterCatalogue` drop a visit whose request still arrives; `CloseTab` is a crash or reload; a user may send again whatever
was lost. Nothing is duplicated by the network: a repeated request is a repeated click.

**Mutants.** Definitions commented "Mutant of ..." are plausible bugs of the
definition they precede; under each of them the run named in `PROJECT.json`
finds its property violated. No specification uses them.

## 4. Theorems

`Sums_proofs`: what a sum over a finite set does when a row is added, removed or changed, and when two
columns are compared. `Sums` is defined with a fold of the community modules; the induction over sets goes through a
set of least size that is a counterexample (`NatLessThanWellFounded` and `WFMin`), because the library's induction
theorems cannot be used (they take an operator). `Fulfilment` and `Settlement` add up over orders and rows, hence their
assumption that `Orders` is finite.

`Inventory_proofs` (any products, opening stock, quantities and bounds that
satisfy `InventoryAssumption`):

- `TypeCorrect`, `BalanceIsExact`, `LedgerExplainsBalance`. They need each other:
  `max(0, n)` keeps a row typed only if the guards kept n a natural number, and a
  recorded quantity equals the change of a bucket only if no clamp bites, which
  is what `BalanceMath` says. The inductive invariant is therefore
  `IInv == TypeOK /\ BalanceMath /\ LedgerReconciles`. The proof has one lemma for
  a booking on one product and one for a transaction over many, and per action only
  shows that its new row is exact.
- `FormGuardsAdjustment`: `NoLostUpdate` for products that have a form and that nobody returns
  (`FormProducts \cap ReturnProducts = {}`). Invariant:
  the version a form holds is never ahead of the row's, and when they are equal so
  are the quantities (`FormFresh`). Every write goes through a version step unless the product is
  returned (`VersionedUnlessReturned`); the assumption is where the code and its documents part.
- `ImplementsStockLedger`: `InventorySpec => StockRefined`, each action mapped to a
  receipt, removal, transfer or stutter of each product, using `IInv`.
- `TicketsStayCovered`: `QuarantineCovered`. What a step takes out of quarantine or disposes of is weighed against
  what it does to the sum of the pending tickets: a revert takes out what its own ticket stops claiming.

`Fulfilment_proofs` (any orders, lines, deliveries, with or without the CHECKs). It extends `Inventory_proofs`:
the bookings of a line are those of the inventory.

- `ClosedOrdersClaimNothing`: `OnlyApprovedClaims`, from
  `ClaimInv == OrdersTyped /\ OnlyApprovedClaims`. The interesting case is
  `CancelOrder`: it skips the release unless the order holds stock, and the
  invariant says that an order it skips has nothing to drop.
- `ImplementsCommitment`: `Spec => CommitmentRefined`.
- `FulfilmentIsSound`: the inductive invariant `FInv` of what follows. `RowsSound` says of one order how its
  status, lines, allocations and deliveries go together (`SoundRows`; nothing of it is visible in another order's rows, so
  a step has to re-establish it for its own order only); `StockRows`, `RelievedOncePerDelivery` and `ReservedIsClaimed` tie
  the balances to sums over all orders; `DbChecks => BooksSound` adds the ledger. The lemmas are one per action on the
  rows of one order and one per way in which a step touches a balance; an order that does not move keeps its claim, so
  the sum changes by what the moving order's claim changes.
- `ReservationsAreClaims`, `StockLeavesOncePerDelivery`, `CustodyStaysOpen`, `FulfilmentTypeCorrect`: with or
  without the CHECKs. `ReservationsAreClaims` is, like its property, about undisturbed products: the invariant has to
  say for disturbed ones nothing and for the others that a delivery finds the reservation that its order made.
  `CustodyStaysOpen` is about orders that have had one delivery: the pickup of a second marks lines of the first.
- `DeliveredWasPicked` (each delivery by itself), `LedgerSurvivesDeliveries`, `BalancesSurviveDeliveries` assume `DbChecks`: the CHECKs of the
  migrations (`order_item_allocations`, `inventory_balances`), which exist on PostgreSQL only. Without them they are false.
  What several deliveries list together may exceed what was picked even so,
  as the run `fulfilment_double_deduction` shows.

`Settlement_proofs` (any orders, instruments, totals, amounts and bounds that satisfy
`SettlementAssumption`):

- `SettlementIsSound`: the inductive invariant `SettlementInv`, typed rows,
  `InvoicesCharge`, `LedgerIsExact` and `JournalsFollowLedger` together. A posting is new
  only because the ledger is exact (a pending payment has no receipt, a verified one no
  reversal), and its journal is new only because the journals follow the ledger; hence
  neither is inductive alone. `PostingKeepsStep` is the common lemma of verification,
  reversal and invoicing; `ReverseJournalKeeps` the manual reversal.
- `LedgerMatchesDocuments`, `JournalsMatchLedger`: the two properties, for every value of
  the constants.
- `ImplementsReceivableAccount`: `Spec => AccountRefined`. A charge is positive because an
  empty journal aborts an invoice (`InvoicesCharge`); a reversal finds its receipt by
  `LedgerIsExact`.
- `StatementReconciles`: `SummaryReconciles`. A step either leaves the documents' columns and the ledger alone, or is a
  verification, a reversal or an invoice (`StepCounts`), and then adds the same amount to both. The invariant adds
  that the ledger is finite (`BooksAgree`).
- `StatusIsReconciled`: `StatusFollowsVerifiedSum`, from the same classification of steps: what changes the verified
  sum of an order writes its status, and so does every verification, rejection and reversal, moved or not (`OnlyDecisionsDecide`).
- `SettlementTypeCorrect`: `SettlementTypeOK`; that no reduction takes a total below zero is part of it.

`OrderEntry_proofs` (any tabs, products, quantities, methods and bounds that satisfy `OrderEntryAssumption`; that
`MaxKeys` is not 0 because a row has a key):

- `OrderEntryIsSound`: the inductive invariant `EInv`. A draft's version is remembered in three places: in a tab, in a save
  on its way to the service, and in the answer on its way back. Of each `KnownIn` says that the version is not ahead of
  the row's and, while they are equal, the row holds the lines remembered with it: `base` in a tab and a
  request, the cart that was sent in an answer. `KeysUnique` says that no key has two orders, which submitting a
  draft under another key (`Promoted`) and creating an order have to check. What a step does to the rows is one of six
  things (`RowStep`), and `KnownIn` and `KeysUnique` are shown to survive each once; an action then only shows
  which of them it is, and that the window or call it makes is sound.
- `NothingOverwrittenUnseen` (`NoBlindOverwrite`): the version that `Stale` compares vouches for the lines. Lost answers, late
  requests, tabs that close, reload or drop their visits are all in the specification, so the theorem holds through them.
- `PlacedAsSent` (`PlacedIsWhatWasSent`): for a new order by construction of its row; for a replay because
  `Replays` compares the carts, and a payment recorded with it changes nothing else.
- `ImplementsOrderIntake`: `Spec => IntakeRefined`; each `RowStep` is a step of `OrderIntake` or a stutter (`RowStepRefines`).
  `Promoted` under a new key is the one step that touches two keys.

`StaffDesk_proofs` (any super admins, admins, accountants and drivers, any kinds of document, amounts, quantities, and
bounds on requests; `RolesAssumption`, `StaffDeskAssumption` and the bounds of the three desks, `MoneyAssumption`, `FloorAssumption`,
`AdjustmentAssumption`):

- `DeskIsSound`: the inductive invariant `DeskInv /\ FlagInv` of what follows. `Sound` says of each kind of row what its service
  keeps true. A page shows an *earlier* row and a request was filled in on one, so the invariant needs what may have happened since:
  `Later(k, r, s)` relates a row to those that it can become. Documents are never deleted, and keep
  their maker, amount and reduction; versions grow, and with the same version the order's quantities are the same. Hence a
  request that was authorised on an older row (`Admit`) still refers to something when it is served, and its maker is who
  he was. Per verb one lemma shows that the service's answer is a sound, later row; that `Later` is transitive carries every other page
  and request along (`FitsRemain`). `FlagInv` says that a page waits
  for a request of its own user that is not over, on which the steps that end a visit rely, and that of the flags that `onFinish`
  clears it holds no other's.
- `NobodyDecidesAboutHisOwn`, `RefundsFitTheirCredit`, `BillsAreBalanced`, `InstrumentsAreNotDoubled`,
  `OrdersAreReducedAsApplied`, `AdjustmentsAreRequestedOnce`, `OrdersStayAllocated`: the invariants, each a part of
  `DeskInv`. `NobodyDecidesAboutHisOwn` is about the approver that is recorded, not about who processes, applies or reverses. For
  `OrdersStayAllocated` the units not allocated of an approved order are at most what reversals left (`Loose`), and no
  adjustment affects more than it reduces. The sums over a row's documents are over the positions in its sequence, with the lemmas of `Sums_proofs`.
- `StalePagesDoNoHarm` (`StaleClicksAreHarmless`): per verb, what the service checks on the locked row implies the
  condition under which a page loaded now draws the button.
- `ApprovalsAreInformed` (`ImpactWasShown`): an approval is refused when the version is not that of the request, and
  by `Later` equal versions mean that the page showed the same encroachment.
- `OffersAreKept` (`OfferedIsAccepted`), the converse: what a page in date offers, and its dialog lets its user send, is answered `done` unless
  `Overpromised` names it. It needs `StaffInv` (`StaffAreAtTheDesks`): a page is open, and a request sent, only by a role that the
  page's route lets in, which is why most answers `forbidden` cannot happen. The proof showed one broken promise that the
  runs are too small to reach, and `AdjustmentOverpromised` names it: a dialog keeps its key after a visit that its page dropped, and when that
  visit is recorded late, asking again answers with the old request (`createAdjustmentRequest` finds the
  key). It also needed that of the staff at these desks only a SUPER_ADMIN or ADMIN
  can request an adjustment.

`Access_proofs` (any browsers, people, roles they may hold, pages, attempts and bounds that satisfy
`AccessAssumption`):

- `AccessIsSound`: the inductive invariant `AInv`. `OldSignInsAreOver` speaks of sessions; a cookie makes a
  session later, so the invariant says of both that the password was given since, or that the challenge outlived its
  replacement (`Recent`).
  `PrivilegedHasMfa` needs that recovery codes are left only to whoever has a second factor (`Strong`): a
  recovery code opens a session. Three lemmas carry the steps: one browser changes (`OneBrowserChanges`), all other
  sessions end (`OthersEnd`), nobody is left signed in (`NobodyIn`).
- `OldSignInsEnd`, `PrivilegedSignInsAreStrong`: the two properties.
- `PagesAreForTheirRole`: a session looks at a page that was made for the role its user has (`PageInv`). A role changes
  while pages are open; `RoleAssignmentService` ends the sessions, but a cookie may bring one back to a page it left under
  another role. So the invariant counts every page that opens for the role and that some page links to (`At`), however it was
  reached. `LinksAreSited` says which pages no page links to: the catalogue of reports, the dashboard of salesmen, and
  the salesmen's list of their returns except from those returns; only salesmen are at one of them, the dashboard they land on.
- `NoOtherDeadEnds` (`LinksOpen`): per role and page, each link opens or is one of the `DeadEnds`. The tables of links, permissions and
  routes are finite; the proof goes through them by role, with the pages that are forbidden to the role first.

`ListView_proofs` (any of the lists of `ListPages`, any number of steps; `ListViewAssumption`):

- `ListsTellWhatWasAsked` (`ControlsTellTheList`), `ListStaysTyped`. Overlaps of any kind are covered on lists that start
  from their controls; on those that start from their filters an overlap is a `muddle` and left out. The property speaks of a list at rest only; the inductive
  invariant `ListInv` says of each stage on the way to rest where what was asked for is kept: in the list
  (`Settled`), in the request (`OnItsWay`), or, while a search is delayed, in the controls (`DueFromControls`) or in the
  searches and the list together (`DueFromList`). Which stages a page can be in depends on its controls, of which
  `PageSound` says what all 36 pages have in common: a reset leaves alone only controls that show the list; where a
  search is delayed nothing waits to be submitted; a page that starts from its controls delays all of them or none. Each page
  is checked against it. A new page that breaks one of these breaks the argument, and a reset that spares
  a search, for one, then leaves a list that its controls do not tell.

Every safety property and action property of a passing run is stated by a theorem. Model-checked only: `SpinnersStop`, as
liveness and ENABLED are out of TLAPS's reach. `OrderEntryTypeOK`, `DeskTypeOK` and `AccessTypeOK` document the types of
those modules' variables; no configuration lists them.
The violated properties are of course not theorems.

## 5. Not modelled, and what is left

Left out of the modelled components: delivery events
and evidence, journal postings in the completion's transaction, the credit notes in the receivable ledger and summary, the orders
not yet invoiced in that summary, the synchronisation of historical events, the returned
quantities written on items and allocations by a return, several warehouses, number
generators, throttling and expiry by time, the guard of the last super admin, prices and taxes of a cart, the pill of a filter whose × clears it (`Product/Index.tsx:222`:
it ends in the list that choosing nothing ends in).

Not modelled: pricing and tax (decimal arithmetic on one order), catalogue, customers and salesmen (create, read, update:
two hazards of them, the race of two category moves and the customer form without a version, are listed without a property),
notifications, audit (append-only, never read back), reporting (pure reads), files, settings and seed data.

Next, most important first:

1. Credit notes: issue from an approved return or an adjusted invoice, their place in the receivable ledger and
   the summary; the request of a return with its limits across requests, composed with the desks' refunds.
2. Adjustments over `Fulfilment`: reserved stock and the manifest of an assigned delivery after an application.
3. A lock-order module: the rows each service locks, as a graph of steps, and deadlock (order then customer against
   customer then order).
4. The payables ledger with its journals; receivables synchronisation and ageing; cash reconciliation.
5. The two catalogue hazards.
6. Proofs for what these add, as part of each.
