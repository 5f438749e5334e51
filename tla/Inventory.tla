------------------------------- MODULE Inventory -------------------------------
(***************************************************************************)
(* The physical inventory of one warehouse: the balance row of each        *)
(* product, the append-only movement ledger kept beside it, the stock      *)
(* exceptions (quarantine tickets) and the adjustment form a member of     *)
(* staff has open in the browser.                                          *)
(*                                                                         *)
(* Every operation is one database transaction that locks the balance      *)
(* rows it touches before it reads them, so each is one action.  What is   *)
(* not locked is the form: it holds the row as it was rendered, and is     *)
(* posted any number of transactions later.                                *)
(*                                                                         *)
(* Movement rows are never read back one by one: the ledger keeps how many *)
(* there are, the quantity they moved into and out of each stock state,    *)
(* and the "after" columns of the newest one.                              *)
(***************************************************************************)
EXTENDS Integers, Sequences, Sums

CONSTANTS
    Products,           \* products with a balance row
    OpeningStock,       \* units of each product received before the model starts
    Quantities,         \* quantities a request may carry
    ReturnQuantities,   \* quantities a customer return may put back per condition
    ReturnProducts,     \* products that customers return
    FormProducts,       \* products whose adjustment form somebody may open
    ExceptionSources,   \* the source_stock_state values staff report exceptions from
    MaxRows,            \* bound: movement rows per product
    MaxExceptions       \* bound: stock exceptions ever reported

ASSUME InventoryAssumption ==
    /\ OpeningStock \in Nat
    /\ Quantities \subseteq Nat \ {0}
    /\ ReturnQuantities \subseteq Nat \ {0}
    /\ ReturnProducts \subseteq Products
    /\ FormProducts \subseteq Products
    /\ ExceptionSources \subseteq {"AVAILABLE", "RESERVED"}
    /\ MaxRows \in Nat
    /\ MaxExceptions \in Nat

VARIABLES
    balance,      \* inventory_balances: the row of each product
    ledger,       \* inventory_movements, aggregated per product
    exceptions,   \* stock_exceptions, in order of creation
    form          \* the open adjustment form, or NoForm

invVars == <<balance, ledger, exceptions, form>>

--------------------------------------------------------------------------------
\* Rows and their types

\* InventoryStockState: where a movement says units came from or went to.
StockStates == {"EXTERNAL", "AVAILABLE", "RESERVED", "DAMAGED", "DISPATCHED", "NONE"}

Balances == [onHand : Int, reserved : Int, available : Int, damaged : Int, version : Nat]

Snapshots == [onHand : Int, reserved : Int, available : Int, damaged : Int]

Ledgers == [rows : Nat, net : [StockStates -> Int], disposed : Nat, last : Snapshots]

Exceptions == [product : Products, source : {"AVAILABLE", "RESERVED"},
               quantity : Nat, status : {"PENDING_REVIEW", "RESOLVED", "DISMISSED"}]

Forms == [product : Products, seen : Balances]

NoForm == [product |-> "none"]

AtLeastZero(n) == IF n > 0 THEN n ELSE 0

Smaller(m, n) == IF m < n THEN m ELSE n

\* The four quantity columns of a balance row, as a movement row records them.
Snapshot(b) == [onHand |-> b.onHand, reserved |-> b.reserved,
                available |-> b.available, damaged |-> b.damaged]

--------------------------------------------------------------------------------
\* Helpers of the model classes

\* Mutant of Recalculated: quarantined stock stays on sale.
DamagedStillSellable(b) == [b EXCEPT !.available = AtLeastZero(b.onHand - b.reserved)]

Recalculated(b) == [b EXCEPT !.available = AtLeastZero(b.onHand - b.reserved - b.damaged)]

\* Mutant of Saved: the optimistic version is not advanced.
SavedWithoutVersion(b) == Recalculated(b)

\* The tail of every inventory service: recalculate, advance the version, save.
Saved(b) == [Recalculated(b) EXCEPT !.version = @ + 1]

\* recordMovement: one row moving q from one stock state to another, with the
\* columns of the saved balance b as its "after" snapshot.
Recorded(l, from, to, q, b) ==
    [rows |-> l.rows + 1,
     net |-> [l.net EXCEPT ![from] = @ - q, ![to] = @ + q],
     disposed |-> IF from = "DAMAGED" /\ to = "NONE" THEN l.disposed + q ELSE l.disposed,
     last |-> Snapshot(b)]

RoomInLedger(p) == ledger[p].rows < MaxRows

\* One product's balance becomes b and one movement row records why.
Book(p, b, from, to, q) ==
    /\ RoomInLedger(p)
    /\ balance' = [balance EXCEPT ![p] = b]
    /\ ledger' = [ledger EXCEPT ![p] = Recorded(@, from, to, q, b)]

--------------------------------------------------------------------------------
\* Initial state: a zero row per product, then one receipt of OpeningStock.

ZeroBalance == [onHand |-> 0, reserved |-> 0, available |-> 0, damaged |-> 0, version |-> 1]

EmptyLedger == [rows |-> 0, net |-> [s \in StockStates |-> 0], disposed |-> 0,
                last |-> Snapshot(ZeroBalance)]

OpeningBalance ==
    IF OpeningStock = 0 THEN ZeroBalance ELSE Saved([ZeroBalance EXCEPT !.onHand = OpeningStock])

OpeningLedger ==
    IF OpeningStock = 0 THEN EmptyLedger
    ELSE Recorded(EmptyLedger, "EXTERNAL", "AVAILABLE", OpeningStock, OpeningBalance)

InventoryInit ==
    /\ balance = [p \in Products |-> OpeningBalance]
    /\ ledger = [p \in Products |-> OpeningLedger]
    /\ exceptions = <<>>
    /\ form = NoForm

--------------------------------------------------------------------------------
\* InventoryAdjustmentService

\* Admin/Inventory/Show.tsx renders the balance and keeps its version in the form.
OpenForm(p) ==
    /\ form' = [product |-> p, seen |-> balance[p]]
    /\ UNCHANGED <<balance, ledger, exceptions>>

\* The request either carries the form's expected_version, which must still be
\* the row's, or none at all.
Posted(p, viaForm) ==
    IF viaForm
    THEN /\ form # NoForm
         /\ form.product = p
         /\ form.seen.version = balance[p].version
         /\ form' = NoForm
    ELSE UNCHANGED form

IncreaseOnHand(p, q, viaForm) ==
    /\ Posted(p, viaForm)
    /\ Book(p, Saved([balance[p] EXCEPT !.onHand = @ + q]), "EXTERNAL", "AVAILABLE", q)
    /\ UNCHANGED exceptions

DecreaseOnHand(p, q, viaForm) ==
    /\ Posted(p, viaForm)
    /\ balance[p].available >= q
    /\ Book(p, Saved([balance[p] EXCEPT !.onHand = @ - q]), "AVAILABLE", "NONE", q)
    /\ UNCHANGED exceptions

TransferToDamaged(p, q, viaForm) ==
    /\ Posted(p, viaForm)
    /\ balance[p].available >= q
    /\ Book(p, Saved([balance[p] EXCEPT !.damaged = @ + q]), "AVAILABLE", "DAMAGED", q)
    /\ UNCHANGED exceptions

DisposeDamaged(p, q, viaForm) ==
    /\ Posted(p, viaForm)
    /\ balance[p].damaged >= q
    /\ Book(p, Saved([balance[p] EXCEPT !.damaged = @ - q, !.onHand = @ - q]), "DAMAGED", "NONE", q)
    /\ UNCHANGED exceptions

--------------------------------------------------------------------------------
\* StockExceptionService

\* Mutant of NewException: the ticket opens in a state the review does not know.
UnreviewableException(p, source, q) ==
    [product |-> p, source |-> source, quantity |-> q, status |-> "OPEN"]

NewException(p, source, q) ==
    [product |-> p, source |-> source, quantity |-> q, status |-> "PENDING_REVIEW"]

\* The quantity leaves its source and is quarantined.  The order and allocation
\* a RESERVED quantity belonged to are not touched.
ReportException(p, source, q) ==
    /\ Len(exceptions) < MaxExceptions
    /\ \/ /\ source = "AVAILABLE"
          /\ balance[p].available >= q
          /\ Book(p, Saved([balance[p] EXCEPT !.damaged = @ + q]), source, "DAMAGED", q)
       \/ /\ source = "RESERVED"
          /\ balance[p].reserved >= q
          /\ Book(p, Saved([balance[p] EXCEPT !.damaged = @ + q, !.reserved = AtLeastZero(@ - q)]),
                  source, "DAMAGED", q)
    /\ exceptions' = Append(exceptions, NewException(p, source, q))
    /\ UNCHANGED form

Pending(i) == exceptions[i].status = "PENDING_REVIEW"

ResolveException(i) ==
    /\ Pending(i)
    /\ exceptions' = [exceptions EXCEPT ![i].status = "RESOLVED"]
    /\ UNCHANGED <<balance, ledger, form>>

\* actualRevert: what is left in quarantine caps what a dismissal puts back.
Reverted(b, e) == Smaller(b.damaged, e.quantity)

\* The balance after q quarantined units go back where the ticket e took them from.
Unquarantined(b, e, q) ==
    Saved([b EXCEPT !.damaged = AtLeastZero(@ - q),
                    !.reserved = IF e.source = "RESERVED" THEN @ + q ELSE @])

\* Mutant of DismissException: the ticket stays open, and can be reverted again.
DismissLeavingTicketOpen(i, revert) ==
    LET e == exceptions[i]
        q == Reverted(balance[e.product], e)
    IN  /\ Pending(i)
        /\ revert /\ q > 0
        /\ Book(e.product, Unquarantined(balance[e.product], e, q), "DAMAGED", e.source, q)
        /\ UNCHANGED <<exceptions, form>>

DismissException(i, revert) ==
    LET e == exceptions[i]
        q == Reverted(balance[e.product], e)
    IN  /\ Pending(i)
        /\ IF revert /\ q > 0
           THEN Book(e.product, Unquarantined(balance[e.product], e, q), "DAMAGED", e.source, q)
           ELSE UNCHANGED <<balance, ledger>>
        /\ exceptions' = [exceptions EXCEPT ![i].status = "DISMISSED"]
        /\ UNCHANGED form

--------------------------------------------------------------------------------
\* InventoryService: reservation and release for the lines of an order, all of
\* them in one transaction under row locks taken in ascending id order.

\* Mutant of Reservable: each line is checked against the stock on hand.
ReservableFromOnHand(demand) ==
    \A p \in Products : demand[p] > 0 => balance[p].onHand >= demand[p] /\ RoomInLedger(p)

\* Phase 1: every demanded product is available in full before any row changes.
Reservable(demand) ==
    \A p \in Products : demand[p] > 0 => balance[p].available >= demand[p] /\ RoomInLedger(p)

\* demand[p]: the fulfillable quantity of p on the order
ReserveStock(demand) ==
    /\ \E p \in Products : demand[p] > 0
    /\ Reservable(demand)
    /\ balance' = [p \in Products |->
           IF demand[p] > 0 THEN Saved([balance[p] EXCEPT !.reserved = @ + demand[p]]) ELSE balance[p]]
    /\ ledger' = [p \in Products |->
           IF demand[p] > 0
           THEN Recorded(ledger[p], "AVAILABLE", "RESERVED", demand[p], balance'[p])
           ELSE ledger[p]]
    /\ UNCHANGED <<exceptions, form>>

ActualRelease(p, claim) == Smaller(balance[p].reserved, claim[p])

\* claim[p]: the reserved_quantity the order's item of p carries.  A product with
\* nothing left to release is skipped without a row.
ReleaseStock(claim) ==
    /\ \A p \in Products : ActualRelease(p, claim) > 0 => RoomInLedger(p)
    /\ balance' = [p \in Products |->
           LET q == ActualRelease(p, claim)
           IN  IF q > 0 THEN Saved([balance[p] EXCEPT !.reserved = AtLeastZero(@ - q)]) ELSE balance[p]]
    /\ ledger' = [p \in Products |->
           LET q == ActualRelease(p, claim)
           IN  IF q > 0 THEN Recorded(ledger[p], "RESERVED", "AVAILABLE", q, balance'[p]) ELSE ledger[p]]
    /\ UNCHANGED <<exceptions, form>>

--------------------------------------------------------------------------------
\* ReturnInventoryService: the good and the damaged part of a returned item are
\* saved one after the other.  Neither update advances the version.

Restocked(b, good) == [b EXCEPT !.onHand = @ + good, !.available = @ + good]

Quarantined(b, bad) == [b EXCEPT !.onHand = @ + bad, !.damaged = @ + bad]

ReturnRecorded(l, b, to, q) == IF q > 0 THEN Recorded(l, "EXTERNAL", to, q, b) ELSE l

\* Mutant of ExecuteDisposition: the damaged part is saved over the row as it was
\* before the good part (the balance is not refreshed in between).
DispositionOverStaleRow(p, good, bad) ==
    LET b1 == Restocked(balance[p], good)
        b2 == Quarantined(IF bad > 0 THEN balance[p] ELSE b1, bad)
        l1 == ReturnRecorded(ledger[p], b1, "AVAILABLE", good)
    IN  /\ good + bad > 0
        /\ ledger[p].rows + 2 <= MaxRows
        /\ balance' = [balance EXCEPT ![p] = b2]
        /\ ledger' = [ledger EXCEPT ![p] = ReturnRecorded(l1, b2, "DAMAGED", bad)]
        /\ UNCHANGED <<exceptions, form>>

ExecuteDisposition(p, good, bad) ==
    LET b1 == Restocked(balance[p], good)
        b2 == Quarantined(b1, bad)
        l1 == ReturnRecorded(ledger[p], b1, "AVAILABLE", good)
    IN  /\ good + bad > 0
        /\ ledger[p].rows + 2 <= MaxRows
        /\ balance' = [balance EXCEPT ![p] = b2]
        /\ ledger' = [ledger EXCEPT ![p] = ReturnRecorded(l1, b2, "DAMAGED", bad)]
        /\ UNCHANGED <<exceptions, form>>

--------------------------------------------------------------------------------
\* Staff operations that need no order, and the whole component with the order
\* services as an environment that reserves and releases any quantity.

StaffNext ==
    \/ \E p \in FormProducts : OpenForm(p)
    \/ \E p \in Products, q \in Quantities, viaForm \in BOOLEAN :
          \/ IncreaseOnHand(p, q, viaForm)
          \/ DecreaseOnHand(p, q, viaForm)
          \/ TransferToDamaged(p, q, viaForm)
          \/ DisposeDamaged(p, q, viaForm)
    \/ \E p \in Products, source \in ExceptionSources, q \in Quantities : ReportException(p, source, q)
    \/ \E i \in DOMAIN exceptions : ResolveException(i)
    \/ \E i \in DOMAIN exceptions, revert \in BOOLEAN : DismissException(i, revert)

Demands == [Products -> Quantities \cup {0}]

InventoryNext ==
    \/ StaffNext
    \/ \E demand \in Demands : ReserveStock(demand)
    \/ \E claim \in Demands : ReleaseStock(claim)
    \/ \E p \in ReturnProducts, good, bad \in ReturnQuantities \cup {0} : ExecuteDisposition(p, good, bad)

InventorySpec == InventoryInit /\ [][InventoryNext]_invVars

--------------------------------------------------------------------------------
\* Properties

\* Every row is well typed: quantities are whole numbers, statuses are the enums'.
TypeOK ==
    /\ balance \in [Products -> Balances]
    /\ ledger \in [Products -> Ledgers]
    /\ exceptions \in Seq(Exceptions)
    /\ form \in Forms \cup {NoForm}

\* No quantity is negative, what is reserved and what is quarantined fit in what
\* is on hand, and available is exactly the rest.  The services only ever write
\* a max(0, ...), so it is their guards, across every order of operations, that
\* keep the clamp from hiding a shortage (the CHECKs of inventory_balances).
LegalBalance(b) ==
    /\ b.onHand >= 0 /\ b.reserved >= 0 /\ b.damaged >= 0
    /\ b.reserved + b.damaged <= b.onHand
    /\ b.available = b.onHand - b.reserved - b.damaged

BalanceMath == \A p \in Products : LegalBalance(balance[p])

\* The ledger explains the balance: replaying the from/to columns of all movement
\* rows of a product gives its buckets, and the newest row's "after" columns are
\* the balance.  A clamped mutation that records the requested quantity, or one
\* that saves without a row, breaks it.
Reconciled(b, l) ==
    /\ l.net["AVAILABLE"] = b.available
    /\ l.net["RESERVED"] = b.reserved
    /\ l.net["DAMAGED"] = b.damaged
    /\ l.last = Snapshot(b)

LedgerReconciles == \A p \in Products : Reconciled(balance[p], ledger[p])

\* Units quarantined by the tickets of p that still wait for a review.
PendingOf(e, p) == IF e.status = "PENDING_REVIEW" /\ e.product = p THEN e.quantity ELSE 0

PendingUnits(p) == SumOver([i \in DOMAIN exceptions |-> PendingOf(exceptions[i], p)], DOMAIN exceptions)

\* Whatever happens between report and review, the units of the pending tickets
\* are still in quarantine unless that many were disposed of: no ticket is
\* reverted twice, and no revert takes another ticket's units.
QuarantineCovered == \A p \in Products : PendingUnits(p) <= balance[p].damaged + ledger[p].disposed

\* A posted form is accepted only if the balance still reads as it was rendered:
\* the decision to adjust was taken on the numbers it is applied to.
NoLostUpdate ==
    [][ (form # NoForm /\ form' = NoForm) => Snapshot(balance[form.product]) = Snapshot(form.seen) ]_invVars

\* The component implements the abstract stock ledger.
BucketsOf(b) ==
    [k \in {"AVAILABLE", "RESERVED", "DAMAGED"} |->
        IF k = "AVAILABLE" THEN b.available ELSE IF k = "RESERVED" THEN b.reserved ELSE b.damaged]

Stock == INSTANCE StockLedger WITH bucket <- [p \in Products |-> BucketsOf(balance[p])]

\* Every transaction, however many rows it writes, is a receipt, a removal or a
\* transfer of each product: no clamp and no half-written row loses a unit.
StockRefined == Stock!Spec
================================================================================
