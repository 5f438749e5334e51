------------------------------ MODULE Fulfilment ------------------------------
(***************************************************************************)
(* From an order's submission to the door: approval reserves stock and     *)
(* creates allocations, dispatch assigns deliveries, drivers pick up,      *)
(* complete, fail, reschedule or bring back, and staff may cancel at any   *)
(* point.  Inventory is the shared warehouse; its staff operations         *)
(* interleave with everything here.                                        *)
(*                                                                         *)
(* Each service method locks the order first and runs in one transaction,  *)
(* so each is one action.  Products and customers are assumed active:      *)
(* an inactive one only disables an action.  Every order has at most one   *)
(* line per product, and one allocation row per line (the "-01" row of     *)
(* the approval).                                                          *)
(***************************************************************************)
EXTENDS Inventory

CONSTANTS
    Orders,             \* the orders being followed
    OrderedQuantities,  \* quantities a submitted line may carry
    PickStatuses,       \* what picking, outside the repository, marks a picked row as
    MaxDeliveries,      \* bound: delivery rows per order
    DbChecks            \* TRUE: PostgreSQL, whose CHECKs abort a transaction; FALSE: SQLite, without them

ASSUME FulfilmentAssumption ==
    /\ IsFiniteSet(Orders)
    /\ OrderedQuantities \subseteq Nat
    /\ PickStatuses \subseteq {"ALLOCATED", "PICKED"}
    /\ MaxDeliveries \in Nat
    /\ DbChecks \in BOOLEAN

VARIABLES
    order,        \* orders: the three status columns
    item,         \* order_items: ordered and reserved quantity per line
    alloc,        \* order_item_allocations: the row of each line
    deliveries    \* deliveries of each order with their items, oldest first

orderVars == <<order, item, alloc, deliveries>>

vars == <<invVars, orderVars>>

--------------------------------------------------------------------------------
\* Rows and their types

OrderStatus == {"SUBMITTED", "APPROVED", "CANCELLED", "REJECTED"}

FulfillmentStatus == {"UNALLOCATED", "RESERVED", "DISPATCHED", "DELIVERED"}

DeliveryStatus == {"PENDING_ASSIGNMENT", "ASSIGNED", "PICKED_UP", "OUT_FOR_DELIVERY", "DELIVERED",
                   "FAILED", "RESCHEDULED", "RETURNED_TO_WAREHOUSE"}

\* "ABSENT" stands for a line without an allocation row.
AllocationStatus == {"ABSENT", "ALLOCATED", "PICKED", "DISPATCHED", "DELIVERED", "CANCELLED"}

OrderRows == [status : OrderStatus, fulfillment : FulfillmentStatus,
              delivery : DeliveryStatus]

Items == [ordered : Nat, reserved : Nat]

Allocations == [allocated : Nat, reserved : Nat, picked : Nat, dispatched : Nat,
                delivered : Nat, status : AllocationStatus]

Deliveries == [status : DeliveryStatus, manifest : [Products -> Nat]]

NoAllocation == [allocated |-> 0, reserved |-> 0, picked |-> 0, dispatched |-> 0,
                 delivered |-> 0, status |-> "ABSENT"]

\* OrderItem::fulfillableQuantity; nothing cancels part of a line in this module.
Fulfillable(o, p) == item[o][p].ordered

Demand(o) == [p \in Products |-> Fulfillable(o, p)]

Present(a) == a.status # "ABSENT"

\* Allocations in the states that a dispatcher can assign and a cancellation frees.
Unshipped(a) == a.status = "ALLOCATED"

FulfilmentInit ==
    /\ InventoryInit
    /\ order = [o \in Orders |-> [status |-> "SUBMITTED", fulfillment |-> "UNALLOCATED",
                                  delivery |-> "PENDING_ASSIGNMENT"]]
    /\ \E lines \in [Orders -> [Products -> OrderedQuantities]] :
          /\ \A o \in Orders : \E p \in Products : lines[o][p] > 0
          /\ item = [o \in Orders |-> [p \in Products |-> [ordered |-> lines[o][p], reserved |-> 0]]]
    /\ alloc = [o \in Orders |-> [p \in Products |-> NoAllocation]]
    /\ deliveries = [o \in Orders |-> <<>>]

--------------------------------------------------------------------------------
\* The CHECK constraints of order_item_allocations and inventory_balances.

\* Mutant of LegalAllocation: the CHECKs as first migrated, which let a row be
\* delivered without having been dispatched.
LegalAllocationAtFirst(a) ==
    /\ a.reserved <= a.allocated
    /\ a.picked <= a.allocated
    /\ a.dispatched <= a.allocated
    /\ a.delivered <= a.allocated

LegalAllocation(a) ==
    /\ a.reserved <= a.allocated
    /\ a.picked <= a.allocated
    /\ a.dispatched <= a.picked
    /\ a.delivered <= a.dispatched

\* The transaction commits: under PostgreSQL every row it leaves is legal.
Committed ==
    DbChecks => /\ \A p \in Products : LegalBalance(balance'[p])
                /\ \A o \in Orders, p \in Products : LegalAllocation(alloc'[o][p])

--------------------------------------------------------------------------------
\* OrderWorkflowService

\* Mutant of Reviewable: an approved order can still be rejected.
ReviewableTwice(o) == order[o].status \in {"SUBMITTED", "APPROVED"}

Reviewable(o) == order[o].status = "SUBMITTED"

BaselineAllocation(q) ==
    IF q > 0 THEN [NoAllocation EXCEPT !.allocated = q, !.reserved = q, !.status = "ALLOCATED"]
             ELSE NoAllocation

\* Reserve every line or none, then one ALLOCATED row per line.
ApproveOrder(o) ==
    /\ Reviewable(o)
    /\ order[o].fulfillment = "UNALLOCATED"
    /\ ReserveStock(Demand(o))
    /\ order' = [order EXCEPT ![o].status = "APPROVED", ![o].fulfillment = "RESERVED"]
    /\ item' = [item EXCEPT ![o] = [p \in Products |-> [@[p] EXCEPT !.reserved = Fulfillable(o, p)]]]
    /\ alloc' = [alloc EXCEPT ![o] = [p \in Products |-> BaselineAllocation(Fulfillable(o, p))]]
    /\ UNCHANGED deliveries
    /\ Committed

RejectOrder(o) ==
    /\ Reviewable(o)
    /\ order' = [order EXCEPT ![o].status = "REJECTED"]
    /\ UNCHANGED <<invVars, item, alloc, deliveries>>

\* Mutant of HoldsStock: an approved order that has been dispatched keeps its claim.
HoldsStockOnShelf(o) == order[o].fulfillment = "RESERVED"

HoldsStock(o) == order[o].status = "APPROVED" \/ order[o].fulfillment = "RESERVED"

Freed(a) == IF Unshipped(a) THEN [a EXCEPT !.status = "CANCELLED", !.reserved = 0] ELSE a

\* The items' whole reserved_quantity is released and the unshipped allocations
\* are cancelled.  The order's deliveries are neither read nor written.
CancelOrder(o) ==
    /\ order[o].status \notin {"CANCELLED", "REJECTED"}
    /\ IF HoldsStock(o)
       THEN /\ ReleaseStock([p \in Products |-> item[o][p].reserved])
            /\ item' = [item EXCEPT ![o] = [p \in Products |-> [@[p] EXCEPT !.reserved = 0]]]
            /\ alloc' = [alloc EXCEPT ![o] = [p \in Products |-> Freed(@[p])]]
       ELSE UNCHANGED <<invVars, item, alloc>>
    /\ order' = [order EXCEPT ![o].status = "CANCELLED", ![o].fulfillment = "UNALLOCATED"]
    /\ UNCHANGED deliveries
    /\ Committed

--------------------------------------------------------------------------------
\* Warehouse picking, outside the repository: somebody writes picked_quantity,
\* and may mark the row PICKED.

Pick(o, p, n) ==
    /\ Unshipped(alloc[o][p])
    /\ alloc[o][p].picked < n
    /\ \E s \in PickStatuses :
          alloc' = [alloc EXCEPT ![o][p].picked = n, ![o][p].status = s]
    /\ UNCHANGED <<invVars, order, item, deliveries>>

--------------------------------------------------------------------------------
\* DeliveryAssignmentService

\* Deliveries assignOrder takes over instead of creating a new one.
Reusable(d) == d.status \in {"PENDING_ASSIGNMENT", "ASSIGNED", "RESCHEDULED", "RETURNED_TO_WAREHOUSE"}

Assignable(o) ==
    /\ order[o].status \notin {"CANCELLED", "REJECTED"}
    /\ \E p \in Products : Unshipped(alloc[o][p])

Manifest(o) == [p \in Products |-> IF Unshipped(alloc[o][p]) THEN alloc[o][p].allocated ELSE 0]

\* An existing delivery keeps the items it was created with; several may qualify,
\* and the query does not order them.
AssignOrder(o) ==
    /\ Assignable(o)
    /\ LET reusable == {i \in DOMAIN deliveries[o] : Reusable(deliveries[o][i])}
       IN  IF reusable # {}
           THEN \E i \in reusable : deliveries' = [deliveries EXCEPT ![o][i].status = "ASSIGNED"]
           ELSE /\ Len(deliveries[o]) < MaxDeliveries
                /\ deliveries' = [deliveries EXCEPT
                       ![o] = Append(@, [status |-> "ASSIGNED", manifest |-> Manifest(o)])]
    /\ order' = [order EXCEPT ![o].delivery = "ASSIGNED"]
    /\ UNCHANGED <<invVars, item, alloc>>

--------------------------------------------------------------------------------
\* DeliveryWorkflowService.  A call repeated in its target state returns early
\* and changes nothing.

Moved(o, i, status) ==
    deliveries' = [deliveries EXCEPT ![o][i].status = status]

PickedUp(a) == IF a.picked > 0 THEN [a EXCEPT !.dispatched = a.picked, !.status = "DISPATCHED"] ELSE a

ConfirmPickup(o, i) ==
    /\ deliveries[o][i].status = "ASSIGNED"
    /\ alloc' = [alloc EXCEPT ![o] = [p \in Products |-> PickedUp(@[p])]]
    /\ Moved(o, i, "PICKED_UP")
    /\ order' = [order EXCEPT ![o].fulfillment = "DISPATCHED", ![o].delivery = "PICKED_UP"]
    /\ UNCHANGED <<invVars, item>>
    /\ Committed

StartRoute(o, i) ==
    /\ deliveries[o][i].status = "PICKED_UP"
    /\ Moved(o, i, "OUT_FOR_DELIVERY")
    /\ order' = [order EXCEPT ![o].delivery = "OUT_FOR_DELIVERY"]
    /\ UNCHANGED <<invVars, item, alloc>>

\* Mutant of Relieved: the goods leave the shelf and their reservation stays.
RelievedOnHandOnly(b, q) ==
    [b EXCEPT !.onHand = AtLeastZero(@ - q),
              !.available = AtLeastZero(AtLeastZero(b.onHand - q) - b.reserved),
              !.version = @ + 1]

\* The balance after q units leave: computed inline here, not by the model's
\* calculateAvailableQuantity, and without the damaged column.
Relieved(b, q) ==
    LET onHand   == AtLeastZero(b.onHand - q)
        reserved == AtLeastZero(b.reserved - q)
    IN  [b EXCEPT !.onHand = onHand, !.reserved = reserved,
                  !.available = AtLeastZero(onHand - reserved), !.version = @ + 1]

\* Mutant of Completable: the idempotency check and the state predicate are gone.
CompletableAgain(d) == d.status \in {"OUT_FOR_DELIVERY", "DELIVERED"}

Completable(d) == d.status = "OUT_FOR_DELIVERY"

CompleteDelivery(o, i) ==
    LET m == deliveries[o][i].manifest
    IN  /\ Completable(deliveries[o][i])
        /\ \A p \in Products : m[p] > 0 => RoomInLedger(p)
        /\ alloc' = [alloc EXCEPT ![o] = [p \in Products |->
               IF m[p] > 0 THEN [@[p] EXCEPT !.delivered = m[p], !.status = "DELIVERED"] ELSE @[p]]]
        /\ balance' = [p \in Products |-> IF m[p] > 0 THEN Relieved(balance[p], m[p]) ELSE balance[p]]
        /\ ledger' = [p \in Products |->
               IF m[p] > 0 THEN Recorded(ledger[p], "RESERVED", "DISPATCHED", m[p], balance'[p])
                           ELSE ledger[p]]
        /\ Moved(o, i, "DELIVERED")
        /\ order' = [order EXCEPT ![o].fulfillment = "DELIVERED", ![o].delivery = "DELIVERED"]
        /\ UNCHANGED <<exceptions, form, item>>
        /\ Committed

RecordFailure(o, i) ==
    /\ deliveries[o][i].status \in {"ASSIGNED", "PICKED_UP", "OUT_FOR_DELIVERY"}
    /\ Moved(o, i, "FAILED")
    /\ order' = [order EXCEPT ![o].delivery = "FAILED"]
    /\ UNCHANGED <<invVars, item, alloc>>

Reschedule(o, i) ==
    /\ deliveries[o][i].status \in {"ASSIGNED", "FAILED"}
    /\ Moved(o, i, "RESCHEDULED")
    /\ order' = [order EXCEPT ![o].delivery = "RESCHEDULED"]
    /\ UNCHANGED <<invVars, item, alloc>>

\* Mutant of BackInWarehouse: the row is left DISPATCHED.
BackWithoutStatus(a) == IF Present(a) THEN [a EXCEPT !.dispatched = 0] ELSE a

\* Every allocation row of the order is reset, whatever its status was.
BackInWarehouse(a) == IF Present(a) THEN [a EXCEPT !.dispatched = 0, !.status = "ALLOCATED"] ELSE a

ReturnToWarehouse(o, i) ==
    /\ deliveries[o][i].status \in {"PICKED_UP", "OUT_FOR_DELIVERY", "FAILED"}
    /\ alloc' = [alloc EXCEPT ![o] = [p \in Products |-> BackInWarehouse(@[p])]]
    /\ Moved(o, i, "RETURNED_TO_WAREHOUSE")
    /\ order' = [order EXCEPT ![o].fulfillment = "RESERVED", ![o].delivery = "RETURNED_TO_WAREHOUSE"]
    /\ UNCHANGED <<invVars, item>>
    /\ Committed

--------------------------------------------------------------------------------

OrderNext ==
    \/ \E o \in Orders : ApproveOrder(o)
    \/ \E o \in Orders : RejectOrder(o)
    \/ \E o \in Orders : CancelOrder(o)
    \/ \E o \in Orders : AssignOrder(o)
    \/ \E o \in Orders, p \in Products : \E n \in 1..alloc[o][p].allocated : Pick(o, p, n)

DriverNext ==
    \E o \in Orders : \E i \in DOMAIN deliveries[o] :
       \/ ConfirmPickup(o, i)
       \/ StartRoute(o, i)
       \/ CompleteDelivery(o, i)
       \/ RecordFailure(o, i)
       \/ Reschedule(o, i)
       \/ ReturnToWarehouse(o, i)

Next ==
    \/ OrderNext
    \/ DriverNext
    \/ StaffNext /\ UNCHANGED orderVars

Spec == FulfilmentInit /\ [][Next]_vars

--------------------------------------------------------------------------------
\* Properties

\* Every row is well typed.
FulfilmentTypeOK ==
    /\ TypeOK
    /\ order \in [Orders -> OrderRows]
    /\ item \in [Orders -> [Products -> Items]]
    /\ alloc \in [Orders -> [Products -> Allocations]]
    /\ deliveries \in [Orders -> Seq(Deliveries)]

\* Units of p that the completed deliveries of o took out of the warehouse.
TakenBy(d, p) == IF d.status = "DELIVERED" THEN d.manifest[p] ELSE 0

DeliveredUnits(o, p) ==
    SumOver([i \in DOMAIN deliveries[o] |-> TakenBy(deliveries[o][i], p)], DOMAIN deliveries[o])

\* What the order still has a right to out of the reserved stock of p.
OpenClaim(o, p) == item[o][p].reserved - DeliveredUnits(o, p)

\* No history that is known to break the books.  A second delivery relieves the
\* stock again (NoDoubleDeduction); a cancellation after an assignment leaves the
\* delivery open, or releases what was already relieved; a quarantined reserved
\* unit is still claimed, and the completion clamps.
Undisturbed(p) ==
    /\ \A o \in Orders : /\ Len(deliveries[o]) <= 1
                         /\ order[o].status = "CANCELLED" => deliveries[o] = <<>>
    /\ \A i \in DOMAIN exceptions : exceptions[i].product = p => exceptions[i].source = "AVAILABLE"

\* The reserved stock of a product is exactly what its orders still have a claim
\* to: approval, cancellation, completion, failure and return of different
\* orders, with staff adjusting and quarantining in between, neither leak a
\* reservation nor spend another order's.
ReservedIsClaimed ==
    \A p \in Products :
       Undisturbed(p) => balance[p].reserved = SumOver([o \in Orders |-> OpenClaim(o, p)], Orders)

\* Stock leaves once per completed delivery, however often completion is retried
\* and whatever became of the order: the dispatched total is that of the manifests.
RelievedOncePerDelivery ==
    \A p \in Products :
       ledger[p].net["DISPATCHED"] = SumOver([o \in Orders |-> DeliveredUnits(o, p)], Orders)

\* The ledger still explains the balance once deliveries relieve stock.
LedgerReconcilesUndisturbed == \A p \in Products : Undisturbed(p) => Reconciled(balance[p], ledger[p])

\* While an order has had one delivery, goods on a van belong to it and it is still
\* open: no line it lists is left DISPATCHED by a completion, or by a return after
\* any number of failures and new attempts.  (With two, the pickup of one marks the
\* lines of the other as well.)
NoOrphanedCustody ==
    \A o \in Orders, p \in Products :
       (alloc[o][p].status = "DISPATCHED" /\ Len(deliveries[o]) = 1 /\ deliveries[o][1].manifest[p] > 0)
       => deliveries[o][1].status \notin {"DELIVERED", "RETURNED_TO_WAREHOUSE"}

\* Under PostgreSQL no completed delivery lists more of a line than was picked of
\* it.  No service compares the two: a short pick is stopped by the CHECK of the
\* allocation row alone.  Each delivery is held against the picked quantity by
\* itself: two completed deliveries of an order may list it twice over, which is
\* what NoDoubleDeduction is about.
NothingDeliveredUnpicked ==
    \A o \in Orders, p \in Products :
       \A i \in DOMAIN deliveries[o] :
          deliveries[o][i].status = "DELIVERED" => deliveries[o][i].manifest[p] <= alloc[o][p].picked

\* Only an approved order has reserved quantities on its lines: a cancellation that
\* skips the release (its order holds no stock) never drops a claim, even of an
\* order that was dispatched, brought back and dispatched again.
OnlyApprovedClaims ==
    \A o \in Orders, p \in Products : order[o].status # "APPROVED" => item[o][p].reserved = 0

Phase(o) ==
    CASE order[o].status = "SUBMITTED" -> "REVIEW"
      [] order[o].status = "APPROVED" -> "COMMITTED"
      [] OTHER -> "CLOSED"

Commitment == INSTANCE OrderCommitment WITH
    phase   <- [o \in Orders |-> Phase(o)],
    ordered <- [o \in Orders |-> [p \in Products |-> item[o][p].ordered]],
    claim   <- [o \in Orders |-> [p \in Products |-> item[o][p].reserved]]

\* Orders implement the commitment: whatever deliveries and staff do, an order
\* claims all of its lines or none, and a closed order never claims again.
CommitmentRefined == Commitment!Spec

--------------------------------------------------------------------------------
\* What the documents promise and the code does not keep, with a run of its own.

\* "zero double deduction": completed deliveries never take more of a line out
\* of the warehouse than was ordered.
NoDoubleDeduction == \A o \in Orders, p \in Products : DeliveredUnits(o, p) <= item[o][p].ordered
================================================================================
