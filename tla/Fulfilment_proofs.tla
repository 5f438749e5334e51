--------------------------- MODULE Fulfilment_proofs ---------------------------
(***************************************************************************)
(* Proofs about the orders, their deliveries and the stock they share, for *)
(* every set of orders, products and bins, with staff, drivers and the     *)
(* returns desk interleaving freely.                                       *)
(*                                                                         *)
(* First, orders implement OrderCommitment.  The refinement needs one fact *)
(* about the history of an order: an order that is not approved has        *)
(* nothing reserved.  A cancellation releases stock only if the order is   *)
(* approved or its fulfilment says RESERVED, and an order whose delivery   *)
(* came back says RESERVED for ever; without the fact, a cancellation that *)
(* skips the release could drop a claim.                                   *)
(*                                                                         *)
(* Then, the stock.  FInv, below, is the inductive invariant.  Its core is *)
(* SoundRows, what the status of an order says of its lines, reservations  *)
(* and deliveries: without it a second delivery, or one of a cancelled     *)
(* order, could take units nobody claims.  It adds up claims and           *)
(* deliveries over all orders (Sums_proofs), since a balance row is shared *)
(* by every order of its product, and it takes the lemmas about a single   *)
(* balance row and the desk's tickets from Inventory_proofs.               *)
(***************************************************************************)
EXTENDS Fulfilment, Inventory_proofs

OrdersTyped ==
    /\ order \in [Orders -> OrderRows]
    /\ item \in [Orders -> [Products -> Items]]

ClaimInv == OrdersTyped /\ OnlyApprovedClaims

\* The abstract variables, as functions of an order.
Claim(o) == [p \in Products |-> item[o][p].reserved]

OrderedLine(o) == [p \in Products |-> item[o][p].ordered]

--------------------------------------------------------------------------------
\* Steps that leave the commitment alone

\* A driver or a dispatcher moves the two logistic columns of an order.
LEMMA LogisticColumns ==
    ASSUME OrdersTyped, NEW o \in Orders, NEW f \in FulfillmentStatus, NEW d \in DeliveryStatus,
           order' = [order EXCEPT ![o].fulfillment = f, ![o].delivery = d]
    PROVE  order' \in [Orders -> OrderRows] /\ \A x \in Orders : order'[x].status = order[x].status
<1> DEFINE mid == [order EXCEPT ![o].fulfillment = f]
<1>1. mid \in [Orders -> OrderRows] /\ \A x \in Orders : mid[x].status = order[x].status
  BY DEF OrdersTyped, OrderRows
<1>2. order' = [mid EXCEPT ![o].delivery = d]
  BY <1>1
<1> HIDE DEF mid
<1> QED
  BY <1>1, <1>2 DEF OrderRows

LEMMA DeliveryColumn ==
    ASSUME OrdersTyped, NEW o \in Orders, NEW d \in DeliveryStatus,
           order' = [order EXCEPT ![o].delivery = d]
    PROVE  order' \in [Orders -> OrderRows] /\ \A x \in Orders : order'[x].status = order[x].status
BY DEF OrdersTyped, OrderRows

\* Nothing but a review or a cancellation touches a status or a line.
Uninvolved ==
    /\ order' \in [Orders -> OrderRows]
    /\ \A x \in Orders : order'[x].status = order[x].status
    /\ item' = item

LEMMA DriverIsUninvolved == ASSUME OrdersTyped, DriverNext PROVE Uninvolved
<1>1. PICK o \in Orders : \E i \in DOMAIN deliveries[o] :
         \/ ConfirmPickup(o, i) \/ StartRoute(o, i) \/ CompleteDelivery(o, i)
         \/ RecordFailure(o, i) \/ Reschedule(o, i) \/ ReturnToWarehouse(o, i)
  BY DEF DriverNext
<1>2. /\ item' = item
      /\ \/ \E f \in FulfillmentStatus, d \in DeliveryStatus :
               order' = [order EXCEPT ![o].fulfillment = f, ![o].delivery = d]
         \/ \E d \in DeliveryStatus : order' = [order EXCEPT ![o].delivery = d]
  BY <1>1 DEF ConfirmPickup, StartRoute, CompleteDelivery, RecordFailure, Reschedule,
     ReturnToWarehouse, FulfillmentStatus, DeliveryStatus
<1> QED
  BY <1>2, LogisticColumns, DeliveryColumn DEF Uninvolved

LEMMA AssignIsUninvolved ==
    ASSUME OrdersTyped, NEW o \in Orders, AssignOrder(o)
    PROVE  Uninvolved
BY DeliveryColumn DEF AssignOrder, Uninvolved, DeliveryStatus

LEMMA PickIsUninvolved ==
    ASSUME OrdersTyped, NEW o \in Orders, NEW p \in Products, NEW n, Pick(o, p, n)
    PROVE  Uninvolved
BY DEF Pick, Uninvolved, OrdersTyped

--------------------------------------------------------------------------------
\* The three operations of OrderWorkflowService

LEMMA ReservedColumn ==
    ASSUME NEW r \in Items, NEW n \in Nat
    PROVE  /\ [r EXCEPT !.reserved = n] \in Items
           /\ [r EXCEPT !.reserved = n].ordered = r.ordered
           /\ [r EXCEPT !.reserved = n].reserved = n
BY DEF Items

LEMMA ApprovedRows ==
    ASSUME ClaimInv, NEW o \in Orders, ApproveOrder(o)
    PROVE  /\ order' \in [Orders -> OrderRows] /\ order'[o].status = "APPROVED"
           /\ \A x \in Orders \ {o} : order'[x] = order[x]
           /\ item' \in [Orders -> [Products -> Items]]
           /\ \A p \in Products : /\ item'[o][p].ordered = item[o][p].ordered
                                  /\ item'[o][p].reserved = item[o][p].ordered
           /\ \A x \in Orders \ {o} : item'[x] = item[x]
<1> DEFINE mid == [order EXCEPT ![o].status = "APPROVED"]
<1>1. /\ mid \in [Orders -> OrderRows]
      /\ mid[o].status = "APPROVED" /\ \A x \in Orders \ {o} : mid[x] = order[x]
  BY DEF ClaimInv, OrdersTyped, OrderRows, OrderStatus
<1>2. order' = [mid EXCEPT ![o].fulfillment = "RESERVED"]
  BY <1>1 DEF ApproveOrder
<1> HIDE DEF mid
<1>3. /\ order' \in [Orders -> OrderRows]
      /\ order'[o].status = "APPROVED" /\ \A x \in Orders \ {o} : order'[x] = order[x]
  BY <1>1, <1>2 DEF OrderRows, FulfillmentStatus
<1> DEFINE lines == [p \in Products |-> [item[o][p] EXCEPT !.reserved = item[o][p].ordered]]
<1>4. item' = [item EXCEPT ![o] = lines]
  BY DEF ApproveOrder, Fulfillable
<1>5. /\ item' \in [Orders -> [Products -> Items]]
      /\ \A p \in Products : /\ item'[o][p].ordered = item[o][p].ordered
                             /\ item'[o][p].reserved = item[o][p].ordered
      /\ \A x \in Orders \ {o} : item'[x] = item[x]
  <2>1. /\ lines \in [Products -> Items]
        /\ \A p \in Products : lines[p].ordered = item[o][p].ordered /\ lines[p].reserved = item[o][p].ordered
    <3>1. \A p \in Products : item[o][p] \in Items /\ item[o][p].ordered \in Nat
      BY DEF ClaimInv, OrdersTyped, Items
    <3> QED
      BY <3>1, ReservedColumn
  <2> HIDE DEF lines
  <2>2. item \in [Orders -> [Products -> Items]]
    BY DEF ClaimInv, OrdersTyped
  <2>3. item' \in [Orders -> [Products -> Items]] /\ item'[o] = lines /\ \A x \in Orders \ {o} : item'[x] = item[x]
    BY <1>4, <2>1, <2>2
  <2> QED
    BY <2>1, <2>3
<1> QED
  BY <1>3, <1>5

LEMMA ApproveCommits ==
    ASSUME ClaimInv, NEW o \in Orders, ApproveOrder(o)
    PROVE  ClaimInv' /\ Commitment!Commit(o)
<1>1. /\ order' \in [Orders -> OrderRows] /\ order'[o].status = "APPROVED"
      /\ \A x \in Orders \ {o} : order'[x] = order[x]
      /\ item' \in [Orders -> [Products -> Items]]
      /\ \A p \in Products : /\ item'[o][p].ordered = item[o][p].ordered
                             /\ item'[o][p].reserved = item[o][p].ordered
      /\ \A x \in Orders \ {o} : item'[x] = item[x]
  BY ApprovedRows
<1>2. ClaimInv'
  BY <1>1 DEF ClaimInv, OrdersTyped, OnlyApprovedClaims
<1>3. order[o].status = "SUBMITTED"
  BY DEF ApproveOrder, Reviewable
<1>4. /\ Phase(o) = "REVIEW" /\ Phase(o)' = "COMMITTED"
      /\ \A x \in Orders \ {o} : Phase(x)' = Phase(x)
  BY <1>1, <1>3 DEF Phase
<1>5. /\ Claim(o)' = OrderedLine(o) /\ \A x \in Orders \ {o} : Claim(x)' = Claim(x)
      /\ \A x \in Orders : OrderedLine(x)' = OrderedLine(x)
  BY <1>1 DEF Claim, OrderedLine
<1>6. [x \in Orders |-> Phase(x)]' = [[x \in Orders |-> Phase(x)] EXCEPT ![o] = "COMMITTED"]
  BY <1>4
<1>7. [x \in Orders |-> Claim(x)]' = [[x \in Orders |-> Claim(x)] EXCEPT ![o] = OrderedLine(o)]
  BY <1>5
<1>8. [x \in Orders |-> OrderedLine(x)]' = [x \in Orders |-> OrderedLine(x)]
  BY <1>5
<1> QED
  BY <1>2, <1>4, <1>6, <1>7, <1>8 DEF Commitment!Commit, Claim, OrderedLine

\* Both ways of closing an order, given what they do to its rows.
LEMMA ClosedOrder ==
    ASSUME ClaimInv, NEW o \in Orders,
           order[o].status \notin {"CANCELLED", "REJECTED"},
           order' \in [Orders -> OrderRows],
           order'[o].status \in {"CANCELLED", "REJECTED"},
           \A x \in Orders \ {o} : order'[x] = order[x],
           item' \in [Orders -> [Products -> Items]],
           \A p \in Products : item'[o][p].ordered = item[o][p].ordered /\ item'[o][p].reserved = 0,
           \A x \in Orders \ {o} : item'[x] = item[x]
    PROVE  ClaimInv' /\ Commitment!Close(o)
<1>1. ClaimInv'
  BY DEF ClaimInv, OrdersTyped, OnlyApprovedClaims
<1>2. order[o].status \in {"SUBMITTED", "APPROVED"}
  BY DEF ClaimInv, OrdersTyped, OrderRows, OrderStatus
<1>3. /\ Phase(o) \in {"REVIEW", "COMMITTED"} /\ Phase(o)' = "CLOSED"
      /\ \A x \in Orders \ {o} : Phase(x)' = Phase(x)
  BY <1>2 DEF Phase
<1>4. /\ Claim(o)' = [p \in Products |-> 0] /\ \A x \in Orders \ {o} : Claim(x)' = Claim(x)
      /\ \A x \in Orders : OrderedLine(x)' = OrderedLine(x)
  BY DEF Claim, OrderedLine
<1>5. [x \in Orders |-> Phase(x)]' = [[x \in Orders |-> Phase(x)] EXCEPT ![o] = "CLOSED"]
  BY <1>3
<1>6. [x \in Orders |-> Claim(x)]' = [[x \in Orders |-> Claim(x)] EXCEPT ![o] = [p \in Products |-> 0]]
  BY <1>4
<1>7. [x \in Orders |-> OrderedLine(x)]' = [x \in Orders |-> OrderedLine(x)]
  BY <1>4
<1>8. [x \in Orders |-> Phase(x)][o] \in {"REVIEW", "COMMITTED"}
  BY <1>3
<1> QED
  BY <1>1, <1>5, <1>6, <1>7, <1>8 DEF Commitment!Close, Claim, OrderedLine

LEMMA RejectCloses ==
    ASSUME ClaimInv, NEW o \in Orders, RejectOrder(o)
    PROVE  ClaimInv' /\ Commitment!Close(o)
<1>1. order[o].status = "SUBMITTED" /\ item' = item
  BY DEF RejectOrder, Reviewable
<1>2. /\ order' \in [Orders -> OrderRows] /\ order'[o].status = "REJECTED"
      /\ \A x \in Orders \ {o} : order'[x] = order[x]
  BY DEF RejectOrder, ClaimInv, OrdersTyped, OrderRows, OrderStatus
<1>3. item \in [Orders -> [Products -> Items]] /\ \A p \in Products : item[o][p].reserved = 0
  BY <1>1 DEF ClaimInv, OrdersTyped, OnlyApprovedClaims
<1> QED
  BY <1>1, <1>2, <1>3, ClosedOrder

LEMMA CancelledRows ==
    ASSUME ClaimInv, NEW o \in Orders, CancelOrder(o)
    PROVE  /\ order' \in [Orders -> OrderRows] /\ order'[o].status = "CANCELLED"
           /\ \A x \in Orders \ {o} : order'[x] = order[x]
           /\ item' \in [Orders -> [Products -> Items]]
           /\ \A p \in Products : item'[o][p].ordered = item[o][p].ordered /\ item'[o][p].reserved = 0
           /\ \A x \in Orders \ {o} : item'[x] = item[x]
<1> DEFINE mid == [order EXCEPT ![o].status = "CANCELLED"]
<1>1. /\ mid \in [Orders -> OrderRows]
      /\ mid[o].status = "CANCELLED" /\ \A x \in Orders \ {o} : mid[x] = order[x]
  BY DEF ClaimInv, OrdersTyped, OrderRows, OrderStatus
<1>2. order' = [mid EXCEPT ![o].fulfillment = "UNALLOCATED"]
  BY <1>1 DEF CancelOrder
<1> HIDE DEF mid
<1>3. /\ order' \in [Orders -> OrderRows] /\ order'[o].status = "CANCELLED"
      /\ \A x \in Orders \ {o} : order'[x] = order[x]
  BY <1>1, <1>2 DEF OrderRows, FulfillmentStatus
<1>4. /\ item' \in [Orders -> [Products -> Items]]
      /\ \A p \in Products : item'[o][p].ordered = item[o][p].ordered /\ item'[o][p].reserved = 0
      /\ \A x \in Orders \ {o} : item'[x] = item[x]
  <2>1. CASE HoldsStock(o)
    <3>1. item' = [item EXCEPT ![o] = [p \in Products |-> [item[o][p] EXCEPT !.reserved = 0]]]
      BY <2>1 DEF CancelOrder
    <3> DEFINE lines == [p \in Products |-> [item[o][p] EXCEPT !.reserved = 0]]
    <3>2. /\ lines \in [Products -> Items]
          /\ \A p \in Products : lines[p].ordered = item[o][p].ordered /\ lines[p].reserved = 0
      BY DEF ClaimInv, OrdersTyped, Items
    <3> HIDE DEF lines
    <3>3. item' = [item EXCEPT ![o] = lines]
      BY <3>1 DEF lines
    <3> QED
      BY <3>2, <3>3 DEF ClaimInv, OrdersTyped
  <2>2. CASE ~HoldsStock(o)
    <3>1. item' = item /\ order[o].status # "APPROVED"
      BY <2>2 DEF CancelOrder, HoldsStock
    <3> QED
      BY <3>1 DEF ClaimInv, OrdersTyped, OnlyApprovedClaims
  <2> QED
    BY <2>1, <2>2
<1> QED
  BY <1>3, <1>4

LEMMA CancelCloses ==
    ASSUME ClaimInv, NEW o \in Orders, CancelOrder(o)
    PROVE  ClaimInv' /\ Commitment!Close(o)
<1>1. order[o].status \notin {"CANCELLED", "REJECTED"}
  BY DEF CancelOrder
<1> QED
  BY <1>1, CancelledRows, ClosedOrder

--------------------------------------------------------------------------------
\* The refinement

LEMMA InitClaims == FulfilmentInit => ClaimInv /\ Commitment!Init
<1> SUFFICES ASSUME FulfilmentInit PROVE ClaimInv /\ Commitment!Init
  OBVIOUS
<1>1. order \in [Orders -> OrderRows] /\ \A o \in Orders : order[o].status = "SUBMITTED"
  BY DEF FulfilmentInit, OrderRows, OrderStatus, FulfillmentStatus, DeliveryStatus
<1>2. PICK lines \in [Orders -> [Products -> OrderedQuantities]] :
         item = [o \in Orders |-> [p \in Products |-> [ordered |-> lines[o][p], reserved |-> 0]]]
  BY DEF FulfilmentInit
<1>3. \A o \in Orders, p \in Products : lines[o][p] \in Nat
  BY FulfilmentAssumption
<1>4. /\ item \in [Orders -> [Products -> Items]]
      /\ \A o \in Orders, p \in Products : item[o][p].reserved = 0 /\ item[o][p].ordered \in Nat
  BY <1>2, <1>3 DEF Items
<1>5. ClaimInv
  BY <1>1, <1>4 DEF ClaimInv, OrdersTyped, OnlyApprovedClaims
<1>6. \A o \in Orders : /\ Phase(o) = "REVIEW"
                        /\ Claim(o) = [p \in Products |-> 0]
                        /\ OrderedLine(o) \in [Products -> Nat]
  BY <1>1, <1>4 DEF Phase, Claim, OrderedLine
<1> QED
  BY <1>5, <1>6 DEF Commitment!Init, Claim, OrderedLine

LEMMA StepClaims ==
    ASSUME ClaimInv, [Next]_vars
    PROVE  ClaimInv' /\ (Commitment!Next \/ Uninvolved)
<1>1. CASE Next
  <2>1. ASSUME Uninvolved PROVE ClaimInv'
    BY <2>1 DEF Uninvolved, ClaimInv, OrdersTyped, OnlyApprovedClaims
  <2>2. CASE OrderNext
    <3>1. CASE \E o \in Orders : ApproveOrder(o)
      BY <3>1, ApproveCommits DEF Commitment!Next
    <3>2. CASE \E o \in Orders : RejectOrder(o)
      BY <3>2, RejectCloses DEF Commitment!Next
    <3>3. CASE \E o \in Orders : CancelOrder(o)
      BY <3>3, CancelCloses DEF Commitment!Next
    <3>4. CASE \E o \in Orders : AssignOrder(o)
      BY <2>1, <3>4, AssignIsUninvolved DEF ClaimInv
    <3>5. CASE \E o \in Orders, p \in Products : \E n \in 1..alloc[o][p].allocated : Pick(o, p, n)
      BY <2>1, <3>5, PickIsUninvolved DEF ClaimInv
    <3> QED
      BY <2>2, <3>1, <3>2, <3>3, <3>4, <3>5 DEF OrderNext
  <2>3. CASE DriverNext
    BY <2>1, <2>3, DriverIsUninvolved DEF ClaimInv
  <2>4. CASE StaffNext /\ UNCHANGED orderVars
    <3>1. Uninvolved
      BY <2>4 DEF orderVars, Uninvolved, ClaimInv, OrdersTyped
    <3> QED
      BY <2>1, <3>1
  <2> QED
    BY <1>1, <2>2, <2>3, <2>4 DEF Next
<1>2. CASE UNCHANGED vars
  BY <1>2 DEF vars, orderVars, Uninvolved, ClaimInv, OrdersTyped, OnlyApprovedClaims
<1> QED
  BY <1>1, <1>2

LEMMA ClaimsHold == Spec => []ClaimInv
<1>1. FulfilmentInit => ClaimInv
  BY InitClaims
<1>2. ClaimInv /\ [Next]_vars => ClaimInv'
  BY StepClaims
<1> QED
  BY <1>1, <1>2, PTL DEF Spec

\* An order that is not approved claims nothing: no rejection, cancellation or
\* return of goods leaves a reserved quantity on the lines of a closed order.
THEOREM ClosedOrdersClaimNothing == Spec => []OnlyApprovedClaims
<1>1. ClaimInv => OnlyApprovedClaims
  BY DEF ClaimInv
<1> QED
  BY <1>1, ClaimsHold, PTL

\* Orders implement the commitment: approval claims every line in full or does not
\* happen, closing gives everything up, and nothing else touches the claim.
THEOREM ImplementsCommitment == Spec => CommitmentRefined
<1> DEFINE mapped == << [o \in Orders |-> Phase(o)], [o \in Orders |-> OrderedLine(o)],
                        [o \in Orders |-> Claim(o)] >>
<1>1. FulfilmentInit => Commitment!Init
  BY InitClaims
<1>2. ClaimInv /\ [Next]_vars => [Commitment!Next]_mapped
  <2> SUFFICES ASSUME ClaimInv, [Next]_vars, ~Commitment!Next
               PROVE  UNCHANGED mapped
    OBVIOUS
  <2>1. Uninvolved
    BY StepClaims
  <2>2. \A x \in Orders : Phase(x)' = Phase(x) /\ Claim(x)' = Claim(x) /\ OrderedLine(x)' = OrderedLine(x)
    BY <2>1 DEF Uninvolved, Phase, Claim, OrderedLine
  <2> QED
    BY <2>2
<1> QED
  BY <1>1, <1>2, ClaimsHold, PTL
     DEF Spec, CommitmentRefined, Commitment!Spec, OrderedLine, Claim

--------------------------------------------------------------------------------
\* The rows of one order

RowsTyped ==
    /\ OrdersTyped
    /\ alloc \in [Orders -> [Products -> Allocations]]
    /\ deliveries \in [Orders -> Seq(Deliveries)]

\* NoOrphanedCustody, of one order.
Custody(rows, ds) ==
    \A p \in Products :
       (rows[p].status = "DISPATCHED" /\ Len(ds) = 1 /\ ds[1].manifest[p] > 0)
       => ds[1].status \notin {"DELIVERED", "RETURNED_TO_WAREHOUSE"}

\* NothingDeliveredUnpicked, of one order.
Picked(rows, ds) ==
    \A i \in DOMAIN ds, p \in Products :
       ds[i].status = "DELIVERED" => ds[i].manifest[p] <= rows[p].picked

\* Allocations and deliveries begin with the approval, which reserves every line in
\* full; neither an allocation nor a manifest ever lists more than was ordered.
SoundRows(status, lines, rows, ds) ==
    /\ status \in {"SUBMITTED", "REJECTED"} => ds = <<>> /\ \A p \in Products : ~Present(rows[p])
    /\ status = "APPROVED" => \A p \in Products : lines[p].reserved = lines[p].ordered
    /\ \A p \in Products : rows[p].allocated <= lines[p].ordered
    /\ \A i \in DOMAIN ds, p \in Products : ds[i].manifest[p] <= lines[p].ordered
    /\ Custody(rows, ds)
    /\ DbChecks => Picked(rows, ds)

RowsSound == \A o \in Orders : SoundRows(order[o].status, item[o], alloc[o], deliveries[o])

\* A step of one order, whose rows it leaves sound.
LEMMA OneOrder ==
    ASSUME RowsTyped, RowsSound, NEW o \in Orders,
           order' \in [Orders -> OrderRows], item' \in [Orders -> [Products -> Items]],
           \A x \in Orders \ {o} : order'[x].status = order[x].status /\ item'[x] = item[x],
           NEW rows \in [Products -> Allocations], alloc' = [alloc EXCEPT ![o] = rows],
           NEW ds \in Seq(Deliveries), deliveries' = [deliveries EXCEPT ![o] = ds],
           SoundRows(order'[o].status, item'[o], rows, ds)
    PROVE  RowsTyped' /\ RowsSound'
<1>1. /\ alloc' \in [Orders -> [Products -> Allocations]] /\ alloc'[o] = rows
      /\ \A x \in Orders \ {o} : alloc'[x] = alloc[x]
  BY DEF RowsTyped
<1>2. /\ deliveries' \in [Orders -> Seq(Deliveries)] /\ deliveries'[o] = ds
      /\ \A x \in Orders \ {o} : deliveries'[x] = deliveries[x]
  BY DEF RowsTyped
<1>3. RowsTyped'
  BY <1>1, <1>2 DEF RowsTyped, OrdersTyped
<1>4. \A x \in Orders : SoundRows(order'[x].status, item'[x], alloc'[x], deliveries'[x])
  BY <1>1, <1>2 DEF RowsSound
<1> QED
  BY <1>3, <1>4 DEF RowsSound

\* The rows of an order as a step finds them.
LEMMA RowsOf ==
    ASSUME RowsTyped, RowsSound, NEW o \in Orders
    PROVE  /\ order[o] \in OrderRows /\ item[o] \in [Products -> Items]
           /\ alloc[o] \in [Products -> Allocations] /\ deliveries[o] \in Seq(Deliveries)
           /\ SoundRows(order[o].status, item[o], alloc[o], deliveries[o])
BY DEF RowsTyped, OrdersTyped, RowsSound

LEMMA ApproveKeepsRows ==
    ASSUME RowsTyped, RowsSound, ClaimInv, NEW o \in Orders, ApproveOrder(o)
    PROVE  RowsTyped' /\ RowsSound'
<1> DEFINE rows == [p \in Products |-> BaselineAllocation(item[o][p].ordered)]
<1>1. /\ order[o].status = "SUBMITTED" /\ deliveries' = deliveries
      /\ alloc' = [alloc EXCEPT ![o] = rows]
  BY DEF ApproveOrder, Reviewable, Fulfillable
<1>2. /\ order' \in [Orders -> OrderRows] /\ order'[o].status = "APPROVED"
      /\ item' \in [Orders -> [Products -> Items]]
      /\ \A x \in Orders \ {o} : order'[x] = order[x] /\ item'[x] = item[x]
      /\ \A p \in Products : item'[o][p].ordered = item[o][p].ordered /\ item'[o][p].reserved = item[o][p].ordered
  BY ApprovedRows
<1>3. \A p \in Products : rows[p] \in Allocations /\ rows[p].allocated = item[o][p].ordered
  <2>1. ASSUME NEW q \in Nat
        PROVE  BaselineAllocation(q) \in Allocations /\ BaselineAllocation(q).allocated = q
    <3> DEFINE y == [NoAllocation EXCEPT !.allocated = q]
               z == [y EXCEPT !.reserved = q]
    <3>1. NoAllocation \in Allocations /\ NoAllocation.allocated = 0
      BY DEF NoAllocation, Allocations, AllocationStatus
    <3>2. y \in Allocations /\ y.allocated = q
      BY <3>1 DEF Allocations
    <3>3. BaselineAllocation(q) = IF q > 0 THEN [z EXCEPT !.status = "ALLOCATED"] ELSE NoAllocation
      BY DEF BaselineAllocation
    <3> HIDE DEF y
    <3>4. z \in Allocations /\ z.allocated = q
      BY <3>2 DEF Allocations
    <3> HIDE DEF z
    <3> QED
      BY <3>1, <3>3, <3>4 DEF Allocations, AllocationStatus
  <2>2. \A p \in Products : item[o][p].ordered \in Nat
    BY DEF RowsTyped, OrdersTyped, Items
  <2> QED
    BY <2>1, <2>2
<1>4. rows \in [Products -> Allocations]
  BY <1>3
<1>5. deliveries[o] = <<>> /\ deliveries[o] \in Seq(Deliveries) /\ deliveries' = [deliveries EXCEPT ![o] = deliveries[o]]
  BY <1>1, RowsOf DEF SoundRows, RowsTyped
<1> HIDE DEF rows
<1>6. SoundRows(order'[o].status, item'[o], rows, deliveries[o])
  <2>1. \A p \in Products : rows[p].allocated <= item'[o][p].ordered
    <3>1. \A p \in Products : item[o][p].ordered \in Nat
      BY DEF RowsTyped, OrdersTyped, Items
    <3> QED
      BY <1>2, <1>3, <3>1
  <2>2. Custody(rows, <<>>) /\ Picked(rows, <<>>)
    BY DEF Custody, Picked
  <2> QED
    BY <1>2, <1>5, <2>1, <2>2 DEF SoundRows
<1> QED
  BY <1>1, <1>2, <1>4, <1>5, <1>6, OneOrder

LEMMA RejectKeepsRows ==
    ASSUME RowsTyped, RowsSound, ClaimInv, NEW o \in Orders, RejectOrder(o)
    PROVE  RowsTyped' /\ RowsSound'
<1>1. ClaimInv' /\ order[o].status = "SUBMITTED" /\ UNCHANGED <<item, alloc, deliveries>>
  BY RejectCloses DEF RejectOrder, Reviewable
<1>2. /\ \A x \in Orders \ {o} : order'[x] = order[x]
      /\ order'[o].status = "REJECTED"
  BY DEF RejectOrder, RowsTyped, OrdersTyped, OrderRows
<1>3. SoundRows(order'[o].status, item[o], alloc[o], deliveries[o])
  BY <1>1, <1>2, RowsOf DEF SoundRows
<1>4. RowsTyped'
  BY <1>1 DEF ClaimInv, RowsTyped, OrdersTyped
<1> QED
  BY <1>1, <1>2, <1>3, <1>4 DEF RowsSound

LEMMA FreedRows ==
    ASSUME NEW a \in Allocations
    PROVE  /\ Freed(a) \in Allocations /\ Freed(a).allocated = a.allocated /\ Freed(a).picked = a.picked
           /\ Present(Freed(a)) <=> Present(a)
           /\ Freed(a).status = "DISPATCHED" => a.status = "DISPATCHED"
<1>1. CASE Unshipped(a)
  <2> DEFINE y == [a EXCEPT !.status = "CANCELLED"]
  <2>1. y \in Allocations /\ y.allocated = a.allocated /\ y.picked = a.picked /\ y.status = "CANCELLED"
    BY DEF Allocations, AllocationStatus
  <2>2. Freed(a) = [y EXCEPT !.reserved = 0]
    BY <1>1 DEF Freed
  <2> HIDE DEF y
  <2>3. /\ Freed(a) \in Allocations /\ Freed(a).allocated = a.allocated /\ Freed(a).picked = a.picked
        /\ Freed(a).status = "CANCELLED"
    BY <2>1, <2>2 DEF Allocations
  <2> QED
    BY <1>1, <2>3 DEF Unshipped, Present
<1>2. CASE ~Unshipped(a)
  BY <1>2 DEF Freed
<1> QED
  BY <1>1, <1>2

\* Rows that list, pick and dispatch no more than before keep what was sound.
LEMMA NoMoreDispatched ==
    ASSUME NEW rows \in [Products -> Allocations], NEW new \in [Products -> Allocations],
           \A p \in Products : /\ new[p].allocated = rows[p].allocated /\ new[p].picked = rows[p].picked
                               /\ new[p].status = "DISPATCHED" => rows[p].status = "DISPATCHED",
           NEW ds, Custody(rows, ds), DbChecks => Picked(rows, ds)
    PROVE  Custody(new, ds) /\ (DbChecks => Picked(new, ds))
BY DEF Custody, Picked

LEMMA CancelKeepsRows ==
    ASSUME RowsTyped, RowsSound, ClaimInv, NEW o \in Orders, CancelOrder(o)
    PROVE  RowsTyped' /\ RowsSound'
<1> DEFINE rows == IF HoldsStock(o) THEN [p \in Products |-> Freed(alloc[o][p])] ELSE alloc[o]
<1>1. deliveries' = deliveries
  BY DEF CancelOrder
<1>2. /\ order' \in [Orders -> OrderRows] /\ order'[o].status = "CANCELLED"
      /\ item' \in [Orders -> [Products -> Items]]
      /\ \A x \in Orders \ {o} : order'[x] = order[x] /\ item'[x] = item[x]
      /\ \A p \in Products : item'[o][p].ordered = item[o][p].ordered
  BY CancelledRows
<1>3. alloc' = [alloc EXCEPT ![o] = rows]
  BY DEF CancelOrder, RowsTyped
<1>4. \A p \in Products : alloc[o][p] \in Allocations
  BY DEF RowsTyped
<1>5. \A p \in Products : /\ rows[p] \in Allocations
                          /\ rows[p].allocated = alloc[o][p].allocated /\ rows[p].picked = alloc[o][p].picked
                          /\ rows[p].status = "DISPATCHED" => alloc[o][p].status = "DISPATCHED"
  BY <1>4, FreedRows
<1>6. rows \in [Products -> Allocations]
  BY <1>5 DEF RowsTyped
<1> HIDE DEF rows
<1>7. deliveries[o] \in Seq(Deliveries) /\ deliveries' = [deliveries EXCEPT ![o] = deliveries[o]]
  BY <1>1 DEF RowsTyped
<1>8. SoundRows(order[o].status, item[o], alloc[o], deliveries[o]) /\ alloc[o] \in [Products -> Allocations]
  BY RowsOf
<1>9. Custody(rows, deliveries[o]) /\ (DbChecks => Picked(rows, deliveries[o]))
  BY <1>5, <1>6, <1>8, NoMoreDispatched DEF SoundRows
<1>10. SoundRows(order'[o].status, item'[o], rows, deliveries[o])
  BY <1>2, <1>5, <1>8, <1>9 DEF SoundRows
<1> QED
  BY <1>2, <1>3, <1>6, <1>7, <1>10, OneOrder

LEMMA PickKeepsRows ==
    ASSUME RowsTyped, RowsSound, NEW o \in Orders, NEW p \in Products, NEW n \in 1..alloc[o][p].allocated,
           Pick(o, p, n)
    PROVE  RowsTyped' /\ RowsSound'
<1>1. /\ Unshipped(alloc[o][p]) /\ alloc[o][p].picked < n /\ UNCHANGED <<order, item, deliveries>>
  BY DEF Pick
<1>2. PICK s \in {"ALLOCATED", "PICKED"} :
         alloc' = [alloc EXCEPT ![o][p].picked = n, ![o][p].status = s]
  BY FulfilmentAssumption DEF Pick
<1> DEFINE a == alloc[o][p]
           y == [a EXCEPT !.picked = n]
           z == [y EXCEPT !.status = s]
           rows == [alloc[o] EXCEPT ![p] = z]
<1>3. a \in Allocations /\ n \in Nat /\ alloc[o] \in [Products -> Allocations]
  BY DEF RowsTyped
<1>4. y \in Allocations /\ y.picked = n /\ y.allocated = a.allocated /\ y.status = a.status
  BY <1>3 DEF Allocations
<1>5. alloc' = [alloc EXCEPT ![o] = rows]
  BY <1>2 DEF RowsTyped
<1> HIDE DEF y
<1>6. z \in Allocations /\ z.picked = n /\ z.allocated = a.allocated /\ z.status = s
  BY <1>4 DEF Allocations, AllocationStatus
<1> HIDE DEF z
<1>7. /\ rows \in [Products -> Allocations]
      /\ rows[p] = z /\ \A r \in Products \ {p} : rows[r] = alloc[o][r]
  BY <1>3, <1>6
<1> HIDE DEF rows
<1>8. SoundRows(order[o].status, item[o], alloc[o], deliveries[o]) /\ deliveries[o] \in Seq(Deliveries)
  BY RowsOf
<1>9. Custody(rows, deliveries[o])
  BY <1>6, <1>7, <1>8 DEF SoundRows, Custody
<1>10. DbChecks => Picked(rows, deliveries[o])
  <2>1. \A i \in DOMAIN deliveries[o], r \in Products : deliveries[o][i].manifest[r] \in Nat
    <3>1. \A i \in DOMAIN deliveries[o] : deliveries[o][i] \in Deliveries
      BY <1>8
    <3> QED
      BY <3>1 DEF Deliveries
  <2>2. \A r \in Products : rows[r].picked \in Nat /\ alloc[o][r].picked \in Nat /\ alloc[o][r].picked <= rows[r].picked
    <3>1. \A r \in Products : alloc[o][r] \in Allocations /\ rows[r] \in Allocations
      BY <1>3, <1>7
    <3>2. \A r \in Products : rows[r].picked \in Nat /\ alloc[o][r].picked \in Nat
      BY <3>1 DEF Allocations
    <3> QED
      BY <1>1, <1>6, <1>7, <3>2
  <2> QED
    BY <1>8, <2>1, <2>2 DEF SoundRows, Picked
<1>11. SoundRows(order[o].status, item[o], rows, deliveries[o])
  BY <1>1, <1>6, <1>7, <1>8, <1>9, <1>10 DEF SoundRows, Unshipped, Present
<1>12. /\ order' \in [Orders -> OrderRows] /\ item' \in [Orders -> [Products -> Items]]
       /\ deliveries' = [deliveries EXCEPT ![o] = deliveries[o]]
  BY <1>1 DEF RowsTyped, OrdersTyped
<1> QED
  BY <1>1, <1>5, <1>7, <1>8, <1>11, <1>12, OneOrder

--------------------------------------------------------------------------------
\* Deliveries

MovedTo(ds, i, s) == [ds EXCEPT ![i].status = s]

LEMMA MovedRow ==
    ASSUME NEW ds \in Seq(Deliveries), NEW i \in DOMAIN ds, NEW s \in DeliveryStatus
    PROVE  /\ MovedTo(ds, i, s) \in Seq(Deliveries)
           /\ Len(MovedTo(ds, i, s)) = Len(ds) /\ DOMAIN MovedTo(ds, i, s) = DOMAIN ds
           /\ \A k \in DOMAIN ds : MovedTo(ds, i, s)[k].manifest = ds[k].manifest
           /\ MovedTo(ds, i, s)[i].status = s
           /\ \A k \in DOMAIN ds \ {i} : MovedTo(ds, i, s)[k] = ds[k]
<1> DEFINE d == [ds[i] EXCEPT !.status = s]
           new == MovedTo(ds, i, s)
<1>1. ds[i] \in Deliveries
  OBVIOUS
<1>2. d \in Deliveries /\ d.status = s /\ d.manifest = ds[i].manifest
  BY <1>1 DEF Deliveries
<1>3. new = [ds EXCEPT ![i] = d]
  BY DEF MovedTo
<1> HIDE DEF d, new
<1>4. /\ new \in Seq(Deliveries) /\ Len(new) = Len(ds) /\ DOMAIN new = DOMAIN ds
      /\ new[i] = d /\ \A k \in DOMAIN ds \ {i} : new[k] = ds[k]
  BY <1>2, <1>3
<1> QED
  BY <1>2, <1>4 DEF new

LEMMA MovedDeliveries ==
    ASSUME RowsTyped, NEW o \in Orders, NEW i \in DOMAIN deliveries[o], NEW s, Moved(o, i, s)
    PROVE  deliveries' = [deliveries EXCEPT ![o] = MovedTo(deliveries[o], i, s)]
BY DEF RowsTyped, Moved, MovedTo

\* A delivery moves on, and the order's allocations with it.
LEMMA DeliveryKeepsRows ==
    ASSUME RowsTyped, RowsSound, Uninvolved, NEW o \in Orders,
           NEW i \in DOMAIN deliveries[o], NEW s \in DeliveryStatus, Moved(o, i, s),
           NEW rows \in [Products -> Allocations], alloc' = [alloc EXCEPT ![o] = rows],
           \A p \in Products : rows[p].allocated = alloc[o][p].allocated,
           Custody(rows, MovedTo(deliveries[o], i, s)),
           DbChecks => Picked(rows, MovedTo(deliveries[o], i, s))
    PROVE  RowsTyped' /\ RowsSound'
<1> DEFINE new == MovedTo(deliveries[o], i, s)
<1>1. SoundRows(order[o].status, item[o], alloc[o], deliveries[o]) /\ deliveries[o] \in Seq(Deliveries)
  BY RowsOf
<1>2. /\ new \in Seq(Deliveries) /\ DOMAIN new = DOMAIN deliveries[o]
      /\ \A k \in DOMAIN deliveries[o] : new[k].manifest = deliveries[o][k].manifest
  BY <1>1, MovedRow
<1>3. item' = item /\ order' \in [Orders -> OrderRows] /\ \A x \in Orders : order'[x].status = order[x].status
  BY DEF Uninvolved
<1>4. deliveries[o] # <<>>
  OBVIOUS
<1>5. deliveries' = [deliveries EXCEPT ![o] = new]
  BY MovedDeliveries
<1> HIDE DEF new
<1>6. SoundRows(order'[o].status, item'[o], rows, new)
  BY <1>1, <1>2, <1>3, <1>4 DEF SoundRows, new
<1>7. /\ item' \in [Orders -> [Products -> Items]]
      /\ \A x \in Orders \ {o} : order'[x].status = order[x].status /\ item'[x] = item[x]
  BY <1>3 DEF RowsTyped, OrdersTyped
<1> QED
  BY <1>2, <1>3, <1>5, <1>6, <1>7, OneOrder

--------------------------------------------------------------------------------
\* What the services of the road do to the rows

\* Where no allocation changes, and the goods neither arrive nor come back.
LEMMA RoadKeepsRows ==
    ASSUME RowsTyped, RowsSound, Uninvolved, alloc' = alloc, NEW o \in Orders,
           NEW i \in DOMAIN deliveries[o],
           NEW s \in DeliveryStatus \ {"DELIVERED", "RETURNED_TO_WAREHOUSE"}, Moved(o, i, s)
    PROVE  RowsTyped' /\ RowsSound'
<1> DEFINE new == MovedTo(deliveries[o], i, s)
<1>1. /\ SoundRows(order[o].status, item[o], alloc[o], deliveries[o]) /\ deliveries[o] \in Seq(Deliveries)
      /\ alloc[o] \in [Products -> Allocations]
  BY RowsOf
<1>2. s \in DeliveryStatus
  OBVIOUS
<1>3. /\ Len(new) = Len(deliveries[o]) /\ DOMAIN new = DOMAIN deliveries[o]
      /\ \A k \in DOMAIN deliveries[o] : new[k].manifest = deliveries[o][k].manifest
      /\ new[i].status = s
      /\ \A k \in DOMAIN deliveries[o] \ {i} : new[k] = deliveries[o][k]
  BY <1>1, <1>2, MovedRow
<1>4. DOMAIN deliveries[o] = 1..Len(deliveries[o])
  BY <1>1
<1> HIDE DEF new
<1>5. Custody(alloc[o], new)
  BY <1>1, <1>3, <1>4 DEF SoundRows, Custody
<1>6. DbChecks => Picked(alloc[o], new)
  BY <1>1, <1>3 DEF SoundRows, Picked
<1>7. alloc' = [alloc EXCEPT ![o] = alloc[o]]
  BY DEF RowsTyped
<1> QED
  BY <1>1, <1>2, <1>5, <1>6, <1>7, DeliveryKeepsRows DEF new

LEMMA PickupKeepsRows ==
    ASSUME RowsTyped, RowsSound, Uninvolved, NEW o \in Orders, NEW i \in DOMAIN deliveries[o],
           ConfirmPickup(o, i)
    PROVE  RowsTyped' /\ RowsSound'
<1> DEFINE new == MovedTo(deliveries[o], i, "PICKED_UP")
           rows == [p \in Products |-> PickedUp(alloc[o][p])]
<1>1. /\ SoundRows(order[o].status, item[o], alloc[o], deliveries[o]) /\ deliveries[o] \in Seq(Deliveries)
      /\ alloc[o] \in [Products -> Allocations]
  BY RowsOf
<1>2. /\ Moved(o, i, "PICKED_UP") /\ "PICKED_UP" \in DeliveryStatus
      /\ alloc' = [alloc EXCEPT ![o] = rows]
  BY DEF ConfirmPickup, DeliveryStatus, RowsTyped
<1>3. /\ Len(new) = Len(deliveries[o]) /\ DOMAIN new = DOMAIN deliveries[o]
      /\ \A k \in DOMAIN deliveries[o] : new[k].manifest = deliveries[o][k].manifest
      /\ new[i].status = "PICKED_UP"
      /\ \A k \in DOMAIN deliveries[o] \ {i} : new[k] = deliveries[o][k]
  BY <1>1, <1>2, MovedRow
<1>4. DOMAIN deliveries[o] = 1..Len(deliveries[o])
  BY <1>1
<1>5. ASSUME NEW a \in Allocations
      PROVE  /\ PickedUp(a) \in Allocations
             /\ PickedUp(a).allocated = a.allocated /\ PickedUp(a).picked = a.picked
  <2> DEFINE y == [a EXCEPT !.dispatched = a.picked]
  <2>1. /\ y \in Allocations /\ y.allocated = a.allocated /\ y.picked = a.picked
    BY DEF Allocations
  <2>2. PickedUp(a) = IF a.picked > 0 THEN [y EXCEPT !.status = "DISPATCHED"] ELSE a
    BY DEF PickedUp
  <2> HIDE DEF y
  <2>3. "DISPATCHED" \in AllocationStatus
    BY DEF AllocationStatus
  <2> QED
    BY <2>1, <2>2, <2>3 DEF Allocations
<1>6. /\ rows \in [Products -> Allocations]
      /\ \A p \in Products : rows[p].allocated = alloc[o][p].allocated /\ rows[p].picked = alloc[o][p].picked
  BY <1>1, <1>5
<1> HIDE DEF new, rows
<1>7. Custody(rows, new)
  BY <1>3, <1>4 DEF Custody
<1>8. DbChecks => Picked(rows, new)
  BY <1>1, <1>3, <1>6 DEF SoundRows, Picked
<1> QED
  BY <1>2, <1>6, <1>7, <1>8, DeliveryKeepsRows DEF new

LEMMA ReturnKeepsRows ==
    ASSUME RowsTyped, RowsSound, Uninvolved, NEW o \in Orders, NEW i \in DOMAIN deliveries[o],
           ReturnToWarehouse(o, i)
    PROVE  RowsTyped' /\ RowsSound'
<1> DEFINE new == MovedTo(deliveries[o], i, "RETURNED_TO_WAREHOUSE")
           rows == [p \in Products |-> BackInWarehouse(alloc[o][p])]
<1>1. /\ SoundRows(order[o].status, item[o], alloc[o], deliveries[o]) /\ deliveries[o] \in Seq(Deliveries)
      /\ alloc[o] \in [Products -> Allocations]
  BY RowsOf
<1>2. /\ Moved(o, i, "RETURNED_TO_WAREHOUSE") /\ "RETURNED_TO_WAREHOUSE" \in DeliveryStatus
      /\ alloc' = [alloc EXCEPT ![o] = rows]
  BY DEF ReturnToWarehouse, DeliveryStatus, RowsTyped
<1>3. /\ Len(new) = Len(deliveries[o]) /\ DOMAIN new = DOMAIN deliveries[o]
      /\ \A k \in DOMAIN deliveries[o] : new[k].manifest = deliveries[o][k].manifest
      /\ new[i].status = "RETURNED_TO_WAREHOUSE"
      /\ \A k \in DOMAIN deliveries[o] \ {i} : new[k] = deliveries[o][k]
  BY <1>1, <1>2, MovedRow
<1>4. ASSUME NEW a \in Allocations
      PROVE  /\ BackInWarehouse(a) \in Allocations
             /\ BackInWarehouse(a).allocated = a.allocated /\ BackInWarehouse(a).picked = a.picked
             /\ BackInWarehouse(a).status # "DISPATCHED"
  <2> DEFINE y == [a EXCEPT !.dispatched = 0]
  <2>1. /\ y \in Allocations /\ y.allocated = a.allocated /\ y.picked = a.picked
    BY DEF Allocations
  <2>2. BackInWarehouse(a) = IF Present(a) THEN [y EXCEPT !.status = "ALLOCATED"] ELSE a
    BY DEF BackInWarehouse
  <2> HIDE DEF y
  <2>3. "ALLOCATED" \in AllocationStatus
    BY DEF AllocationStatus
  <2> QED
    BY <2>1, <2>2, <2>3 DEF Allocations, Present
<1>5. /\ rows \in [Products -> Allocations]
      /\ \A p \in Products : /\ rows[p].allocated = alloc[o][p].allocated /\ rows[p].picked = alloc[o][p].picked
                             /\ rows[p].status # "DISPATCHED"
  BY <1>1, <1>4
<1> HIDE DEF new, rows
<1>6. Custody(rows, new)
  BY <1>5 DEF Custody
<1>7. DbChecks => Picked(rows, new)
  BY <1>1, <1>3, <1>5 DEF SoundRows, Picked
<1> QED
  BY <1>2, <1>5, <1>6, <1>7, DeliveryKeepsRows DEF new

\* What a completion makes of a line's allocation when q units were delivered.
Completed(a, q) == IF q > 0 THEN [a EXCEPT !.delivered = q, !.status = "DELIVERED"] ELSE a

LEMMA CompletedRow ==
    ASSUME NEW a \in Allocations, NEW q \in Nat
    PROVE  /\ Completed(a, q) \in Allocations
           /\ Completed(a, q).allocated = a.allocated /\ Completed(a, q).picked = a.picked
           /\ q > 0 => Completed(a, q).status = "DELIVERED" /\ Completed(a, q).delivered = q
<1> DEFINE y == [a EXCEPT !.delivered = q]
<1>1. /\ y \in Allocations /\ y.allocated = a.allocated /\ y.picked = a.picked /\ y.delivered = q
  BY DEF Allocations
<1>2. Completed(a, q) = IF q > 0 THEN [y EXCEPT !.status = "DELIVERED"] ELSE a
  BY DEF Completed
<1> HIDE DEF y
<1>3. "DELIVERED" \in AllocationStatus
  BY DEF AllocationStatus
<1> QED
  BY <1>1, <1>2, <1>3 DEF Allocations

\* A completion marks what the manifest lists; under PostgreSQL it commits only
\* where as much was picked and dispatched.
LEMMA CompleteKeepsRows ==
    ASSUME RowsTyped, RowsSound, Uninvolved, NEW o \in Orders, NEW i \in DOMAIN deliveries[o],
           CompleteDelivery(o, i)
    PROVE  RowsTyped' /\ RowsSound'
<1> DEFINE new == MovedTo(deliveries[o], i, "DELIVERED")
           m == deliveries[o][i].manifest
           rows == [p \in Products |-> Completed(alloc[o][p], m[p])]
<1>1. /\ SoundRows(order[o].status, item[o], alloc[o], deliveries[o]) /\ deliveries[o] \in Seq(Deliveries)
      /\ alloc[o] \in [Products -> Allocations]
  BY RowsOf
<1>2. /\ Moved(o, i, "DELIVERED") /\ "DELIVERED" \in DeliveryStatus
      /\ alloc' = [alloc EXCEPT ![o] = rows]
  <2>1. Moved(o, i, "DELIVERED") /\ alloc' = [alloc EXCEPT ![o] = rows]
    BY Zenon DEF CompleteDelivery, Completed
  <2>2. "DELIVERED" \in DeliveryStatus
    BY DEF DeliveryStatus
  <2> QED
    BY <2>1, <2>2
<1>3. /\ Len(new) = Len(deliveries[o]) /\ DOMAIN new = DOMAIN deliveries[o]
      /\ \A k \in DOMAIN deliveries[o] : new[k].manifest = deliveries[o][k].manifest
      /\ new[i].status = "DELIVERED"
      /\ \A k \in DOMAIN deliveries[o] \ {i} : new[k] = deliveries[o][k]
  BY <1>1, <1>2, MovedRow
<1>4. DOMAIN deliveries[o] = 1..Len(deliveries[o])
  BY <1>1
<1>5. deliveries[o][i] \in Deliveries
  BY <1>1
<1>6. m \in [Products -> Nat]
  BY <1>5 DEF Deliveries
<1>7. /\ rows \in [Products -> Allocations]
      /\ \A p \in Products : /\ rows[p].allocated = alloc[o][p].allocated /\ rows[p].picked = alloc[o][p].picked
                             /\ m[p] > 0 => rows[p].status = "DELIVERED" /\ rows[p].delivered = m[p]
  <2>1. \A p \in Products : alloc[o][p] \in Allocations /\ m[p] \in Nat
    BY <1>1, <1>6
  <2> HIDE DEF m
  <2> QED
    BY <2>1, CompletedRow
<1> HIDE DEF new, rows, m
<1>8. Custody(rows, new)
  BY <1>3, <1>4, <1>7 DEF Custody, m
<1>9. ASSUME DbChecks, NEW p \in Products PROVE m[p] <= rows[p].picked
  <2>1. LegalAllocation(alloc'[o][p]) /\ alloc'[o][p] = rows[p]
    BY <1>2, <1>9 DEF CompleteDelivery, Committed, RowsTyped
  <2>2. rows[p] \in Allocations /\ m[p] \in Nat
    BY <1>6, <1>7
  <2>3. /\ rows[p].picked \in Nat /\ rows[p].dispatched \in Nat /\ rows[p].delivered \in Nat
    BY <2>2 DEF Allocations
  <2> QED
    BY <1>7, <2>1, <2>2, <2>3 DEF LegalAllocation
<1>10. DbChecks => Picked(rows, new)
  BY <1>1, <1>3, <1>7, <1>9 DEF SoundRows, Picked, m
<1> QED
  BY <1>2, <1>7, <1>8, <1>10, DeliveryKeepsRows DEF new

\* A dispatcher takes over a delivery that waits, or creates one that lists what is
\* allocated and not shipped.
LEMMA AssignKeepsRows ==
    ASSUME RowsTyped, RowsSound, NEW o \in Orders, AssignOrder(o)
    PROVE  RowsTyped' /\ RowsSound'
<1>1. Uninvolved /\ alloc' = alloc
  BY AssignIsUninvolved DEF RowsTyped, AssignOrder
<1>2. /\ SoundRows(order[o].status, item[o], alloc[o], deliveries[o]) /\ deliveries[o] \in Seq(Deliveries)
      /\ alloc[o] \in [Products -> Allocations]
  BY RowsOf
<1>3. CASE \E i \in DOMAIN deliveries[o] : deliveries' = [deliveries EXCEPT ![o][i].status = "ASSIGNED"]
  BY <1>1, <1>3, RoadKeepsRows DEF Moved, DeliveryStatus
<1>4. CASE deliveries' = [deliveries EXCEPT ![o] = Append(@, [status |-> "ASSIGNED", manifest |-> Manifest(o)])]
  <2> DEFINE d == [status |-> "ASSIGNED", manifest |-> Manifest(o)]
             ds == deliveries[o]
             new == Append(ds, d)
  <2>1. \A p \in Products : alloc[o][p].allocated \in Nat
    BY <1>2 DEF Allocations
  <2>2. Manifest(o) \in [Products -> Nat]
    BY <2>1 DEF Manifest
  <2>3. d \in Deliveries /\ d.status = "ASSIGNED" /\ d.manifest = Manifest(o)
    BY <2>2 DEF Deliveries, DeliveryStatus
  <2>4. deliveries' = [deliveries EXCEPT ![o] = new]
    BY <1>4 DEF RowsTyped
  <2> HIDE DEF d
  <2>5. /\ new \in Seq(Deliveries) /\ Len(new) = Len(ds) + 1 /\ Len(ds) \in Nat
        /\ DOMAIN ds = 1..Len(ds) /\ DOMAIN new = 1..(Len(ds) + 1)
        /\ \A k \in DOMAIN ds : new[k] = ds[k]
        /\ new[Len(ds) + 1] = d
    BY <1>2, <2>3
  <2> HIDE DEF new
  <2>6. \A k \in DOMAIN new : (k \in DOMAIN ds /\ new[k] = ds[k]) \/ new[k] = d
    BY <2>5
  <2>7. Custody(alloc[o], new)
    BY <2>3, <2>5 DEF Custody
  <2>8. DbChecks => Picked(alloc[o], new)
    BY <1>2, <2>3, <2>6 DEF SoundRows, Picked
  <2>9. order[o].status \notin {"SUBMITTED", "REJECTED"}
    BY <1>2 DEF AssignOrder, Assignable, SoundRows, Unshipped, Present
  <2>10. \A p \in Products : Manifest(o)[p] <= item[o][p].ordered
    <3>1. \A p \in Products : item[o][p].ordered \in Nat /\ alloc[o][p].allocated <= item[o][p].ordered
      BY <1>2 DEF SoundRows, RowsTyped, OrdersTyped, Items
    <3> QED
      BY <3>1 DEF Manifest
  <2>11. SoundRows(order[o].status, item[o], alloc[o], new)
    BY <1>2, <2>3, <2>6, <2>7, <2>8, <2>9, <2>10 DEF SoundRows
  <2>12. /\ order' \in [Orders -> OrderRows] /\ item' = item /\ item' \in [Orders -> [Products -> Items]]
         /\ \A x \in Orders : order'[x].status = order[x].status
         /\ alloc' = [alloc EXCEPT ![o] = alloc[o]]
    BY <1>1 DEF Uninvolved, RowsTyped, OrdersTyped
  <2>13. /\ \A x \in Orders \ {o} : order'[x].status = order[x].status /\ item'[x] = item[x]
         /\ SoundRows(order'[o].status, item'[o], alloc[o], new)
    BY <2>11, <2>12
  <2> QED
    BY <1>2, <2>4, <2>5, <2>12, <2>13, OneOrder
<1> QED
  BY <1>3, <1>4, Zenon DEF AssignOrder

LEMMA DriverKeepsRows ==
    ASSUME RowsTyped, RowsSound, DriverNext
    PROVE  RowsTyped' /\ RowsSound'
<1>1. Uninvolved
  BY DriverIsUninvolved DEF RowsTyped
<1>2. PICK o \in Orders : \E i \in DOMAIN deliveries[o] :
         \/ ConfirmPickup(o, i) \/ StartRoute(o, i) \/ CompleteDelivery(o, i)
         \/ RecordFailure(o, i) \/ Reschedule(o, i) \/ ReturnToWarehouse(o, i)
  BY DEF DriverNext
<1>3. PICK i \in DOMAIN deliveries[o] :
         \/ ConfirmPickup(o, i) \/ StartRoute(o, i) \/ CompleteDelivery(o, i)
         \/ RecordFailure(o, i) \/ Reschedule(o, i) \/ ReturnToWarehouse(o, i)
  BY <1>2
<1>4. CASE StartRoute(o, i) \/ RecordFailure(o, i) \/ Reschedule(o, i)
  <2>1. \E s \in DeliveryStatus \ {"DELIVERED", "RETURNED_TO_WAREHOUSE"} : Moved(o, i, s)
    BY <1>4 DEF StartRoute, RecordFailure, Reschedule, DeliveryStatus
  <2>2. alloc' = alloc
    BY <1>4 DEF StartRoute, RecordFailure, Reschedule
  <2> QED
    BY <1>1, <2>1, <2>2, RoadKeepsRows
<1> QED
  BY <1>1, <1>3, <1>4, PickupKeepsRows, CompleteKeepsRows, ReturnKeepsRows

LEMMA StepKeepsRows ==
    ASSUME RowsTyped, RowsSound, OnlyApprovedClaims, [Next]_vars
    PROVE  RowsTyped' /\ RowsSound'
<1>1. ClaimInv
  BY DEF ClaimInv, RowsTyped
<1>2. ASSUME UNCHANGED orderVars PROVE RowsTyped' /\ RowsSound'
  BY <1>2 DEF orderVars, RowsTyped, OrdersTyped, RowsSound
<1>3. CASE OrderNext
  <2>1. CASE \E o \in Orders : ApproveOrder(o)
    BY <1>1, <2>1, ApproveKeepsRows
  <2>2. CASE \E o \in Orders : RejectOrder(o)
    BY <1>1, <2>2, RejectKeepsRows
  <2>3. CASE \E o \in Orders : CancelOrder(o)
    BY <1>1, <2>3, CancelKeepsRows
  <2>4. CASE \E o \in Orders : AssignOrder(o)
    BY <2>4, AssignKeepsRows
  <2>5. CASE \E o \in Orders, p \in Products : \E n \in 1..alloc[o][p].allocated : Pick(o, p, n)
    BY <2>5, PickKeepsRows
  <2> QED
    BY <1>3, <2>1, <2>2, <2>3, <2>4, <2>5 DEF OrderNext
<1>4. CASE DriverNext
  BY <1>4, DriverKeepsRows
<1> QED
  BY <1>2, <1>3, <1>4 DEF Next, vars

LEMMA InitRows == FulfilmentInit => RowsTyped /\ RowsSound
<1> SUFFICES ASSUME FulfilmentInit PROVE RowsTyped /\ RowsSound
  OBVIOUS
<1>1. OrdersTyped
  BY InitClaims DEF ClaimInv
<1>2. alloc = [o \in Orders |-> [p \in Products |-> NoAllocation]] /\ deliveries = [o \in Orders |-> <<>>]
  BY DEF FulfilmentInit
<1>3. NoAllocation \in Allocations /\ ~Present(NoAllocation) /\ NoAllocation.allocated = 0
  BY DEF NoAllocation, Allocations, AllocationStatus, Present
<1>4. RowsTyped
  BY <1>1, <1>2, <1>3 DEF RowsTyped
<1>5. ASSUME NEW o \in Orders
      PROVE  SoundRows(order[o].status, item[o], alloc[o], deliveries[o])
  <2>1. order[o].status = "SUBMITTED"
    BY DEF FulfilmentInit
  <2>2. \A p \in Products : item[o][p].ordered \in Nat
    BY <1>1 DEF OrdersTyped, Items
  <2>3. deliveries[o] = <<>> /\ \A p \in Products : alloc[o][p] = NoAllocation
    BY <1>2
  <2> QED
    BY <1>3, <2>1, <2>2, <2>3 DEF SoundRows, Custody, Picked
<1> QED
  BY <1>4, <1>5 DEF RowsSound

--------------------------------------------------------------------------------
\* What completed deliveries took

UnitsOf(ds, p) == SumOver([i \in DOMAIN ds |-> TakenBy(ds[i], p)], DOMAIN ds)

LEMMA TakenType ==
    ASSUME NEW ds \in Seq(Deliveries), NEW p \in Products
    PROVE  /\ \A i \in DOMAIN ds : TakenBy(ds[i], p) \in Nat
           /\ IsFiniteSet(DOMAIN ds)
           /\ UnitsOf(ds, p) \in Nat
<1>1. ASSUME NEW i \in DOMAIN ds PROVE TakenBy(ds[i], p) \in Nat
  <2>1. ds[i] \in Deliveries
    OBVIOUS
  <2> QED
    BY <2>1 DEF Deliveries, TakenBy
<1> DEFINE f == [i \in DOMAIN ds |-> TakenBy(ds[i], p)]
<1>2. \A i \in DOMAIN ds : f[i] \in Nat
  BY <1>1
<1>3. DOMAIN ds = 1..Len(ds) /\ Len(ds) \in Nat
  OBVIOUS
<1>4. IsFiniteSet(DOMAIN ds)
  BY <1>3, ListIsFinite
<1> HIDE DEF f
<1>5. SumOver(f, DOMAIN ds) \in Nat
  BY <1>2, <1>4, SumIsNatural
<1> QED
  BY <1>1, <1>4, <1>5 DEF UnitsOf, f

\* A delivery that was still open takes its manifest when it arrives, and nothing else does.
LEMMA UnitsMoved ==
    ASSUME NEW ds \in Seq(Deliveries), NEW i \in DOMAIN ds, NEW s \in DeliveryStatus,
           ds[i].status # "DELIVERED", NEW p \in Products
    PROVE  UnitsOf(MovedTo(ds, i, s), p) =
              UnitsOf(ds, p) + IF s = "DELIVERED" THEN ds[i].manifest[p] ELSE 0
<1> DEFINE new == MovedTo(ds, i, s)
           f == [k \in DOMAIN ds |-> TakenBy(ds[k], p)]
           g == [k \in DOMAIN new |-> TakenBy(new[k], p)]
<1>1. /\ new \in Seq(Deliveries) /\ DOMAIN new = DOMAIN ds
      /\ \A k \in DOMAIN ds : new[k].manifest = ds[k].manifest
      /\ new[i].status = s
      /\ \A k \in DOMAIN ds \ {i} : new[k] = ds[k]
  BY MovedRow
<1> HIDE DEF new
<1>2. /\ \A k \in DOMAIN ds : f[k] \in Int /\ g[k] \in Int
      /\ \A k \in DOMAIN ds \ {i} : g[k] = f[k]
      /\ IsFiniteSet(DOMAIN ds)
  BY <1>1, TakenType
<1>3. f[i] = 0 /\ g[i] = IF s = "DELIVERED" THEN ds[i].manifest[p] ELSE 0
  BY <1>1 DEF TakenBy
<1>4. UnitsOf(ds, p) = SumOver(f, DOMAIN ds) /\ UnitsOf(new, p) = SumOver(g, DOMAIN ds)
  BY <1>1 DEF UnitsOf
<1> HIDE DEF f, g
<1>5. SumOver(g, DOMAIN ds) = SumOver(f, DOMAIN ds) + g[i] - f[i]
  BY <1>2, SumChange
<1>6. SumOver(f, DOMAIN ds) \in Int /\ g[i] \in Int
  BY <1>2, SumType
<1> QED
  BY <1>3, <1>4, <1>5, <1>6 DEF new

LEMMA UnitsAppended ==
    ASSUME NEW ds \in Seq(Deliveries), NEW d \in Deliveries, d.status # "DELIVERED", NEW p \in Products
    PROVE  UnitsOf(Append(ds, d), p) = UnitsOf(ds, p)
<1> DEFINE new == Append(ds, d)
           n == Len(ds)
           f == [k \in DOMAIN ds |-> TakenBy(ds[k], p)]
           g == [k \in DOMAIN new |-> TakenBy(new[k], p)]
<1>1. /\ n \in Nat /\ DOMAIN ds = 1..n /\ DOMAIN new = 1..(n + 1)
      /\ \A k \in 1..n : new[k] = ds[k]
      /\ new[n + 1] = d
  OBVIOUS
<1> HIDE DEF new, n
<1>2. \A k \in 1..n : f[k] \in Int /\ g[k] = f[k]
  BY <1>1, TakenType
<1>3. g[n + 1] = 0 /\ g[n + 1] \in Int
  BY <1>1 DEF TakenBy
<1>4. UnitsOf(ds, p) = SumOver(f, 1..n) /\ UnitsOf(new, p) = SumOver(g, 1..(n + 1))
  BY <1>1 DEF UnitsOf
<1> HIDE DEF f, g
<1>5. SumOver(g, 1..(n + 1)) = SumOver(f, 1..n) + g[n + 1]
  BY <1>1, <1>2, <1>3, SumAppend
<1>6. SumOver(f, 1..n) \in Int
  BY <1>1, <1>2, ListIsFinite, SumType
<1> QED
  BY <1>3, <1>4, <1>5, <1>6 DEF new

--------------------------------------------------------------------------------
\* The kinds of step

SameUnits == \A x \in Orders, p \in Products : DeliveredUnits(x, p)' = DeliveredUnits(x, p)

\* Neither stock, claims nor delivered units change.
Quiet == UNCHANGED <<invVars, item>> /\ SameUnits

LEMMA MovedCounts ==
    ASSUME RowsTyped, NEW o \in Orders, NEW i \in DOMAIN deliveries[o], NEW s \in DeliveryStatus,
           deliveries[o][i].status # "DELIVERED", Moved(o, i, s)
    PROVE  \A x \in Orders, p \in Products :
              DeliveredUnits(x, p)' = DeliveredUnits(x, p)
                                      + IF x = o /\ s = "DELIVERED" THEN deliveries[o][i].manifest[p] ELSE 0
<1> SUFFICES ASSUME NEW x \in Orders, NEW p \in Products
             PROVE  DeliveredUnits(x, p)' = DeliveredUnits(x, p)
                       + IF x = o /\ s = "DELIVERED" THEN deliveries[o][i].manifest[p] ELSE 0
  OBVIOUS
<1>1. deliveries' = [deliveries EXCEPT ![o] = MovedTo(deliveries[o], i, s)]
  BY MovedDeliveries
<1>2. \A y \in Orders : deliveries[y] \in Seq(Deliveries)
  BY DEF RowsTyped
<1>3. DeliveredUnits(x, p) = UnitsOf(deliveries[x], p) /\ DeliveredUnits(x, p)' = UnitsOf(deliveries'[x], p)
  BY DEF DeliveredUnits, UnitsOf
<1>4. CASE x = o
  <2>1. deliveries'[x] = MovedTo(deliveries[o], i, s)
    BY <1>1, <1>4 DEF RowsTyped
  <2>2. UnitsOf(MovedTo(deliveries[o], i, s), p) = UnitsOf(deliveries[o], p)
           + IF s = "DELIVERED" THEN deliveries[o][i].manifest[p] ELSE 0
    BY <1>2, UnitsMoved
  <2> QED
    BY <1>3, <1>4, <2>1, <2>2
<1>5. CASE x # o
  <2>1. deliveries'[x] = deliveries[x]
    BY <1>1, <1>5 DEF RowsTyped
  <2>2. UnitsOf(deliveries[x], p) \in Nat
    BY <1>2, TakenType
  <2> QED
    BY <1>3, <1>5, <2>1, <2>2
<1> QED
  BY <1>4, <1>5

LEMMA UnitsType ==
    ASSUME RowsTyped, NEW o \in Orders, NEW p \in Products
    PROVE  DeliveredUnits(o, p) \in Nat
<1>1. deliveries[o] \in Seq(Deliveries)
  BY DEF RowsTyped
<1>2. DeliveredUnits(o, p) = UnitsOf(deliveries[o], p)
  BY DEF DeliveredUnits, UnitsOf
<1> QED
  BY <1>1, <1>2, TakenType

LEMMA MovedIsQuiet ==
    ASSUME RowsTyped, UNCHANGED <<invVars, item>>, NEW o \in Orders, NEW i \in DOMAIN deliveries[o],
           NEW s \in DeliveryStatus \ {"DELIVERED"}, deliveries[o][i].status # "DELIVERED", Moved(o, i, s)
    PROVE  Quiet
<1>1. s \in DeliveryStatus /\ s # "DELIVERED"
  OBVIOUS
<1>2. \A x \in Orders, p \in Products : DeliveredUnits(x, p)' = DeliveredUnits(x, p)
                 + IF x = o /\ s = "DELIVERED" THEN deliveries[o][i].manifest[p] ELSE 0
  BY <1>1, MovedCounts
<1>3. \A x \in Orders, p \in Products : DeliveredUnits(x, p) \in Nat
  BY UnitsType
<1> QED
  BY <1>1, <1>2, <1>3 DEF Quiet, SameUnits

LEMMA SameDeliveries == ASSUME deliveries' = deliveries PROVE SameUnits
BY DEF SameUnits, DeliveredUnits

LEMMA AssignIsQuiet ==
    ASSUME RowsTyped, NEW o \in Orders, AssignOrder(o)
    PROVE  Quiet
<1>1. UNCHANGED <<invVars, item>>
  BY DEF AssignOrder
<1>2. \A x \in Orders : deliveries[x] \in Seq(Deliveries)
  BY DEF RowsTyped
<1>3. CASE \E i \in DOMAIN deliveries[o] : Reusable(deliveries[o][i]) /\ Moved(o, i, "ASSIGNED")
  <2>1. PICK i \in DOMAIN deliveries[o] : Reusable(deliveries[o][i]) /\ Moved(o, i, "ASSIGNED")
    BY <1>3
  <2>2. deliveries[o][i].status # "DELIVERED" /\ "ASSIGNED" \in DeliveryStatus \ {"DELIVERED"}
    BY <2>1 DEF Reusable, DeliveryStatus
  <2> QED
    BY <1>1, <2>1, <2>2, MovedIsQuiet
<1>4. CASE deliveries' = [deliveries EXCEPT ![o] = Append(@, [status |-> "ASSIGNED", manifest |-> Manifest(o)])]
  <2> DEFINE d == [status |-> "ASSIGNED", manifest |-> Manifest(o)]
  <2>1. \A p \in Products : alloc[o][p].allocated \in Nat
    BY DEF RowsTyped, Allocations
  <2>2. Manifest(o) \in [Products -> Nat]
    BY <2>1 DEF Manifest
  <2>3. d \in Deliveries /\ d.status # "DELIVERED"
    BY <2>2 DEF Deliveries, DeliveryStatus
  <2>4. /\ deliveries'[o] = Append(deliveries[o], d)
        /\ \A x \in Orders \ {o} : deliveries'[x] = deliveries[x]
    BY <1>4 DEF RowsTyped
  <2> HIDE DEF d
  <2>5. ASSUME NEW x \in Orders, NEW p \in Products
        PROVE  UnitsOf(deliveries'[x], p) = UnitsOf(deliveries[x], p)
    <3>1. deliveries[x] \in Seq(Deliveries)
      BY <1>2
    <3>2. UnitsOf(Append(deliveries[x], d), p) = UnitsOf(deliveries[x], p)
      BY <2>3, <3>1, UnitsAppended
    <3> QED
      BY <2>4, <3>2
  <2>6. \A x \in Orders, p \in Products : /\ DeliveredUnits(x, p) = UnitsOf(deliveries[x], p)
                                          /\ DeliveredUnits(x, p)' = UnitsOf(deliveries'[x], p)
    BY DEF DeliveredUnits, UnitsOf
  <2> QED
    BY <1>1, <2>5, <2>6 DEF Quiet, SameUnits
<1> QED
  BY <1>3, <1>4, Zenon DEF AssignOrder, Moved

LEMMA StepKinds ==
    ASSUME RowsTyped, [Next]_vars
    PROVE  \/ Quiet
           \/ \E o \in Orders : ApproveOrder(o)
           \/ \E o \in Orders : CancelOrder(o)
           \/ \E o \in Orders : \E i \in DOMAIN deliveries[o] : CompleteDelivery(o, i)
           \/ StaffNext /\ UNCHANGED orderVars
<1>1. CASE UNCHANGED vars
  BY <1>1, SameDeliveries DEF vars, orderVars, invVars, Quiet
<1>2. CASE OrderNext
  <2>1. CASE \E o \in Orders : RejectOrder(o)
    BY <2>1, SameDeliveries DEF RejectOrder, Quiet
  <2>2. CASE \E o \in Orders : AssignOrder(o)
    BY <2>2, AssignIsQuiet
  <2>3. CASE \E o \in Orders, p \in Products : \E n \in 1..alloc[o][p].allocated : Pick(o, p, n)
    BY <2>3, SameDeliveries DEF Pick, Quiet
  <2> QED
    BY <1>2, <2>1, <2>2, <2>3 DEF OrderNext
<1>3. CASE DriverNext
  <2>1. PICK o \in Orders : \E i \in DOMAIN deliveries[o] :
           \/ ConfirmPickup(o, i) \/ StartRoute(o, i) \/ CompleteDelivery(o, i)
           \/ RecordFailure(o, i) \/ Reschedule(o, i) \/ ReturnToWarehouse(o, i)
    BY <1>3 DEF DriverNext
  <2>2. PICK i \in DOMAIN deliveries[o] :
           \/ ConfirmPickup(o, i) \/ StartRoute(o, i) \/ CompleteDelivery(o, i)
           \/ RecordFailure(o, i) \/ Reschedule(o, i) \/ ReturnToWarehouse(o, i)
    BY <2>1
  <2>3. CASE CompleteDelivery(o, i)
    BY <2>3
  <2>4. CASE ~CompleteDelivery(o, i)
    <3>1. /\ UNCHANGED <<invVars, item>>
          /\ deliveries[o][i].status # "DELIVERED"
          /\ \E s \in DeliveryStatus \ {"DELIVERED"} : Moved(o, i, s)
      BY <2>2, <2>4
         DEF ConfirmPickup, StartRoute, RecordFailure, Reschedule, ReturnToWarehouse, DeliveryStatus
    <3> QED
      BY <3>1, MovedIsQuiet
  <2> QED
    BY <2>3, <2>4
<1> QED
  BY <1>1, <1>2, <1>3 DEF Next

--------------------------------------------------------------------------------
\* What a completion does to the stock

LEMMA RelievedColumns ==
    ASSUME NEW b \in Balances, NEW q \in Nat
    PROVE  /\ Relieved(b, q) \in Balances
           /\ Relieved(b, q).onHand = AtLeastZero(b.onHand - q)
           /\ Relieved(b, q).reserved = AtLeastZero(b.reserved - q)
           /\ Relieved(b, q).available =
                 AtLeastZero(AtLeastZero(b.onHand - q) - AtLeastZero(b.reserved - q))
           /\ Relieved(b, q).damaged = b.damaged
<1> DEFINE h == AtLeastZero(b.onHand - q)
           r == AtLeastZero(b.reserved - q)
           a == AtLeastZero(h - r)
           u == [b EXCEPT !.onHand = h]
           v == [u EXCEPT !.reserved = r]
           w == [v EXCEPT !.available = a]
<1>1. b.onHand - q \in Int /\ b.reserved - q \in Int /\ b.version \in Nat
  BY DEF Balances
<1>2. h \in Int /\ r \in Int
  BY <1>1 DEF AtLeastZero
<1>3. Relieved(b, q) = [w EXCEPT !.version = b.version + 1]
  BY DEF Relieved
<1> HIDE DEF h, r
<1>4. a \in Int
  BY <1>2 DEF AtLeastZero
<1> HIDE DEF a
<1>5. /\ u \in Balances /\ u.onHand = h /\ u.damaged = b.damaged
  BY <1>2 DEF Balances
<1> HIDE DEF u
<1>6. /\ v \in Balances /\ v.onHand = h /\ v.reserved = r /\ v.damaged = b.damaged
  BY <1>2, <1>5 DEF Balances
<1> HIDE DEF v
<1>7. /\ w \in Balances /\ w.onHand = h /\ w.reserved = r /\ w.available = a /\ w.damaged = b.damaged
  BY <1>4, <1>6 DEF Balances
<1> HIDE DEF w
<1>8. /\ Relieved(b, q) \in Balances /\ Relieved(b, q).onHand = h /\ Relieved(b, q).reserved = r
      /\ Relieved(b, q).available = a /\ Relieved(b, q).damaged = b.damaged
  BY <1>1, <1>3, <1>7 DEF Balances
<1> QED
  BY <1>8 DEF h, r, a

\* The balance and the ledger row of one product.
LEMMA CompletedStock ==
    ASSUME RowsTyped, StockTyped, NEW o \in Orders, NEW i \in DOMAIN deliveries[o], CompleteDelivery(o, i)
    PROVE  /\ StockTyped'
           /\ deliveries[o][i].manifest \in [Products -> Nat]
           /\ \A p \in Products :
                LET m == deliveries[o][i].manifest[p]
                IN  /\ balance'[p] = IF m > 0 THEN Relieved(balance[p], m) ELSE balance[p]
                    /\ ledger'[p] = IF m > 0 THEN Recorded(ledger[p], "RESERVED", "DISPATCHED", m, balance'[p])
                                    ELSE ledger[p]
<1> DEFINE m == deliveries[o][i].manifest
<1>1. m \in [Products -> Nat]
  <2>1. deliveries[o] \in Seq(Deliveries)
    BY DEF RowsTyped
  <2>2. deliveries[o][i] \in Deliveries
    BY <2>1
  <2> QED
    BY <2>2 DEF Deliveries
<1>2. balance' = [p \in Products |-> IF m[p] > 0 THEN Relieved(balance[p], m[p]) ELSE balance[p]]
  BY Zenon DEF CompleteDelivery
<1>3. ledger' = [p \in Products |->
               IF m[p] > 0 THEN Recorded(ledger[p], "RESERVED", "DISPATCHED", m[p], balance'[p])
                           ELSE ledger[p]]
  BY Zenon DEF CompleteDelivery
<1> HIDE DEF m
<1>4. ASSUME NEW p \in Products
      PROVE  balance'[p] \in Balances /\ ledger'[p] \in Ledgers
  <2>1. balance[p] \in Balances /\ ledger[p] \in Ledgers /\ m[p] \in Nat
    BY <1>1 DEF StockTyped
  <2>2. "RESERVED" \in StockStates /\ "DISPATCHED" \in StockStates
    BY DEF StockStates
  <2>3. balance'[p] \in Balances
    BY <1>2, <2>1, RelievedColumns
  <2>4. Recorded(ledger[p], "RESERVED", "DISPATCHED", m[p], balance'[p]) \in Ledgers
    BY <2>1, <2>2, <2>3, RecordedIsTyped
  <2> QED
    BY <1>3, <2>1, <2>3, <2>4
<1>5. StockTyped'
  BY <1>2, <1>3, <1>4 DEF StockTyped
<1>6. \A p \in Products :
         /\ balance'[p] = IF m[p] > 0 THEN Relieved(balance[p], m[p]) ELSE balance[p]
         /\ ledger'[p] = IF m[p] > 0 THEN Recorded(ledger[p], "RESERVED", "DISPATCHED", m[p], balance'[p])
                         ELSE ledger[p]
  BY <1>2, <1>3
<1> QED
  BY <1>1, <1>5, <1>6 DEF m

LEMMA CompletedColumns ==
    ASSUME RowsTyped, StockTyped, NEW o \in Orders, NEW i \in DOMAIN deliveries[o], CompleteDelivery(o, i),
           NEW p \in Products
    PROVE  LET m == deliveries[o][i].manifest[p]
           IN  /\ ledger'[p].net["DISPATCHED"] = ledger[p].net["DISPATCHED"] + m
               /\ balance'[p].reserved = IF m > 0 THEN AtLeastZero(balance[p].reserved - m)
                                         ELSE balance[p].reserved
<1> DEFINE m == deliveries[o][i].manifest[p]
<1>1. /\ m \in Nat /\ StockTyped'
      /\ balance'[p] = IF m > 0 THEN Relieved(balance[p], m) ELSE balance[p]
      /\ ledger'[p] = IF m > 0 THEN Recorded(ledger[p], "RESERVED", "DISPATCHED", m, balance'[p]) ELSE ledger[p]
  BY CompletedStock
<1> HIDE DEF m
<1>2. balance[p] \in Balances /\ ledger[p] \in Ledgers /\ balance'[p] \in Balances
  BY <1>1 DEF StockTyped
<1>3. "RESERVED" \in StockStates /\ "DISPATCHED" \in StockStates /\ Change("DISPATCHED", "RESERVED", "DISPATCHED", m) = m
  BY <1>1 DEF StockStates, Change
<1>4. Recorded(ledger[p], "RESERVED", "DISPATCHED", m, balance'[p]).net["DISPATCHED"] = ledger[p].net["DISPATCHED"] + m
  BY <1>1, <1>2, <1>3, RecordedIsTyped
<1>5. ledger[p].net["DISPATCHED"] \in Int
  BY <1>2 DEF Ledgers, StockStates
<1>6. ledger'[p].net["DISPATCHED"] = ledger[p].net["DISPATCHED"] + m
  <2>1. CASE m > 0
    BY <1>1, <1>4, <2>1
  <2>2. CASE ~(m > 0)
    BY <1>1, <1>5, <2>2
  <2> QED
    BY <2>1, <2>2
<1>7. balance'[p].reserved = IF m > 0 THEN AtLeastZero(balance[p].reserved - m) ELSE balance[p].reserved
  BY <1>1, <1>2, RelievedColumns
<1> QED
  BY <1>6, <1>7 DEF m

\* The delivered units of the order whose delivery arrived.
LEMMA CompletedUnits ==
    ASSUME RowsTyped, NEW o \in Orders, NEW i \in DOMAIN deliveries[o], CompleteDelivery(o, i)
    PROVE  \A x \in Orders, p \in Products :
              DeliveredUnits(x, p)' = DeliveredUnits(x, p) + IF x = o THEN deliveries[o][i].manifest[p] ELSE 0
<1>1. Moved(o, i, "DELIVERED") /\ deliveries[o][i].status # "DELIVERED"
  <2>1. Moved(o, i, "DELIVERED") /\ Completable(deliveries[o][i])
    BY Zenon DEF CompleteDelivery
  <2> QED
    BY <2>1 DEF Completable
<1>2. "DELIVERED" \in DeliveryStatus
  BY DEF DeliveryStatus
<1> QED
  BY <1>1, <1>2, MovedCounts

--------------------------------------------------------------------------------
\* Types of the stock

StockRows == StockTyped /\ exceptions \in Seq(Exceptions) /\ form \in Forms \cup {NoForm}

LEMMA DemandType ==
    ASSUME RowsTyped, NEW o \in Orders
    PROVE  /\ Demand(o) \in [Products -> Nat]
           /\ [p \in Products |-> item[o][p].reserved] \in [Products -> Nat]
<1>1. \A p \in Products : item[o][p].ordered \in Nat /\ item[o][p].reserved \in Nat
  BY DEF RowsTyped, OrdersTyped, Items
<1> QED
  BY <1>1 DEF Demand, Fulfillable

LEMMA CancelledStock ==
    ASSUME RowsTyped, StockTyped, NEW o \in Orders, CancelOrder(o)
    PROVE  /\ StockTyped' /\ exceptions' = exceptions /\ form' = form
           /\ \/ /\ ReleaseStock([p \in Products |-> item[o][p].reserved])
                 /\ \A p \in Products : Counts(p, 0 - Released(p, [r \in Products |-> item[o][r].reserved]), 0)
              \/ /\ ~HoldsStock(o) /\ UNCHANGED <<invVars, item>>
                 /\ \A p \in Products : Counts(p, 0, 0)
<1>1. CASE HoldsStock(o)
  <2>1. ReleaseStock([p \in Products |-> item[o][p].reserved])
    BY <1>1 DEF CancelOrder
  <2>2. exceptions' = exceptions /\ form' = form
    BY <2>1 DEF ReleaseStock
  <2> QED
    BY <2>1, <2>2, DemandType, ReleaseCounts
<1>2. CASE ~HoldsStock(o)
  <2>1. UNCHANGED <<invVars, item>>
    BY <1>2 DEF CancelOrder
  <2> QED
    BY <1>2, <2>1, UntouchedCounts DEF invVars
<1> QED
  BY <1>1, <1>2

LEMMA StepKeepsTypes ==
    ASSUME RowsTyped, StockRows, [Next]_vars
    PROVE  StockRows'
<1>1. CASE Quiet
  BY <1>1 DEF Quiet, invVars, StockRows, StockTyped
<1>2. CASE \E o \in Orders : ApproveOrder(o)
  <2>1. PICK o \in Orders : ReserveStock(Demand(o))
    BY <1>2 DEF ApproveOrder
  <2>2. StockTyped'
    BY <2>1, DemandType, ReserveCounts DEF StockRows
  <2> QED
    BY <2>1, <2>2 DEF ReserveStock, StockRows
<1>3. CASE \E o \in Orders : CancelOrder(o)
  BY <1>3, CancelledStock DEF StockRows
<1>4. CASE \E o \in Orders : \E i \in DOMAIN deliveries[o] : CompleteDelivery(o, i)
  <2>1. PICK o \in Orders : \E i \in DOMAIN deliveries[o] : CompleteDelivery(o, i)
    BY <1>4
  <2>2. PICK i \in DOMAIN deliveries[o] : CompleteDelivery(o, i)
    BY <2>1
  <2>3. StockTyped'
    BY <2>2, CompletedStock DEF StockRows
  <2>4. exceptions' = exceptions /\ form' = form
    BY <2>2, Zenon DEF CompleteDelivery
  <2> QED
    BY <2>3, <2>4 DEF StockRows
<1>5. CASE StaffNext
  <2>1. StockTyped'
    BY <1>5, StaffCounts DEF StockRows
  <2>2. InventoryNext
    BY <1>5 DEF InventoryNext
  <2>3. exceptions' \in Seq(Exceptions) /\ (form' = form \/ form' = NoForm
           \/ \E p \in FormProducts : form' = [product |-> p, seen |-> balance[p]])
    BY <2>2, StepIsTyped DEF StockRows
  <2>4. \A p \in FormProducts : p \in Products /\ balance[p] \in Balances
    BY InventoryAssumption DEF StockRows, StockTyped
  <2>5. form' \in Forms \cup {NoForm}
    BY <2>3, <2>4 DEF StockRows, Forms
  <2> QED
    BY <2>1, <2>3, <2>5 DEF StockRows
<1> QED
  BY <1>1, <1>2, <1>3, <1>4, <1>5, StepKinds

--------------------------------------------------------------------------------
\* Sums over the orders

Claims(p) == SumOver([o \in Orders |-> OpenClaim(o, p)], Orders)

Gone(p) == SumOver([o \in Orders |-> DeliveredUnits(o, p)], Orders)

LEMMA ClaimType ==
    ASSUME RowsTyped, NEW o \in Orders, NEW p \in Products
    PROVE  /\ OpenClaim(o, p) \in Int
           /\ OpenClaim(o, p) = item[o][p].reserved - DeliveredUnits(o, p)
           /\ item[o][p].reserved \in Nat /\ item[o][p].ordered \in Nat
           /\ DeliveredUnits(o, p) \in Nat
<1>1. item[o][p].reserved \in Nat /\ item[o][p].ordered \in Nat
  BY DEF RowsTyped, OrdersTyped, Items
<1>2. DeliveredUnits(o, p) \in Nat
  BY UnitsType
<1> QED
  BY <1>1, <1>2 DEF OpenClaim

LEMMA SumsType ==
    ASSUME RowsTyped, NEW p \in Products
    PROVE  Claims(p) \in Int /\ Gone(p) \in Int
<1> DEFINE f == [o \in Orders |-> OpenClaim(o, p)]
           g == [o \in Orders |-> DeliveredUnits(o, p)]
<1>1. \A o \in Orders : f[o] \in Int /\ g[o] \in Int
  BY ClaimType
<1>2. Claims(p) = SumOver(f, Orders) /\ Gone(p) = SumOver(g, Orders)
  BY DEF Claims, Gone
<1> HIDE DEF f, g
<1> QED
  BY <1>1, <1>2, FulfilmentAssumption, SumType

\* One order's claim and deliveries change.
LEMMA SumsChange ==
    ASSUME RowsTyped, RowsTyped', NEW o \in Orders, NEW p \in Products,
           NEW taken \in Int, NEW claimed \in Int,
           \A x \in Orders : DeliveredUnits(x, p)' = DeliveredUnits(x, p) + IF x = o THEN taken ELSE 0,
           \A x \in Orders : item'[x][p].reserved = item[x][p].reserved + IF x = o THEN claimed ELSE 0
    PROVE  /\ Gone(p)' = Gone(p) + taken
           /\ Claims(p)' = Claims(p) + claimed - taken
<1> DEFINE f == [x \in Orders |-> OpenClaim(x, p)]
           g == [x \in Orders |-> DeliveredUnits(x, p)]
           e == [x \in Orders |-> OpenClaim(x, p)']
           h == [x \in Orders |-> DeliveredUnits(x, p)']
<1>1. \A x \in Orders : /\ f[x] \in Int /\ g[x] \in Int
                        /\ f[x] = item[x][p].reserved - g[x]
                        /\ item[x][p].reserved \in Int
  BY ClaimType
<1>2. \A x \in Orders : e[x] = item'[x][p].reserved - h[x]
  BY DEF OpenClaim
<1>3. \A x \in Orders : /\ h[x] = g[x] + IF x = o THEN taken ELSE 0
                        /\ item'[x][p].reserved = item[x][p].reserved + IF x = o THEN claimed ELSE 0
  OBVIOUS
<1>4. /\ Claims(p) = SumOver(f, Orders) /\ Gone(p) = SumOver(g, Orders)
      /\ Claims(p)' = SumOver(e, Orders) /\ Gone(p)' = SumOver(h, Orders)
  BY DEF Claims, Gone
<1> HIDE DEF f, g, e, h
<1>5. /\ \A x \in Orders : e[x] \in Int /\ h[x] \in Int
      /\ h[o] = g[o] + taken /\ e[o] = f[o] + claimed - taken
      /\ \A x \in Orders \ {o} : e[x] = f[x] /\ h[x] = g[x]
  BY <1>1, <1>2, <1>3
<1>6. IsFiniteSet(Orders)
  BY FulfilmentAssumption
<1>7. SumOver(e, Orders) = SumOver(f, Orders) + e[o] - f[o]
  BY <1>1, <1>5, <1>6, SumChange
<1>8. SumOver(h, Orders) = SumOver(g, Orders) + h[o] - g[o]
  BY <1>1, <1>5, <1>6, SumChange
<1>9. SumOver(f, Orders) \in Int /\ SumOver(g, Orders) \in Int
  BY <1>1, <1>6, SumType
<1>10. f[o] \in Int /\ g[o] \in Int
  BY <1>1
<1> QED
  BY <1>4, <1>5, <1>7, <1>8, <1>9, <1>10

LEMMA SumsSame ==
    ASSUME SameUnits, item' = item, NEW p \in Products
    PROVE  Gone(p)' = Gone(p) /\ Claims(p)' = Claims(p)
<1> DEFINE f == [x \in Orders |-> OpenClaim(x, p)]
           g == [x \in Orders |-> DeliveredUnits(x, p)]
           e == [x \in Orders |-> OpenClaim(x, p)']
           h == [x \in Orders |-> DeliveredUnits(x, p)']
<1>1. \A x \in Orders : e[x] = f[x] /\ h[x] = g[x]
  BY DEF SameUnits, OpenClaim
<1>2. /\ Claims(p) = SumOver(f, Orders) /\ Gone(p) = SumOver(g, Orders)
      /\ Claims(p)' = SumOver(e, Orders) /\ Gone(p)' = SumOver(h, Orders)
  BY DEF Claims, Gone
<1> HIDE DEF f, g, e, h
<1> QED
  BY <1>1, <1>2, FulfilmentAssumption, SumSame

\* Every step, seen from one product: what becomes of the claims and of what is gone.
LEMMA ApprovedSums ==
    ASSUME RowsTyped, OnlyApprovedClaims, RowsSound, NEW o \in Orders, ApproveOrder(o), NEW p \in Products
    PROVE  Gone(p)' = Gone(p) /\ Claims(p)' = Claims(p) + item[o][p].ordered
<1>1. ClaimInv
  BY DEF ClaimInv, RowsTyped
<1>2. RowsTyped'
  BY <1>1, ApproveKeepsRows
<1>3. SameUnits
  BY SameDeliveries DEF ApproveOrder
<1>4. item[o][p].reserved = 0
  BY DEF ApproveOrder, Reviewable, OnlyApprovedClaims
<1>5. \A x \in Orders : /\ item[x][p].reserved \in Int /\ item[x][p].ordered \in Int
                        /\ DeliveredUnits(x, p) \in Int
  BY ClaimType
<1>6. \A x \in Orders : item'[x][p].reserved = item[x][p].reserved + IF x = o THEN item[o][p].ordered ELSE 0
  BY <1>1, <1>4, <1>5, ApprovedRows
<1>7. \A x \in Orders : DeliveredUnits(x, p)' = DeliveredUnits(x, p) + IF x = o THEN 0 ELSE 0
  BY <1>3, <1>5 DEF SameUnits
<1>8. PICK none \in Int : none = 0
  OBVIOUS
<1>9. Gone(p)' = Gone(p) + none /\ Claims(p)' = Claims(p) + item[o][p].ordered - none
  <2>1. \A x \in Orders : DeliveredUnits(x, p)' = DeliveredUnits(x, p) + IF x = o THEN none ELSE 0
    BY <1>7, <1>8
  <2> QED
    BY <1>2, <1>5, <1>6, <2>1, SumsChange
<1>10. Gone(p) \in Int /\ Claims(p) \in Int
  BY SumsType
<1> QED
  BY <1>5, <1>8, <1>9, <1>10

LEMMA CancelledSums ==
    ASSUME RowsTyped, OnlyApprovedClaims, RowsSound, NEW o \in Orders, CancelOrder(o), NEW p \in Products
    PROVE  Gone(p)' = Gone(p) /\ Claims(p)' = Claims(p) - item[o][p].reserved
<1>1. ClaimInv
  BY DEF ClaimInv, RowsTyped
<1>2. RowsTyped'
  BY <1>1, CancelKeepsRows
<1>3. SameUnits
  BY SameDeliveries DEF CancelOrder
<1>5. \A x \in Orders : item[x][p].reserved \in Int /\ DeliveredUnits(x, p) \in Int
  BY ClaimType
<1>6. \A x \in Orders : item'[x][p].reserved = item[x][p].reserved + IF x = o THEN 0 - item[o][p].reserved ELSE 0
  BY <1>1, <1>5, CancelledRows
<1>8. PICK none \in Int, less \in Int : none = 0 /\ less = 0 - item[o][p].reserved
  BY <1>5
<1>9. Gone(p)' = Gone(p) + none /\ Claims(p)' = Claims(p) + less - none
  <2>1. \A x \in Orders : /\ DeliveredUnits(x, p)' = DeliveredUnits(x, p) + IF x = o THEN none ELSE 0
                          /\ item'[x][p].reserved = item[x][p].reserved + IF x = o THEN less ELSE 0
    BY <1>3, <1>5, <1>6, <1>8 DEF SameUnits
  <2> QED
    BY <1>2, <2>1, SumsChange
<1>10. Gone(p) \in Int /\ Claims(p) \in Int
  BY SumsType
<1> QED
  BY <1>5, <1>8, <1>9, <1>10

LEMMA CompletedSums ==
    ASSUME RowsTyped, RowsTyped', NEW o \in Orders, NEW i \in DOMAIN deliveries[o], CompleteDelivery(o, i),
           NEW p \in Products, deliveries[o][i].manifest[p] \in Nat
    PROVE  /\ Gone(p)' = Gone(p) + deliveries[o][i].manifest[p]
           /\ Claims(p)' = Claims(p) - deliveries[o][i].manifest[p]
<1> DEFINE m == deliveries[o][i].manifest[p]
<1>1. \A x \in Orders : DeliveredUnits(x, p)' = DeliveredUnits(x, p) + IF x = o THEN m ELSE 0
  BY CompletedUnits
<1>2. item' = item
  BY Zenon DEF CompleteDelivery
<1>3. m \in Int
  OBVIOUS
<1> HIDE DEF m
<1>4. \A x \in Orders : item[x][p].reserved \in Int
  BY ClaimType
<1>5. PICK none \in Int : none = 0
  OBVIOUS
<1>6. \A x \in Orders : item'[x][p].reserved = item[x][p].reserved + IF x = o THEN none ELSE 0
  BY <1>2, <1>4, <1>5
<1>7. Gone(p)' = Gone(p) + m /\ Claims(p)' = Claims(p) + none - m
  BY <1>1, <1>3, <1>5, <1>6, SumsChange
<1>8. Claims(p) \in Int
  BY SumsType
<1> QED
  BY <1>3, <1>5, <1>7, <1>8 DEF m

--------------------------------------------------------------------------------
\* Stock leaves once per completed delivery

LEMMA StaffCountsDispatched ==
    ASSUME StockRows, StaffNext
    PROVE  \A p \in Products : ledger'[p].net["DISPATCHED"] = ledger[p].net["DISPATCHED"]
<1>1. NoTicket \/ TicketOpened \/ TicketClosed
  BY StaffCounts DEF StockRows
<1>2. CASE NoTicket
  BY <1>2 DEF NoTicket, Counts
<1>3. CASE TicketOpened
  BY <1>3 DEF TicketOpened, OnlyOf, Counts
<1>4. CASE TicketClosed
  <2>1. PICK r : \E c, u : Counts(r, c, u) /\ OnlyOf(r)
    BY <1>4 DEF TicketClosed
  <2> QED
    BY <2>1 DEF OnlyOf, Counts
<1> QED
  BY <1>1, <1>2, <1>3, <1>4

LEMMA StepRelieves ==
    ASSUME RowsTyped, RowsSound, OnlyApprovedClaims, StockRows, RelievedOncePerDelivery, [Next]_vars
    PROVE  RelievedOncePerDelivery'
<1>1. \A p \in Products : ledger[p].net["DISPATCHED"] = Gone(p) /\ Gone(p) \in Int
  BY SumsType DEF RelievedOncePerDelivery, Gone
<1>2. SUFFICES ASSUME NEW p \in Products PROVE ledger'[p].net["DISPATCHED"] = Gone(p)'
  BY DEF RelievedOncePerDelivery, Gone
<1>3. CASE Quiet
  BY <1>1, <1>3, SumsSame DEF Quiet, invVars
<1>4. CASE \E o \in Orders : ApproveOrder(o)
  <2>1. PICK o \in Orders : ApproveOrder(o)
    BY <1>4
  <2>2. ReserveStock(Demand(o))
    BY <2>1 DEF ApproveOrder
  <2>3. Counts(p, Demand(o)[p], 0)
    BY <2>2, DemandType, ReserveCounts DEF StockRows
  <2>4. Gone(p)' = Gone(p)
    BY <2>1, ApprovedSums
  <2> QED
    BY <1>1, <2>3, <2>4 DEF Counts
<1>5. CASE \E o \in Orders : CancelOrder(o)
  <2>1. PICK o \in Orders : CancelOrder(o)
    BY <1>5
  <2>2. ledger'[p].net["DISPATCHED"] = ledger[p].net["DISPATCHED"]
    BY <2>1, CancelledStock DEF StockRows, Counts
  <2>3. Gone(p)' = Gone(p)
    BY <2>1, CancelledSums
  <2> QED
    BY <1>1, <2>2, <2>3
<1>6. CASE \E o \in Orders : \E i \in DOMAIN deliveries[o] : CompleteDelivery(o, i)
  <2>1. PICK o \in Orders : \E i \in DOMAIN deliveries[o] : CompleteDelivery(o, i)
    BY <1>6
  <2>2. PICK i \in DOMAIN deliveries[o] : CompleteDelivery(o, i)
    BY <2>1
  <2>3. deliveries[o][i].manifest[p] \in Nat
    BY <2>2, CompletedStock DEF StockRows
  <2>4. ledger'[p].net["DISPATCHED"] = ledger[p].net["DISPATCHED"] + deliveries[o][i].manifest[p]
    BY <2>2, CompletedColumns DEF StockRows
  <2>5. RowsTyped'
    BY StepKeepsRows
  <2>6. Gone(p)' = Gone(p) + deliveries[o][i].manifest[p]
    BY <2>2, <2>3, <2>5, CompletedSums
  <2> QED
    BY <1>1, <2>4, <2>6
<1>7. CASE StaffNext /\ UNCHANGED orderVars
  <2>1. SameUnits /\ item' = item
    BY <1>7, SameDeliveries DEF orderVars
  <2> QED
    BY <1>1, <1>7, <2>1, SumsSame, StaffCountsDispatched
<1> QED
  BY <1>3, <1>4, <1>5, <1>6, <1>7, StepKinds

--------------------------------------------------------------------------------
\* What was undisturbed before

\* Deliveries and tickets are never taken away, and a cancelled order stays cancelled.
Onward ==
    /\ \A x \in Orders : /\ Len(deliveries[x]) <= Len(deliveries'[x])
                         /\ order[x].status = "CANCELLED" => order'[x].status = "CANCELLED"
    /\ DOMAIN exceptions \subseteq DOMAIN exceptions'
    /\ \A i \in DOMAIN exceptions : /\ exceptions'[i].product = exceptions[i].product
                                    /\ exceptions'[i].source = exceptions[i].source

LEMMA TicketsStay ==
    ASSUME StockRows, StaffNext
    PROVE  /\ DOMAIN exceptions \subseteq DOMAIN exceptions'
           /\ \A i \in DOMAIN exceptions : /\ exceptions'[i].product = exceptions[i].product
                                           /\ exceptions'[i].source = exceptions[i].source
<1>1. exceptions \in Seq(Exceptions) /\ (NoTicket \/ TicketOpened \/ TicketClosed)
  BY StaffCounts DEF StockRows
<1>2. CASE NoTicket
  BY <1>2 DEF NoTicket
<1>3. CASE TicketOpened
  <2>1. \E e : exceptions' = Append(exceptions, e)
    BY <1>3 DEF TicketOpened
  <2> QED
    BY <1>1, <2>1
<1>4. CASE TicketClosed
  <2>1. PICK k \in DOMAIN exceptions, s \in {"RESOLVED", "DISMISSED"} :
           exceptions' = [exceptions EXCEPT ![k].status = s]
    BY <1>4 DEF TicketClosed
  <2>2. exceptions[k] \in Exceptions
    BY <1>1
  <2>3. /\ [exceptions[k] EXCEPT !.status = s].product = exceptions[k].product
        /\ [exceptions[k] EXCEPT !.status = s].source = exceptions[k].source
    BY <2>2 DEF Exceptions
  <2>4. /\ DOMAIN exceptions' = DOMAIN exceptions
        /\ \A i \in DOMAIN exceptions \ {k} : exceptions'[i] = exceptions[i]
        /\ exceptions'[k] = [exceptions[k] EXCEPT !.status = s]
    BY <1>1, <2>1
  <2> QED
    BY <2>3, <2>4
<1> QED
  BY <1>1, <1>2, <1>3, <1>4

LEMMA DeliveriesStay ==
    ASSUME RowsTyped, [Next]_vars
    PROVE  \A x \in Orders : Len(deliveries[x]) <= Len(deliveries'[x])
<1>1. \A x \in Orders : deliveries[x] \in Seq(Deliveries) /\ Len(deliveries[x]) \in Nat
  BY DEF RowsTyped
<1>2. ASSUME deliveries' = deliveries PROVE \A x \in Orders : Len(deliveries[x]) <= Len(deliveries'[x])
  BY <1>1, <1>2
<1>3. ASSUME NEW o \in Orders, NEW i \in DOMAIN deliveries[o], NEW s \in DeliveryStatus, Moved(o, i, s)
      PROVE  \A x \in Orders : Len(deliveries[x]) <= Len(deliveries'[x])
  <2>1. /\ deliveries'[o] = MovedTo(deliveries[o], i, s)
        /\ \A x \in Orders \ {o} : deliveries'[x] = deliveries[x]
    BY <1>3, MovedDeliveries DEF RowsTyped
  <2>2. deliveries[o] \in Seq(Deliveries)
    BY <1>1
  <2>3. Len(MovedTo(deliveries[o], i, s)) = Len(deliveries[o])
    BY <2>2, MovedRow
  <2> QED
    BY <1>1, <2>1, <2>3
<1>4. CASE OrderNext
  <2>1. ASSUME NEW o \in Orders, AssignOrder(o)
        PROVE  \A x \in Orders : Len(deliveries[x]) <= Len(deliveries'[x])
    <3>1. CASE \E i \in DOMAIN deliveries[o] : Moved(o, i, "ASSIGNED")
      BY <1>3, <3>1 DEF DeliveryStatus
    <3>2. CASE \E d : deliveries' = [deliveries EXCEPT ![o] = Append(@, d)]
      BY <1>1, <3>2 DEF RowsTyped
    <3> QED
      BY <2>1, <3>1, <3>2, Zenon DEF AssignOrder, Moved
  <2> QED
    BY <1>2, <1>4, <2>1 DEF OrderNext, ApproveOrder, RejectOrder, CancelOrder, Pick
<1>5. CASE DriverNext
  <2>1. PICK o \in Orders : \E i \in DOMAIN deliveries[o] :
           \/ ConfirmPickup(o, i) \/ StartRoute(o, i) \/ CompleteDelivery(o, i)
           \/ RecordFailure(o, i) \/ Reschedule(o, i) \/ ReturnToWarehouse(o, i)
    BY <1>5 DEF DriverNext
  <2>2. PICK i \in DOMAIN deliveries[o] :
           \/ ConfirmPickup(o, i) \/ StartRoute(o, i) \/ CompleteDelivery(o, i)
           \/ RecordFailure(o, i) \/ Reschedule(o, i) \/ ReturnToWarehouse(o, i)
    BY <2>1
  <2>3. CASE CompleteDelivery(o, i)
    <3>1. Moved(o, i, "DELIVERED")
      BY <2>3, Zenon DEF CompleteDelivery
    <3> QED
      BY <1>3, <3>1 DEF DeliveryStatus
  <2>4. CASE ~CompleteDelivery(o, i)
    <3>1. \E s \in DeliveryStatus : Moved(o, i, s)
      BY <2>2, <2>4
         DEF ConfirmPickup, StartRoute, RecordFailure, Reschedule, ReturnToWarehouse, DeliveryStatus
    <3> QED
      BY <1>3, <3>1
  <2> QED
    BY <2>3, <2>4
<1> QED
  BY <1>2, <1>4, <1>5 DEF Next, vars, orderVars

LEMMA StepIsOnward ==
    ASSUME RowsTyped, OnlyApprovedClaims, StockRows, [Next]_vars
    PROVE  Onward
<1>1. ClaimInv
  BY DEF ClaimInv, RowsTyped
<1>2. ASSUME NEW x \in Orders, order[x].status = "CANCELLED" PROVE order'[x].status = "CANCELLED"
  <2>1. ASSUME NEW o \in Orders, ApproveOrder(o) PROVE order'[x].status = "CANCELLED"
    BY <1>1, <1>2, <2>1, ApprovedRows DEF ApproveOrder, Reviewable
  <2>2. ASSUME NEW o \in Orders, RejectOrder(o) PROVE order'[x].status = "CANCELLED"
    BY <1>2, <2>2 DEF RejectOrder, Reviewable, RowsTyped, OrdersTyped
  <2>3. ASSUME NEW o \in Orders, CancelOrder(o) PROVE order'[x].status = "CANCELLED"
    BY <1>1, <1>2, <2>3, CancelledRows DEF CancelOrder
  <2>4. ASSUME Uninvolved PROVE order'[x].status = "CANCELLED"
    BY <1>2, <2>4 DEF Uninvolved
  <2>5. CASE OrderNext
    BY <1>1, <2>1, <2>2, <2>3, <2>4, <2>5, AssignIsUninvolved, PickIsUninvolved DEF OrderNext, ClaimInv
  <2>6. CASE DriverNext
    BY <1>1, <2>4, <2>6, DriverIsUninvolved DEF ClaimInv
  <2>7. CASE UNCHANGED orderVars
    BY <1>2, <2>7 DEF orderVars
  <2> QED
    BY <2>5, <2>6, <2>7 DEF Next, vars
<1>3. /\ DOMAIN exceptions \subseteq DOMAIN exceptions'
      /\ \A i \in DOMAIN exceptions : /\ exceptions'[i].product = exceptions[i].product
                                      /\ exceptions'[i].source = exceptions[i].source
  <2>1. CASE exceptions' = exceptions
    BY <2>1
  <2>2. CASE StaffNext
    BY <2>2, TicketsStay
  <2>3. ASSUME NEW o \in Orders, ApproveOrder(o) \/ CancelOrder(o) PROVE exceptions' = exceptions
    BY <2>3 DEF ApproveOrder, CancelOrder, ReserveStock, ReleaseStock, invVars
  <2>4. ASSUME NEW o \in Orders, NEW i \in DOMAIN deliveries[o], CompleteDelivery(o, i)
        PROVE  exceptions' = exceptions
    BY <2>4, Zenon DEF CompleteDelivery
  <2> QED
    BY <2>1, <2>2, <2>3, <2>4, StepKinds DEF Quiet, invVars
<1> QED
  BY <1>2, <1>3, DeliveriesStay DEF Onward

LEMMA UndisturbedBefore ==
    ASSUME RowsTyped, RowsTyped', Onward, NEW p \in Products, Undisturbed(p)'
    PROVE  Undisturbed(p)
<1>1. \A x \in Orders : /\ Len(deliveries[x]) \in Nat /\ Len(deliveries'[x]) \in Nat
                        /\ Len(deliveries[x]) <= Len(deliveries'[x])
  BY DEF RowsTyped, Onward
<1>2. \A x \in Orders : /\ Len(deliveries'[x]) <= 1
                        /\ order'[x].status = "CANCELLED" => deliveries'[x] = <<>>
  BY DEF Undisturbed
<1>3. ASSUME NEW x \in Orders
      PROVE  Len(deliveries[x]) <= 1 /\ (order[x].status = "CANCELLED" => deliveries[x] = <<>>)
  <2>1. Len(deliveries[x]) <= 1
    BY <1>1, <1>2
  <2>2. ASSUME order[x].status = "CANCELLED" PROVE deliveries[x] = <<>>
    <3>1. deliveries'[x] = <<>>
      BY <1>2, <2>2 DEF Onward
    <3>2. deliveries[x] \in Seq(Deliveries) /\ Len(deliveries[x]) = 0
      BY <1>1, <3>1 DEF RowsTyped
    <3> QED
      BY <3>2
  <2> QED
    BY <2>1, <2>2
<1>4. \A i \in DOMAIN exceptions : exceptions[i].product = p => exceptions[i].source = "AVAILABLE"
  BY DEF Onward, Undisturbed
<1> QED
  BY <1>3, <1>4 DEF Undisturbed

--------------------------------------------------------------------------------
\* The reserved stock is what orders have a claim to

\* While nothing is disturbed no order has been given more than it claims.
LEMMA ClaimsAreNatural ==
    ASSUME RowsTyped, RowsSound, OnlyApprovedClaims, NEW p \in Products, Undisturbed(p), NEW o \in Orders
    PROVE  /\ OpenClaim(o, p) \in Nat
           /\ \A i \in DOMAIN deliveries[o] :
                 deliveries[o][i].status # "DELIVERED" => deliveries[o][i].manifest[p] <= OpenClaim(o, p)
           /\ deliveries[o] = <<>> => OpenClaim(o, p) = item[o][p].reserved
<1> DEFINE ds == deliveries[o]
           f == [i \in DOMAIN ds |-> TakenBy(ds[i], p)]
<1>1. /\ OpenClaim(o, p) = item[o][p].reserved - DeliveredUnits(o, p)
      /\ item[o][p].reserved \in Nat /\ item[o][p].ordered \in Nat /\ DeliveredUnits(o, p) \in Nat
  BY ClaimType
<1>2. /\ SoundRows(order[o].status, item[o], alloc[o], ds) /\ ds \in Seq(Deliveries)
      /\ order[o] \in OrderRows
  BY RowsOf
<1>3. DeliveredUnits(o, p) = SumOver(f, DOMAIN ds)
  BY DEF DeliveredUnits
<1>4. Len(ds) <= 1 /\ Len(ds) \in Nat /\ DOMAIN ds = 1..Len(ds)
  BY <1>2 DEF Undisturbed
<1>5. CASE ds = <<>>
  <2>1. DOMAIN ds = {}
    BY <1>5
  <2>2. DeliveredUnits(o, p) = 0
    BY <1>3, <2>1, SumEmpty
  <2> QED
    BY <1>1, <2>1, <2>2
<1>6. CASE ds # <<>>
  <2>1. Len(ds) = 1 /\ DOMAIN ds = {1}
    <3> HIDE DEF ds
    <3>1. ds \in Seq(Deliveries)
      BY <1>2
    <3>2. Len(ds) # 0
      BY <1>6, <3>1
    <3>3. Len(ds) = 1
      BY <1>4, <3>2
    <3> QED
      BY <1>4, <3>3
  <2>2. order[o].status = "APPROVED"
    <3>1. order[o].status \in OrderStatus
      BY <1>2 DEF OrderRows
    <3>2. order[o].status \notin {"SUBMITTED", "REJECTED"}
      BY <1>2, <1>6 DEF SoundRows
    <3>3. order[o].status # "CANCELLED"
      BY <1>6 DEF Undisturbed
    <3> QED
      BY <3>1, <3>2, <3>3 DEF OrderStatus
  <2>3. item[o][p].reserved = item[o][p].ordered
    BY <1>2, <2>2 DEF SoundRows
  <2>4. ds[1] \in Deliveries
    BY <1>2, <2>1
  <2>5. ds[1].manifest[p] \in Nat /\ ds[1].manifest[p] <= item[o][p].ordered
    BY <1>2, <2>1, <2>4 DEF SoundRows, Deliveries
  <2>6. f[1] = IF ds[1].status = "DELIVERED" THEN ds[1].manifest[p] ELSE 0
    BY <2>1 DEF TakenBy
  <2> HIDE DEF f
  <2>7. f[1] \in Int
    BY <2>5, <2>6
  <2>8. DeliveredUnits(o, p) = f[1]
    BY <1>3, <2>1, <2>7, SumOfOne
  <2> HIDE DEF ds
  <2>9. OpenClaim(o, p) = item[o][p].ordered - IF ds[1].status = "DELIVERED" THEN ds[1].manifest[p] ELSE 0
    BY <1>1, <2>3, <2>6, <2>8
  <2>10. OpenClaim(o, p) \in Nat /\ (ds[1].status # "DELIVERED" => ds[1].manifest[p] <= OpenClaim(o, p))
    BY <1>1, <2>5, <2>9
  <2> QED
    BY <1>6, <2>1, <2>10 DEF ds
<1> QED
  BY <1>5, <1>6

LEMMA ClaimIsReserved ==
    ASSUME RowsTyped, RowsSound, OnlyApprovedClaims, ReservedIsClaimed,
           NEW p \in Products, Undisturbed(p), NEW o \in Orders
    PROVE  OpenClaim(o, p) <= balance[p].reserved
<1> DEFINE f == [x \in Orders |-> OpenClaim(x, p)]
<1>1. \A x \in Orders : f[x] \in Nat
  BY ClaimsAreNatural
<1>2. balance[p].reserved = SumOver(f, Orders)
  BY DEF ReservedIsClaimed
<1> HIDE DEF f
<1>3. f[o] <= SumOver(f, Orders)
  BY <1>1, FulfilmentAssumption, SumAtLeast
<1> QED
  BY <1>2, <1>3 DEF f

LEMMA StaffKeepsReserved ==
    ASSUME StockRows, StaffNext, NEW p \in Products, Undisturbed(p)'
    PROVE  balance'[p].reserved = balance[p].reserved
<1>1. exceptions \in Seq(Exceptions) /\ balance[p] \in Balances /\ (NoTicket \/ TicketOpened \/ TicketClosed)
  BY StaffCounts DEF StockRows, StockTyped
<1>2. balance[p].reserved \in Int
  BY <1>1 DEF Balances
<1>3. \A i \in DOMAIN exceptions' : exceptions'[i].product = p => exceptions'[i].source = "AVAILABLE"
  BY DEF Undisturbed
<1>4. CASE NoTicket
  BY <1>2, <1>4 DEF NoTicket, Counts
<1>5. CASE TicketOpened
  <2>1. PICK r \in Products, source \in {"AVAILABLE", "RESERVED"}, q \in Nat, c \in Int :
           /\ exceptions' = Append(exceptions, NewException(r, source, q))
           /\ source = "AVAILABLE" => c = 0
           /\ Counts(r, c, q) /\ OnlyOf(r)
    BY <1>5 DEF TicketOpened
  <2>2. /\ Len(exceptions) + 1 \in DOMAIN exceptions'
        /\ exceptions'[Len(exceptions) + 1] = NewException(r, source, q)
    BY <1>1, <2>1
  <2>3. r = p => c = 0
    BY <1>3, <2>1, <2>2 DEF NewException
  <2> QED
    BY <1>2, <2>1, <2>3 DEF Counts, OnlyOf
<1>6. CASE TicketClosed
  <2>1. PICK i \in DOMAIN exceptions, s \in {"RESOLVED", "DISMISSED"}, c \in Int, u \in Int :
           /\ exceptions[i].source = "AVAILABLE" => c = 0
           /\ Counts(exceptions[i].product, c, u) /\ OnlyOf(exceptions[i].product)
    BY <1>6 DEF TicketClosed
  <2>2. exceptions[i].product = p => c = 0
    BY <1>3, <2>1, TicketsStay
  <2> QED
    BY <1>2, <2>1, <2>2 DEF Counts, OnlyOf
<1> QED
  BY <1>1, <1>4, <1>5, <1>6

\* A cancellation that disturbs nothing finds the whole claim still reserved.
LEMMA CancelKeepsClaims ==
    ASSUME RowsTyped, RowsSound, OnlyApprovedClaims, StockRows, ReservedIsClaimed,
           NEW o \in Orders, CancelOrder(o), NEW p \in Products, Undisturbed(p), Undisturbed(p)'
    PROVE  balance'[p].reserved = Claims(p)'
<1> DEFINE claim == [r \in Products |-> item[o][r].reserved]
<1>1. ClaimInv
  BY DEF ClaimInv, RowsTyped
<1>2. balance[p].reserved = Claims(p) /\ Claims(p) \in Int
  BY SumsType DEF ReservedIsClaimed, Claims
<1>3. Claims(p)' = Claims(p) - item[o][p].reserved
  BY CancelledSums
<1>4. deliveries[o] = <<>>
  <2>1. order'[o].status = "CANCELLED" /\ deliveries' = deliveries
    BY <1>1, CancelledRows DEF CancelOrder
  <2> QED
    BY <2>1 DEF Undisturbed
<1>5. item[o][p].reserved \in Nat /\ item[o][p].reserved <= balance[p].reserved
  BY <1>4, ClaimsAreNatural, ClaimIsReserved, ClaimType
<1>6. CASE \A r \in Products : Counts(r, 0 - Released(r, claim), 0)
  <2>1. claim[p] = item[o][p].reserved
    OBVIOUS
  <2> HIDE DEF claim
  <2>2. ActualRelease(p, claim) = item[o][p].reserved
    BY <1>2, <1>5, <2>1 DEF ActualRelease, Smaller
  <2>3. Released(p, claim) = item[o][p].reserved
    BY <1>5, <2>2 DEF Released
  <2> QED
    BY <1>2, <1>3, <1>5, <1>6, <2>3 DEF Counts
<1>7. CASE UNCHANGED <<invVars, item>>
  <2>1. item[o][p].reserved = 0
    BY <1>1, <1>7, CancelledRows
  <2> QED
    BY <1>2, <1>3, <1>7, <2>1 DEF invVars
<1> QED
  BY <1>6, <1>7, CancelledStock DEF StockRows

LEMMA StepKeepsClaims ==
    ASSUME RowsTyped, RowsSound, OnlyApprovedClaims, StockRows, ReservedIsClaimed, [Next]_vars
    PROVE  ReservedIsClaimed'
<1>1. SUFFICES ASSUME NEW p \in Products, Undisturbed(p)'
               PROVE  balance'[p].reserved = Claims(p)'
  BY DEF ReservedIsClaimed, Claims
<1>2. RowsTyped' /\ Onward
  BY StepKeepsRows, StepIsOnward
<1>3. Undisturbed(p)
  BY <1>1, <1>2, UndisturbedBefore
<1>4. balance[p].reserved = Claims(p) /\ Claims(p) \in Int
  BY <1>3, SumsType DEF ReservedIsClaimed, Claims
<1>5. CASE Quiet
  BY <1>4, <1>5, SumsSame DEF Quiet, invVars
<1>6. CASE \E o \in Orders : ApproveOrder(o)
  <2>1. PICK o \in Orders : ApproveOrder(o)
    BY <1>6
  <2>2. ReserveStock(Demand(o)) /\ Demand(o)[p] = item[o][p].ordered
    BY <2>1 DEF ApproveOrder, Demand, Fulfillable
  <2>3. Counts(p, item[o][p].ordered, 0)
    BY <2>2, DemandType, ReserveCounts DEF StockRows
  <2>4. Claims(p)' = Claims(p) + item[o][p].ordered
    BY <2>1, ApprovedSums
  <2> QED
    BY <1>4, <2>3, <2>4 DEF Counts
<1>7. CASE \E o \in Orders : CancelOrder(o)
  BY <1>1, <1>3, <1>7, CancelKeepsClaims
<1>8. CASE \E o \in Orders : \E i \in DOMAIN deliveries[o] : CompleteDelivery(o, i)
  <2>1. PICK o \in Orders : \E i \in DOMAIN deliveries[o] : CompleteDelivery(o, i)
    BY <1>8
  <2>2. PICK i \in DOMAIN deliveries[o] : CompleteDelivery(o, i)
    BY <2>1
  <2> DEFINE m == deliveries[o][i].manifest[p]
  <2>3. m \in Nat
    BY <2>2, CompletedStock DEF StockRows
  <2>4. balance'[p].reserved = IF m > 0 THEN AtLeastZero(balance[p].reserved - m) ELSE balance[p].reserved
    BY <2>2, CompletedColumns DEF StockRows
  <2>5. Claims(p)' = Claims(p) - m
    BY <1>2, <2>2, <2>3, CompletedSums
  <2>6. deliveries[o][i].status # "DELIVERED"
    <3>1. Completable(deliveries[o][i])
      BY <2>2, Zenon DEF CompleteDelivery
    <3> QED
      BY <3>1 DEF Completable
  <2>7. m <= OpenClaim(o, p) /\ OpenClaim(o, p) <= balance[p].reserved /\ OpenClaim(o, p) \in Nat
    BY <1>3, <2>6, ClaimsAreNatural, ClaimIsReserved
  <2> HIDE DEF m
  <2> QED
    BY <1>4, <2>3, <2>4, <2>5, <2>7 DEF AtLeastZero
<1>9. CASE StaffNext /\ UNCHANGED orderVars
  <2>1. SameUnits /\ item' = item
    BY <1>9, SameDeliveries DEF orderVars
  <2> QED
    BY <1>1, <1>4, <1>9, <2>1, SumsSame, StaffKeepsReserved
<1> QED
  BY <1>5, <1>6, <1>7, <1>8, <1>9, StepKinds

--------------------------------------------------------------------------------
\* With the CHECKs of PostgreSQL

\* Where the claim covers the manifest nothing is clamped, and the completion that
\* commits has moved exactly the units its row says.
LEMMA RelievedFlow ==
    ASSUME NEW b \in Balances, LegalBalance(b), NEW q \in Nat, q <= b.reserved,
           LegalBalance(Relieved(b, q))
    PROVE  Flow(b, Relieved(b, q), "RESERVED", "DISPATCHED", q)
<1> DEFINE c == Relieved(b, q)
<1>1. /\ c \in Balances
      /\ c.onHand = AtLeastZero(b.onHand - q) /\ c.reserved = AtLeastZero(b.reserved - q)
      /\ c.available = AtLeastZero(AtLeastZero(b.onHand - q) - AtLeastZero(b.reserved - q))
      /\ c.damaged = b.damaged
  BY RelievedColumns
<1> HIDE DEF c
<1>2. /\ b.onHand \in Int /\ b.reserved \in Int /\ b.damaged \in Int /\ b.available \in Int
      /\ b.onHand >= 0 /\ b.reserved >= 0 /\ b.damaged >= 0 /\ b.reserved + b.damaged <= b.onHand
      /\ b.available = b.onHand - b.reserved - b.damaged
  BY DEF Balances, LegalBalance
<1>3. AtLeastZero(b.onHand - q) = b.onHand - q /\ AtLeastZero(b.reserved - q) = b.reserved - q
  BY <1>2 DEF AtLeastZero
<1>4. AtLeastZero((b.onHand - q) - (b.reserved - q)) = b.onHand - b.reserved
  BY <1>2 DEF AtLeastZero
<1>5. c.onHand = b.onHand - q /\ c.reserved = b.reserved - q /\ c.available = b.onHand - b.reserved
  BY <1>1, <1>3, <1>4
<1>6. b.damaged = 0
  <2>1. c.available = c.onHand - c.reserved - c.damaged
    BY DEF c, LegalBalance
  <2> QED
    BY <1>1, <1>2, <1>5, <2>1
<1>7. Flow(b, c, "RESERVED", "DISPATCHED", q)
  BY <1>1, <1>2, <1>5, <1>6 DEF Flow, Change
<1> QED
  BY <1>7 DEF c

BooksSound == BalanceMath /\ LedgerReconcilesUndisturbed

LEMMA StepKeepsBooks ==
    ASSUME RowsTyped, RowsSound, OnlyApprovedClaims, StockRows, ReservedIsClaimed,
           DbChecks, BooksSound, [Next]_vars
    PROVE  BooksSound'
<1>1. StockLegal /\ exceptions \in Seq(Exceptions)
  BY DEF StockRows, StockTyped, StockLegal, Legal, BooksSound, BalanceMath
<1>2. StockRows' /\ RowsTyped' /\ Onward
  BY StepKeepsTypes, StepKeepsRows, StepIsOnward
<1>3. \A p \in Products : Undisturbed(p)' => Undisturbed(p)
  BY <1>2, UndisturbedBefore
<1>4. ASSUME StockStaysSound PROVE BooksSound'
  BY <1>3, <1>4 DEF StockStaysSound, StaysSound, Legal, BooksSound, BalanceMath, LedgerReconcilesUndisturbed
<1>5. ASSUME balance' = balance, ledger' = ledger PROVE BooksSound'
  BY <1>3, <1>5 DEF BooksSound, BalanceMath, LegalBalance, LedgerReconcilesUndisturbed, Reconciled, Snapshot
<1>6. CASE Quiet
  BY <1>5, <1>6 DEF Quiet, invVars
<1>7. CASE \E o \in Orders : ApproveOrder(o)
  <2>1. PICK o \in Orders : ReserveStock(Demand(o))
    BY <1>7 DEF ApproveOrder
  <2> QED
    BY <1>1, <1>4, <2>1, DemandType, ReserveIsSound
<1>8. CASE \E o \in Orders : CancelOrder(o)
  <2>1. PICK o \in Orders : CancelOrder(o)
    BY <1>8
  <2>2. CASE ReleaseStock([p \in Products |-> item[o][p].reserved])
    BY <1>1, <1>4, <2>2, DemandType, ReleaseIsSound
  <2>3. CASE UNCHANGED invVars
    BY <1>5, <2>3 DEF invVars
  <2> QED
    BY <2>1, <2>2, <2>3, CancelledStock DEF StockRows
<1>9. CASE \E o \in Orders : \E i \in DOMAIN deliveries[o] : CompleteDelivery(o, i)
  <2>1. PICK o \in Orders : \E i \in DOMAIN deliveries[o] : CompleteDelivery(o, i)
    BY <1>9
  <2>2. PICK i \in DOMAIN deliveries[o] : CompleteDelivery(o, i)
    BY <2>1
  <2>3. \A p \in Products : LegalBalance(balance'[p])
    <3>1. Committed
      BY <2>2, Zenon DEF CompleteDelivery
    <3> QED
      BY <3>1 DEF Committed
  <2>4. ASSUME NEW p \in Products, Undisturbed(p)' PROVE Reconciled(balance'[p], ledger'[p])
    <3> DEFINE m == deliveries[o][i].manifest[p]
    <3>1. /\ m \in Nat
          /\ balance'[p] = IF m > 0 THEN Relieved(balance[p], m) ELSE balance[p]
          /\ ledger'[p] = IF m > 0 THEN Recorded(ledger[p], "RESERVED", "DISPATCHED", m, balance'[p]) ELSE ledger[p]
      BY <2>2, CompletedStock DEF StockRows
    <3>2. Undisturbed(p) /\ Reconciled(balance[p], ledger[p])
      BY <1>3, <2>4 DEF BooksSound, LedgerReconcilesUndisturbed
    <3>3. deliveries[o][i].status # "DELIVERED"
      <4>1. Completable(deliveries[o][i])
        BY <2>2, Zenon DEF CompleteDelivery
      <4> QED
        BY <4>1 DEF Completable
    <3>4. m <= OpenClaim(o, p) /\ OpenClaim(o, p) <= balance[p].reserved /\ OpenClaim(o, p) \in Nat
      BY <3>2, <3>3, ClaimsAreNatural, ClaimIsReserved
    <3>5. /\ balance[p] \in Balances /\ ledger[p] \in Ledgers /\ LegalBalance(balance[p])
          /\ balance'[p] \in Balances
      BY <1>1, <1>2 DEF StockLegal, Legal, StockRows, StockTyped
    <3> HIDE DEF m
    <3>6. m <= balance[p].reserved
      <4>1. balance[p].reserved \in Int
        BY <3>5 DEF Balances
      <4> QED
        BY <3>1, <3>4, <4>1
    <3>7. CASE m > 0
      <4>1. Flow(balance[p], balance'[p], "RESERVED", "DISPATCHED", m)
        BY <2>3, <3>1, <3>5, <3>6, <3>7, RelievedFlow
      <4>2. "RESERVED" \in StockStates /\ "DISPATCHED" \in StockStates /\ LegalBalance(balance'[p])
        BY <2>3 DEF StockStates
      <4>3. StaysSound(balance[p], ledger[p], balance'[p], Recorded(ledger[p], "RESERVED", "DISPATCHED", m, balance'[p]))
        BY <3>1, <3>5, <4>1, <4>2, RecordedStaysSound
      <4> QED
        BY <3>1, <3>2, <3>7, <4>3 DEF StaysSound
    <3>8. CASE ~(m > 0)
      BY <3>1, <3>2, <3>8
    <3> QED
      BY <3>7, <3>8
  <2> QED
    BY <2>3, <2>4 DEF BooksSound, BalanceMath, LedgerReconcilesUndisturbed
<1>10. CASE StaffNext
  <2>1. InventoryNext
    BY <1>10 DEF InventoryNext
  <2> QED
    BY <1>1, <1>4, <2>1, StepIsSound
<1> QED
  BY <1>6, <1>7, <1>8, <1>9, <1>10, StepKinds

--------------------------------------------------------------------------------
\* The inductive invariant

FInv ==
    /\ RowsTyped /\ RowsSound /\ OnlyApprovedClaims
    /\ StockRows
    /\ RelievedOncePerDelivery /\ ReservedIsClaimed
    /\ DbChecks => BooksSound

LEMMA InitStock ==
    ASSUME InventoryInit, NEW p \in Products
    PROVE  balance[p].reserved = 0 /\ ledger[p].net["DISPATCHED"] = 0
<1>1. /\ ZeroBalance \in Balances /\ ZeroBalance.reserved = 0
      /\ EmptyLedger \in Ledgers /\ EmptyLedger.net["DISPATCHED"] = 0
  BY DEF ZeroBalance, Balances, EmptyLedger, Ledgers, Snapshots, Snapshot, StockStates
<1>2. balance[p] = OpeningBalance /\ ledger[p] = OpeningLedger
  BY DEF InventoryInit
<1>3. CASE OpeningStock = 0
  BY <1>1, <1>2, <1>3 DEF OpeningBalance, OpeningLedger
<1>4. CASE OpeningStock # 0
  <2> DEFINE x == [ZeroBalance EXCEPT !.onHand = OpeningStock]
  <2>1. x \in Balances /\ x.reserved = 0
    BY InventoryAssumption DEF ZeroBalance, Balances
  <2>2. OpeningBalance = Saved(x)
    BY <1>4 DEF OpeningBalance
  <2> HIDE DEF x
  <2>3. OpeningBalance \in Balances /\ OpeningBalance.reserved = 0
    BY <2>1, <2>2, SavedIsTyped
  <2>4. OpeningLedger = Recorded(EmptyLedger, "EXTERNAL", "AVAILABLE", OpeningStock, OpeningBalance)
    BY <1>4 DEF OpeningLedger
  <2>5. "EXTERNAL" \in StockStates /\ "AVAILABLE" \in StockStates /\ OpeningStock \in Nat
    BY InventoryAssumption DEF StockStates
  <2>6. OpeningLedger.net["DISPATCHED"] = EmptyLedger.net["DISPATCHED"] + Change("DISPATCHED", "EXTERNAL", "AVAILABLE", OpeningStock)
    BY <1>1, <2>3, <2>4, <2>5, RecordedIsTyped
  <2>7. Change("DISPATCHED", "EXTERNAL", "AVAILABLE", OpeningStock) = 0
    BY DEF Change
  <2> QED
    BY <1>1, <1>2, <2>3, <2>6, <2>7
<1> QED
  BY <1>3, <1>4

LEMMA InitSums ==
    ASSUME FulfilmentInit, NEW p \in Products
    PROVE  Gone(p) = 0 /\ Claims(p) = 0
<1>1. PICK lines \in [Orders -> [Products -> OrderedQuantities]] :
         item = [o \in Orders |-> [q \in Products |-> [ordered |-> lines[o][q], reserved |-> 0]]]
  BY DEF FulfilmentInit
<1>2. \A o \in Orders : item[o][p].reserved = 0
  BY <1>1
<1>3. \A o \in Orders : DeliveredUnits(o, p) = 0
  <2>1. \A o \in Orders : DOMAIN deliveries[o] = {}
    BY DEF FulfilmentInit
  <2> QED
    BY <2>1, SumEmpty DEF DeliveredUnits
<1> DEFINE f == [o \in Orders |-> OpenClaim(o, p)]
           g == [o \in Orders |-> DeliveredUnits(o, p)]
<1>4. \A o \in Orders : f[o] = 0 /\ g[o] = 0
  BY <1>2, <1>3 DEF OpenClaim
<1>5. Claims(p) = SumOver(f, Orders) /\ Gone(p) = SumOver(g, Orders)
  BY DEF Claims, Gone
<1> HIDE DEF f, g
<1> QED
  BY <1>4, <1>5, FulfilmentAssumption, SumOfZeros

LEMMA FInvInit == FulfilmentInit => FInv
<1> SUFFICES ASSUME FulfilmentInit PROVE FInv
  OBVIOUS
<1>1. InventoryInit
  BY DEF FulfilmentInit
<1>2. RowsTyped /\ RowsSound /\ OnlyApprovedClaims
  BY InitRows, InitClaims DEF ClaimInv
<1>3. IInv
  BY <1>1, InitIsSound
<1>4. StockRows /\ BooksSound
  BY <1>3 DEF IInv, TypeOK, StockRows, StockTyped, BooksSound, LedgerReconciles, LedgerReconcilesUndisturbed
<1>5. RelievedOncePerDelivery /\ ReservedIsClaimed
  <2>1. \A p \in Products : /\ balance[p].reserved = 0 /\ ledger[p].net["DISPATCHED"] = 0
                            /\ Gone(p) = 0 /\ Claims(p) = 0
    BY <1>1, InitStock, InitSums
  <2> QED
    BY <2>1 DEF RelievedOncePerDelivery, ReservedIsClaimed, Gone, Claims
<1> QED
  BY <1>2, <1>4, <1>5 DEF FInv

LEMMA FInvIsInductive == FInv /\ [Next]_vars => FInv'
<1> SUFFICES ASSUME FInv, [Next]_vars PROVE FInv'
  OBVIOUS
<1>1. RowsTyped /\ RowsSound /\ OnlyApprovedClaims /\ StockRows /\ RelievedOncePerDelivery /\ ReservedIsClaimed
  BY DEF FInv
<1>2. RowsTyped' /\ RowsSound'
  BY <1>1, StepKeepsRows
<1>3. OnlyApprovedClaims'
  <2>1. ClaimInv'
    BY <1>1, StepClaims DEF ClaimInv, RowsTyped
  <2> QED
    BY <2>1 DEF ClaimInv
<1>4. StockRows'
  BY <1>1, StepKeepsTypes
<1>5. RelievedOncePerDelivery' /\ ReservedIsClaimed'
  BY <1>1, StepRelieves, StepKeepsClaims
<1>6. DbChecks => BooksSound'
  BY <1>1, StepKeepsBooks DEF FInv
<1> QED
  BY <1>2, <1>3, <1>4, <1>5, <1>6 DEF FInv

\* Every reachable warehouse with its orders and deliveries satisfies the invariant.
THEOREM FulfilmentIsSound == Spec => []FInv
<1>1. FulfilmentInit => FInv
  BY FInvInit
<1>2. FInv /\ [Next]_vars => FInv'
  BY FInvIsInductive
<1> QED
  BY <1>1, <1>2, PTL DEF Spec

--------------------------------------------------------------------------------
\* Theorems

\* Type correctness: no order of approvals, deliveries, cancellations and staff
\* operations writes a row outside its columns, with or without the CHECKs.
THEOREM FulfilmentTypeCorrect == Spec => []FulfilmentTypeOK
<1>1. FInv => FulfilmentTypeOK
  BY DEF FInv, RowsTyped, OrdersTyped, StockRows, StockTyped, FulfilmentTypeOK, TypeOK
<1> QED
  BY <1>1, FulfilmentIsSound, PTL

\* While nothing is disturbed the reserved stock of a product is what its orders
\* still claim, for any number of orders sharing it: no approval, cancellation or
\* completion spends the reservation of another order, and none leaks one.
THEOREM ReservationsAreClaims == Spec => []ReservedIsClaimed
<1>1. FInv => ReservedIsClaimed
  BY DEF FInv
<1> QED
  BY <1>1, FulfilmentIsSound, PTL

\* The units that left the warehouse are those of the manifests of completed
\* deliveries, each counted once, whatever became of the orders.
THEOREM StockLeavesOncePerDelivery == Spec => []RelievedOncePerDelivery
<1>1. FInv => RelievedOncePerDelivery
  BY DEF FInv
<1> QED
  BY <1>1, FulfilmentIsSound, PTL

\* While an order has had one delivery, a line of it that says its goods are on a van
\* is matched by that delivery, which is neither completed nor back, after any
\* number of failures, reschedules and returns.
THEOREM CustodyStaysOpen == Spec => []NoOrphanedCustody
<1>1. FInv => NoOrphanedCustody
  BY DEF FInv, RowsSound, SoundRows, Custody, NoOrphanedCustody
<1> QED
  BY <1>1, FulfilmentIsSound, PTL

\* With the CHECKs of PostgreSQL no completed delivery lists, by itself, more of a
\* line than was picked for it.
THEOREM DeliveredWasPicked == ASSUME DbChecks PROVE Spec => []NothingDeliveredUnpicked
<1>1. FInv => NothingDeliveredUnpicked
  BY DEF FInv, RowsSound, SoundRows, Picked, NothingDeliveredUnpicked
<1> QED
  BY <1>1, FulfilmentIsSound, PTL

\* With the CHECKs of PostgreSQL the ledger still explains the balance of every
\* undisturbed product once deliveries relieve stock, though the completion
\* computes the available column without the damaged one.
THEOREM LedgerSurvivesDeliveries == ASSUME DbChecks PROVE Spec => []LedgerReconcilesUndisturbed
<1>1. FInv => LedgerReconcilesUndisturbed
  BY DEF FInv, BooksSound
<1> QED
  BY <1>1, FulfilmentIsSound, PTL

\* With those CHECKs every balance stays legal too, disturbed or not.
THEOREM BalancesSurviveDeliveries == ASSUME DbChecks PROVE Spec => []BalanceMath
<1>1. FInv => BalanceMath
  BY DEF FInv, BooksSound
<1> QED
  BY <1>1, FulfilmentIsSound, PTL
================================================================================
