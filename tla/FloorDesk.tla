------------------------------- MODULE FloorDesk -------------------------------
(***************************************************************************)
(* The pages on which goods are decided about, and what the server does    *)
(* with what they send: the review of an order, a return, the exceptions   *)
(* of the stock, a delivery on the road and on the dispatcher's table.     *)
(* As in MoneyDesk: the row shown, the buttons it offers to a user, what   *)
(* the dialogs send, how buttons are held, and the answers.                *)
(***************************************************************************)
EXTENDS StaffRoles

CONSTANT MaxGoods      \* the quantity of the line that an order, a return or a delivery has

ASSUME FloorAssumption == MaxGoods \in Nat \ {0}

--------------------------------------------------------------------------------
\* The review of an order

\* blocked: the customer is not ACTIVE, a product is not, or stock is missing.
OrderDocument == [status : {"SUBMITTED", "APPROVED", "REJECTED"}, blocked : BOOLEAN]

OrderOpened == {[status |-> "SUBMITTED", blocked |-> b] : b \in BOOLEAN}

\* Meanwhile the customer is put on hold or the stock is taken.
OrderElsewhere(row) == When(row.status = "SUBMITTED", [row EXCEPT !.blocked = ~@])

Reviews(u) == u \in Supers \cup Admins

\* The action deck.  The button that approves is disabled by a blocker.
OrderButtons(row, u) ==
    Offer(1, {"approve"}, row.status = "SUBMITTED" /\ Reviews(u) /\ ~row.blocked)
    \cup Offer(1, {"reject"}, row.status = "SUBMITTED" /\ Reviews(u))

ApproveOrderModal == {[reason |-> "none"]}

\* The button wants a reason of five letters, as the server does.
RejectOrderModal == {[reason |-> "enough"]}

\* Mutant of Rejectable: an order that was approved meanwhile is rejected.
RejectableUntilRejected(row) == row.status # "REJECTED"

Rejectable(row) == row.status = "SUBMITTED"

OrderAllowed(row, u, act) == Reviews(u)

OrderServed(row, u, act, form) ==
    CASE act.verb = "approve" ->
            Checked(row, ~row.blocked \/ row.status # "SUBMITTED", row.status = "SUBMITTED",
                    [row EXCEPT !.status = "APPROVED"])
      [] act.verb = "reject" ->
            Checked(row, form.reason = "enough", Rejectable(row),
                    [row EXCEPT !.status = "REJECTED"])

--------------------------------------------------------------------------------
\* A return

\* left: how much of the line was delivered and not returned before.
ReturnDocument ==
    [status : {"REQUESTED", "INSPECTED", "APPROVED", "REJECTED", "CANCELLED"},
     received : 0..MaxGoods, accepted : 0..MaxGoods, left : 0..MaxGoods,
     maker : Staff, checker : Staff \cup {"nobody"}]

ReturnOpened ==
    {[status |-> status, received |-> IF status = "REQUESTED" THEN 0 ELSE MaxGoods, accepted |-> 0,
      left |-> MaxGoods, maker |-> u, checker |-> "nobody"] :
        status \in {"REQUESTED", "INSPECTED"}, u \in Staff}

\* Another return of the same line is approved.
ReturnElsewhere(row) ==
    When(row.left > 0 /\ row.status \in {"REQUESTED", "INSPECTED"}, [row EXCEPT !.left = @ - 1])

Undecided(row) == row.status \in {"REQUESTED", "INSPECTED"}

\* Whoever may see the page is offered what the status allows, its role notwithstanding.
ReturnButtons(row, u) ==
    Offer(1, {"inspect", "cancel"}, row.status = "REQUESTED")
    \cup Offer(1, {"approve"}, row.status = "INSPECTED")
    \cup Offer(1, {"reject"}, Undecided(row))

\* Opened, the modal is filled with what was requested; the browser keeps the count within it.
InspectReturnModal == {[received |-> q] : q \in 0..MaxGoods}

\* Opened, it is filled with what was received, all of it good.  The button is disabled
\* until good, damaged and rejected units sum up to that.
ApproveReturnModal(row) ==
    {form \in [good : 0..MaxGoods, damaged : 0..MaxGoods, rejected : 0..MaxGoods] :
        form.good + form.damaged + form.rejected = row.received}

\* A box of the browser that asks for some reason.
handleReject == {[reason |-> "short"], [reason |-> "enough"]}

\* The two modals hold their own button; the boxes of the browser hold none.
ReturnFlag(verb) == IF verb \in {"inspect", "approve"} THEN ModalFlag ELSE NoFlag

ReturnAllowed(row, u, act) ==
    CASE act.verb = "inspect" -> Has(u, "return.review")
      [] act.verb = "cancel"  -> Has(u, "return.request")
      [] act.verb \in {"approve", "reject"} -> Has(u, "return.approve")

\* Only the actor is taken from the row as it was before the transaction; its maker stays.
approveReturn(row, u, form) ==
    Checked(row, /\ MakerChecker(u, row)
                 /\ row.status = "INSPECTED" =>
                       /\ form.good + form.damaged + form.rejected = row.received
                       /\ form.good + form.damaged <= row.left,
            row.status = "INSPECTED",
            [row EXCEPT !.status = "APPROVED", !.accepted = form.good + form.damaged,
                        !.left = @ - (form.good + form.damaged), !.checker = u])

ReturnServed(row, u, act, form) ==
    CASE act.verb = "inspect" ->
            Checked(row, TRUE, row.status = "REQUESTED",
                    [row EXCEPT !.status = "INSPECTED", !.received = form.received])
      [] act.verb = "approve" -> approveReturn(row, u, form)
      [] act.verb = "reject" ->
            Checked(row, form.reason = "enough" /\ MakerChecker(u, row), Undecided(row),
                    [row EXCEPT !.status = "REJECTED"])
      [] act.verb = "cancel" ->
            Checked(row, TRUE, row.status = "REQUESTED", [row EXCEPT !.status = "CANCELLED"])

--------------------------------------------------------------------------------
\* The exceptions of the stock

ExceptionDocument == [status : {"PENDING_REVIEW", "RESOLVED", "DISMISSED"}]

ExceptionOpened == {[status |-> "PENDING_REVIEW"]}

\* The table offers its actions to whoever may adjust stock.
ExceptionTable(row, u) ==
    Offer(1, {"resolve", "dismiss"}, row.status = "PENDING_REVIEW" /\ Has(u, "inventory.adjust"))

\* The boxes are required, the server wants five letters.
ResolveDialog == {[text |-> "short"], [text |-> "enough"]}
DismissDialog == {[text |-> "short"], [text |-> "enough"]}

ExceptionAllowed(row, u, act) == Has(u, "inventory.adjust")

ExceptionServed(row, u, act, form) ==
    Checked(row, form.text = "enough", row.status = "PENDING_REVIEW",
            [row EXCEPT !.status = IF act.verb = "resolve" THEN "RESOLVED" ELSE "DISMISSED"])

--------------------------------------------------------------------------------
\* A delivery: the page of its driver and the table of the dispatcher

\* shelf: the order has allocations that are not dispatched.  open: the order is neither
\* cancelled nor completed.
DeliveryDocument ==
    [status : {"ASSIGNED", "PICKED_UP", "OUT_FOR_DELIVERY", "DELIVERED", "FAILED",
               "RESCHEDULED", "RETURNED_TO_WAREHOUSE"},
     driver : Drivers, shelf : BOOLEAN, open : BOOLEAN]

DeliveryOpened ==
    {[status |-> status, driver |-> d, shelf |-> status = "ASSIGNED", open |-> TRUE] :
        status \in {"ASSIGNED", "OUT_FOR_DELIVERY"}, d \in Drivers}

\* The order is cancelled.
DeliveryElsewhere(row) ==
    When(row.open /\ row.status # "DELIVERED", [row EXCEPT !.open = FALSE, !.shelf = FALSE])

\* From which status each verb of the driver leads to which.
From(verb) ==
    CASE verb = "pickup"     -> {"ASSIGNED"}
      [] verb = "start"      -> {"PICKED_UP"}
      [] verb = "complete"   -> {"OUT_FOR_DELIVERY"}
      [] verb = "fail"       -> {"ASSIGNED", "PICKED_UP", "OUT_FOR_DELIVERY"}
      [] verb = "reschedule" -> {"ASSIGNED", "FAILED"}
      [] verb = "return"     -> {"PICKED_UP", "OUT_FOR_DELIVERY", "FAILED"}

To(verb) ==
    CASE verb = "pickup"     -> "PICKED_UP"
      [] verb = "start"      -> "OUT_FOR_DELIVERY"
      [] verb = "complete"   -> "DELIVERED"
      [] verb = "fail"       -> "FAILED"
      [] verb = "reschedule" -> "RESCHEDULED"
      [] verb = "return"     -> "RETURNED_TO_WAREHOUSE"

DriverVerbs == {"pickup", "start", "complete", "fail", "reschedule", "return"}

\* The action bar: what the status allows, except that a delivery that can be picked up is
\* not rescheduled.
ActionBar(row) ==
    (UNION {Offer(1, {verb}, row.status \in From(verb)) : verb \in DriverVerbs \ {"reschedule"}})
    \cup Offer(1, {"reschedule"}, row.status \in From("reschedule") /\ row.status # "ASSIGNED")

\* The table offers to assign, whatever the status; a modal chooses among the drivers.
DispatchTable(row, u) == Offer(1, {"assign"}, Has(u, "delivery.assign"))

DeliveryButtons(row, u) ==
    IF u \in Drivers THEN IF row.driver = u THEN ActionBar(row) ELSE {}
    ELSE DispatchTable(row, u)

\* The button wants a recipient; photograph and signature are optional.
DeliveryCompleteModal == {[text |-> "enough"]}

\* The button wants a cause and notes of five letters.
DeliveryFailureModal == {[text |-> "enough"]}

DeliveryRescheduleModal == {[text |-> "enough"]}

DeliveryReturnModal == {[text |-> "enough"]}

AssignDeliveryModal == {[driver |-> d] : d \in Drivers}

\* Picking up and starting share the flag of the page; each modal has one of its own, which
\* only a success and a list of errors put back, or closing the modal that assigns.
DeliveryFlag(verb) ==
    IF verb \in {"pickup", "start"} THEN Flag("page", "finish") ELSE Flag(verb, "outcome")

DeliveryAllowed(row, u, act) ==
    IF act.verb = "assign" THEN Has(u, "delivery.assign") ELSE row.driver = u

\* A delivery still to be picked up, or back, gets the driver; for any other a new one is made.
assignOrder(row, form) ==
    Checked(row, row.open => row.shelf, row.open,
            IF row.status \in {"ASSIGNED", "RESCHEDULED", "RETURNED_TO_WAREHOUSE"}
            THEN [row EXCEPT !.status = "ASSIGNED", !.driver = form.driver] ELSE row)

\* What becomes of the goods.
Moved(row, verb) ==
    [row EXCEPT !.status = To(verb),
                !.shelf = IF verb = "pickup" THEN FALSE ELSE IF verb = "return" THEN TRUE ELSE @,
                !.open = @ /\ verb # "complete"]

\* Asked again for what has been done, the service answers as if it did it, except that a
\* delivery is not rescheduled twice.
DeliveryServed(row, u, act, form) ==
    CASE act.verb = "assign" -> assignOrder(row, form)
      [] act.verb # "assign" /\ act.verb # "reschedule" /\ row.status = To(act.verb) ->
            Reply(row, "done")
      [] OTHER -> Checked(row, TRUE, row.status \in From(act.verb), Moved(row, act.verb))
================================================================================
