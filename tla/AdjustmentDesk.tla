----------------------------- MODULE AdjustmentDesk -----------------------------
(***************************************************************************)
(* The pages on which an order of one line is reduced after it was placed: *)
(* the order's page, where a reduction is requested and withdrawn, and the *)
(* review of an adjustment, where it is decided, applied and reversed.  As *)
(* in MoneyDesk: the row shown, the buttons it offers, what the dialogs    *)
(* send, how buttons are held, and the answers.                            *)
(***************************************************************************)
EXTENDS StaffRoles, SequencesExt, FiniteSetsExt

CONSTANT MaxOrdered      \* the quantity ordered

ASSUME AdjustmentAssumption == MaxOrdered \in Nat \ {0}

\* shelf: allocated and not picked; pending: adjustment_status is REQUESTED.
OrderRow == [status : {"SUBMITTED", "APPROVED", "COMPLETED"}, version : Nat,
             cancelled : 0..MaxOrdered, shelf : 0..MaxOrdered, picked : 0..MaxOrdered, pending : BOOLEAN]

\* affected and version are what they were when the adjustment was requested; key is the
\* idempotency key of the dialog it was requested in.
AdjustmentDocument ==
    [status : {"SUBMITTED", "APPROVED", "APPLIED", "REVERSED", "REJECTED", "CANCELLED"},
     reduction : 1..MaxOrdered, affected : 0..MaxOrdered, version : Nat,
     maker : Supers \cup Admins, checker : Staff \cup {"nobody"}, key : Nat, at : Nat]

NewOrder == [status |-> "SUBMITTED", version |-> 1, cancelled |-> 0, shelf |-> 0, picked |-> 0,
             pending |-> FALSE]

NewAdjustment(u, reduction, affected, version, key) ==
    [status |-> "SUBMITTED", reduction |-> reduction, affected |-> affected, version |-> version,
     maker |-> u, checker |-> "nobody", key |-> key, at |-> 0]

\* A unit of the goods that were allocated was taken, and another one is to be.  The first
\* was requested when the order had been allocated (affected 1), or before that (0).
AppliedAdjustment(u, v, affected) ==
    [status |-> "APPLIED", reduction |-> 1, affected |-> affected, version |-> 1,
     maker |-> u, checker |-> v, key |-> 1, at |-> 2]

ApprovedAdjustment(u, v) ==
    [status |-> "APPROVED", reduction |-> 1, affected |-> 1, version |-> 2,
     maker |-> u, checker |-> v, key |-> 2, at |-> 0]

\* An order is opened as it was made, or in the middle of that.
NewOrderRow == [order |-> NewOrder, adjustments |-> <<>>]

ReducedOrder ==
    [status |-> "APPROVED", version |-> 2, cancelled |-> 1, shelf |-> MaxOrdered - 1, picked |-> 0,
     pending |-> TRUE]

ReducedRow(u, v, affected) ==
    [order |-> ReducedOrder,
     adjustments |-> <<AppliedAdjustment(u, v, affected), ApprovedAdjustment(u, v)>>]

AdjustmentOpened ==
    {NewOrderRow}
    \cup {ReducedRow(d[1], d[2], d[3]) :
            d \in {d \in (Supers \cup Admins) \X (Supers \cup Admins) \X (0..1) : d[1] # d[2]}}

fulfillableQuantity(order) == MaxOrdered - order.cancelled

\* Mutant of unallocatedQuantity: counted from the quantity ordered.
UnallocatedOfOrdered(order) == MaxOrdered - order.shelf - order.picked

unallocatedQuantity(order) == fulfillableQuantity(order) - order.shelf - order.picked

Eligible(order) == order.status \in {"SUBMITTED", "APPROVED"}

\* How much of a reduction must be taken from allocations.
Encroached(order, reduction) == Max({0, reduction - unallocatedQuantity(order)})

\* Meanwhile the order is approved, which allocates it, picked, and completed.
AdjustmentElsewhere(row) ==
    LET order == row.order IN
    When(order.status = "SUBMITTED",
         [row EXCEPT !.order.status = "APPROVED", !.order.shelf = fulfillableQuantity(order)])
    \cup When(order.shelf > 0, [row EXCEPT !.order.picked = @ + order.shelf, !.order.shelf = 0])
    \cup When(order.status = "APPROVED" /\ order.shelf = 0, [row EXCEPT !.order.status = "COMPLETED"])

--------------------------------------------------------------------------------
\* What is shown

\* The verdict over an adjustment on the order as it is now; allocations that must be
\* reduced are reported before drift is.
evaluate(order, adjustment) ==
    LET affected == Encroached(order, adjustment.reduction) IN
    CASE ~Eligible(order) -> "INELIGIBLE_LIFECYCLE"
      [] Eligible(order) /\ adjustment.status # "SUBMITTED" -> "TERMINAL_REQUEST"
      [] OTHER ->
           IF adjustment.reduction > fulfillableQuantity(order) THEN "CONFLICTED"
           ELSE IF affected > order.shelf THEN "WARNING_PICKED_ENCROACHMENT"
           ELSE IF affected > 0 THEN "WARNING_ALLOCATION"
           ELSE IF adjustment.version # order.version \/ adjustment.affected # affected THEN "STALE"
           ELSE "READY"

\* The page of the order: the button that requests, and the banner of an open request.
OrderHeader(row, u) ==
    Offer(0, {"request"}, /\ Has(u, "order.adjust.request")
                          /\ Eligible(row.order) /\ ~row.order.pending)

PendingAdjustmentBanner(adjustment, i, u) ==
    Offer(i, {"withdraw"}, /\ adjustment.status = "SUBMITTED"
                           /\ adjustment.maker = u \/ u \in Supers \cup Admins)

\* The controls of the review.  While a request is open whoever made it is told why there
\* are none.
HeaderActions(order, adjustment, i, u) ==
    LET verdict == evaluate(order, adjustment) IN
    Offer(i, {"reject"}, /\ adjustment.status = "SUBMITTED"
                         /\ Has(u, "order.adjust.approve") /\ MakerChecker(u, adjustment))
    \cup Offer(i, {"approve"}, /\ adjustment.status = "SUBMITTED"
                               /\ Has(u, "order.adjust.approve") /\ MakerChecker(u, adjustment)
                               /\ verdict \in {"READY", "WARNING_ALLOCATION"})
    \cup Offer(i, {"apply"}, /\ adjustment.status = "APPROVED" /\ Has(u, "order.adjust.apply")
                             /\ verdict # "INELIGIBLE_LIFECYCLE")
    \cup Offer(i, {"reverse"}, /\ adjustment.status = "APPLIED"
                               /\ Has(u, "order.adjust.reverse") /\ MakerChecker(u, adjustment)
                               /\ verdict # "INELIGIBLE_LIFECYCLE")

AdjustmentButtons(row, u) ==
    OrderHeader(row, u) \cup
    UNION {PendingAdjustmentBanner(row.adjustments[i], i, u)
             \cup HeaderActions(row.order, row.adjustments[i], i, u) : i \in DOMAIN row.adjustments}

\* The units typed are kept within what the page believes to be fulfillable; the button
\* wants one at least.  The key was made when the dialog was opened.
RequestAdjustmentModal(row, key) ==
    {[key |-> key, reduction |-> q] : q \in 1..fulfillableQuantity(row.order)}

\* Mutant of ApproveAdjustmentModal: the box is shown and its tick not sent.
ApproveWithoutTick(row, i) == {[acknowledged |-> FALSE]}

\* When the page shows that allocations are touched its box must be ticked; a SUPER_ADMIN
\* who decides about his own request must give a reason of ten letters.
ApproveAdjustmentModal(row, i) ==
    {[acknowledged |-> Encroached(row.order, row.adjustments[i].reduction) > 0]}

\* The other modals want reasons as long as the server does, or none.
RejectAdjustmentModal  == {[reason |-> "enough"]}
ApplyAdjustmentModal   == {[reason |-> "none"]}
ReverseAdjustmentModal == {[reason |-> "enough"]}
WithdrawDialog         == {[reason |-> "perhaps"]}

AdjustmentDialog(row, act, key) ==
    CASE act.verb = "request"  -> RequestAdjustmentModal(row, key)
      [] act.verb = "approve"  -> ApproveAdjustmentModal(row, act.of)
      [] act.verb = "reject"   -> RejectAdjustmentModal
      [] act.verb = "apply"    -> ApplyAdjustmentModal
      [] act.verb = "reverse"  -> ReverseAdjustmentModal
      [] act.verb = "withdraw" -> WithdrawDialog

--------------------------------------------------------------------------------
\* What the server does

AdjustmentAllowed(row, u, act) ==
    CASE act.verb \in {"request", "withdraw"} -> Has(u, "order.adjust.request")
      [] act.verb \in {"approve", "reject"} ->
            Has(u, "order.adjust.approve") /\ MakerChecker(u, row.adjustments[act.of])
      [] act.verb = "apply"   -> Has(u, "order.adjust.apply")
      [] act.verb = "reverse" ->
            Has(u, "order.adjust.reverse") /\ MakerChecker(u, row.adjustments[act.of])

Becomes(row, i, status) == [row EXCEPT !.adjustments[i].status = status]

\* Mutant of OneWaits: any number of requests wait for a decision.
OneWaitsNever(row) == FALSE

\* A request waits for a decision, or its mark is on the order.
OneWaits(row) ==
    row.order.pending \/ \E i \in DOMAIN row.adjustments : row.adjustments[i].status = "SUBMITTED"

\* Asked again with its key, a request is answered as before if it is the same.
createAdjustmentRequest(row, u, form) ==
    LET same == {i \in DOMAIN row.adjustments : row.adjustments[i].key = form.key}
        order == row.order
        made == NewAdjustment(u, form.reduction, Encroached(order, form.reduction), order.version, form.key)
    IN  IF same # {}
        THEN Checked(row, TRUE, \A i \in same : /\ row.adjustments[i].maker = u
                                                /\ row.adjustments[i].reduction = form.reduction, row)
        ELSE IF ~Eligible(order) \/ OneWaits(row) THEN Reply(row, "conflict")
        ELSE Checked(row, form.reduction <= fulfillableQuantity(order), TRUE,
                     [row EXCEPT !.adjustments = Append(@, made), !.order.pending = TRUE])

withdrawAdjustmentRequest(row, i) ==
    Checked(row, TRUE, row.adjustments[i].status = "SUBMITTED",
            [Becomes(row, i, "CANCELLED") EXCEPT !.order.pending = FALSE])

\* Mutant of MustAcknowledge: the box is for the page alone.
MustNotAcknowledge(order, adjustment) == FALSE

MustAcknowledge(order, adjustment) == Encroached(order, adjustment.reduction) > 0

approveAdjustment(row, u, i, form) ==
    LET adjustment == row.adjustments[i]
        ready == /\ adjustment.status = "SUBMITTED"
                 /\ adjustment.version = row.order.version
                 /\ evaluate(row.order, adjustment) \in {"READY", "WARNING_ALLOCATION"}
    IN  IF ~ready THEN Reply(row, "conflict")
        ELSE Checked(row, MustAcknowledge(row.order, adjustment) => form.acknowledged, TRUE,
                     [Becomes(row, i, "APPROVED") EXCEPT !.adjustments[i].checker = u,
                                                         !.order.pending = TRUE])

rejectAdjustment(row, u, i, form) ==
    Checked(row, form.reason = "enough", row.adjustments[i].status = "SUBMITTED",
            [Becomes(row, i, "REJECTED") EXCEPT !.adjustments[i].checker = u,
                                                !.order.pending = FALSE])

\* Allocations are released for what is not unallocated.
applyAdjustment(row, i) ==
    LET adjustment == row.adjustments[i]
        released == Encroached(row.order, adjustment.reduction)
    IN  Checked(row, TRUE,
                /\ adjustment.status = "APPROVED" /\ Eligible(row.order)
                /\ adjustment.reduction <= fulfillableQuantity(row.order)
                /\ released <= row.order.shelf,
                [Becomes(row, i, "APPLIED") EXCEPT
                    !.adjustments[i].at = row.order.version + 1,
                    !.order.cancelled = @ + adjustment.reduction, !.order.shelf = @ - released,
                    !.order.version = @ + 1, !.order.pending = FALSE])

\* The last one applied first, and what was to be released when it was requested must fit.
Reversible(row, i) ==
    LET adjustment == row.adjustments[i]
        order == row.order
    IN  /\ adjustment.status = "APPLIED" /\ order.status = "APPROVED"
        /\ \A j \in DOMAIN row.adjustments :
              row.adjustments[j].status = "APPLIED" => row.adjustments[j].at <= adjustment.at
        /\ order.cancelled >= adjustment.reduction
        /\ adjustment.affected > 0 =>
              order.shelf + order.picked + adjustment.affected
                 <= fulfillableQuantity(order) + adjustment.reduction

\* Mutant of reverseAdjustment: the units are ordered again and nothing is allocated.
ReverseUnallocated(row, i, form) ==
    LET adjustment == row.adjustments[i] IN
    Checked(row, form.reason = "enough", Reversible(row, i),
            [Becomes(row, i, "REVERSED") EXCEPT
                !.order.cancelled = @ - adjustment.reduction,
                !.order.version = @ + 1, !.order.pending = FALSE])

\* It is allocated again; another request that waits loses its mark on the order.
reverseAdjustment(row, i, form) ==
    LET adjustment == row.adjustments[i] IN
    Checked(row, form.reason = "enough", Reversible(row, i),
            [Becomes(row, i, "REVERSED") EXCEPT
                !.order.cancelled = @ - adjustment.reduction,
                !.order.shelf = @ + adjustment.affected,
                !.order.version = @ + 1, !.order.pending = FALSE])

AdjustmentServed(row, u, act, form) ==
    CASE act.verb = "request"  -> createAdjustmentRequest(row, u, form)
      [] act.verb = "withdraw" -> withdrawAdjustmentRequest(row, act.of)
      [] act.verb = "approve"  -> approveAdjustment(row, u, act.of, form)
      [] act.verb = "reject"   -> rejectAdjustment(row, u, act.of, form)
      [] act.verb = "apply"    -> applyAdjustment(row, act.of)
      [] act.verb = "reverse"  -> reverseAdjustment(row, act.of, form)
================================================================================
