------------------------------- MODULE StaffDesk -------------------------------
(***************************************************************************)
(* Users at the pages of MoneyDesk, FloorDesk and AdjustmentDesk, and the  *)
(* server that answers them.                                               *)
(*                                                                         *)
(* A page shows the row as it was when the page was sent, and stays as it  *)
(* is while others change the row.  A button opens a dialog or sends a     *)
(* request at once; a request is an Inertia visit, and a visit that starts *)
(* drops the one under way, whose request may still reach the server.  The *)
(* server first authorises the user on the row as it loads it, later does  *)
(* the rest in one transaction under a lock on the row.  Its answer is a   *)
(* success or a list of errors, both of which bring new props; a conflict, *)
(* which leaves the page as it is; or a page that denies, which takes the  *)
(* place of the page.  A request or its answer may be lost.                *)
(***************************************************************************)
EXTENDS MoneyDesk, FloorDesk, AdjustmentDesk, Sums

CONSTANTS
    Kinds,        \* the pages that are looked at, each in behaviours of its own
    MaxCalls,     \* bound: requests sent
    MaxDocuments  \* bound: documents a row gathers

ASSUME StaffDeskAssumption ==
    /\ Kinds \subseteq {"payment", "refund", "supplier", "order", "return", "exception",
                        "delivery", "adjustment"}
    /\ MaxCalls \in Nat /\ MaxDocuments \in Nat
    /\ IsFiniteSet(Users) /\ "nobody" \notin Users

VARIABLES
    kind,   \* the page that is looked at
    row,    \* what the database holds of it
    page,   \* what each user has before him
    calls   \* requests sent, oldest first

vars == <<kind, row, page, calls>>

--------------------------------------------------------------------------------
\* The pages

\* Whom the route of the page lets in.  A driver sees his own deliveries.
Visits(u) ==
    CASE kind = "payment"    -> Has(u, "payment.verify")
      [] kind = "refund"     -> Has(u, "refund.view") /\ Has(u, "credit.view")
      [] kind = "supplier"   -> Has(u, "payable.view")
      [] kind = "order"      -> u \in Staff
      [] kind = "return"     -> Has(u, "return.review")
      [] kind = "exception"  -> Has(u, "inventory.view")
      [] kind = "delivery"   -> Has(u, "delivery.view") /\ (u \in Drivers => row.driver = u)
      [] kind = "adjustment" -> Has(u, "order.adjust.review")

Opened(k) ==
    CASE k = "payment"    -> PaymentOpened
      [] k = "refund"     -> CreditOpened
      [] k = "supplier"   -> SupplierOpened
      [] k = "order"      -> OrderOpened
      [] k = "return"     -> ReturnOpened
      [] k = "exception"  -> ExceptionOpened
      [] k = "delivery"   -> DeliveryOpened
      [] k = "adjustment" -> AdjustmentOpened

Buttons(r, u) ==
    CASE kind = "payment"    -> PaymentButtons(r, u)
      [] kind = "refund"     -> CreditButtons(r, u)
      [] kind = "supplier"   -> SupplierButtons(r, u)
      [] kind = "order"      -> OrderButtons(r, u)
      [] kind = "return"     -> ReturnButtons(r, u)
      [] kind = "exception"  -> ExceptionTable(r, u)
      [] kind = "delivery"   -> DeliveryButtons(r, u)
      [] kind = "adjustment" -> AdjustmentButtons(r, u)

Elsewhere(r) ==
    CASE kind = "order"      -> OrderElsewhere(r)
      [] kind = "return"     -> ReturnElsewhere(r)
      [] kind = "delivery"   -> DeliveryElsewhere(r)
      [] kind = "adjustment" -> AdjustmentElsewhere(r)
      [] OTHER -> {}

\* The one thing a button without a dialog sends.
AtOnce == {[reason |-> "none"]}

\* What the dialog behind a button can send.
PaymentDialog(act) ==
    CASE act.verb = "record"  -> RecordPaymentDialog
      [] act.verb = "reject"  -> RejectPaymentDialog
      [] act.verb = "reverse" -> ReversePaymentDialog
      [] OTHER -> AtOnce

RefundDialog(r, act) ==
    CASE act.verb = "request" -> RequestRefundDialog(r)
      [] act.verb = "reject"  -> RejectRefundDialog
      [] act.verb = "cancel"  -> CancelRefundDialog
      [] act.verb = "process" -> ProcessRefundDialog
      [] OTHER -> AtOnce

SupplierDialog(r, act) ==
    CASE act.verb = "bill"    -> CreateBillDialog
      [] act.verb = "pay"     -> PaySupplierDialog(r)
      [] act.verb = "reverse" -> ReverseSupplierPaymentDialog
      [] OTHER -> AtOnce

ReturnDialog(r, act) ==
    CASE act.verb = "inspect" -> InspectReturnModal
      [] act.verb = "approve" -> ApproveReturnModal(r)
      [] act.verb = "reject"  -> handleReject
      [] OTHER -> AtOnce

DeliveryDialog(act) ==
    CASE act.verb = "complete"   -> DeliveryCompleteModal
      [] act.verb = "fail"       -> DeliveryFailureModal
      [] act.verb = "reschedule" -> DeliveryRescheduleModal
      [] act.verb = "return"     -> DeliveryReturnModal
      [] act.verb = "assign"     -> AssignDeliveryModal
      [] OTHER -> AtOnce

Dialog(r, act, key) ==
    CASE kind = "payment"    -> PaymentDialog(act)
      [] kind = "refund"     -> RefundDialog(r, act)
      [] kind = "supplier"   -> SupplierDialog(r, act)
      [] kind = "order"      -> IF act.verb = "approve" THEN ApproveOrderModal ELSE RejectOrderModal
      [] kind = "return"     -> ReturnDialog(r, act)
      [] kind = "exception"  -> IF act.verb = "resolve" THEN ResolveDialog ELSE DismissDialog
      [] kind = "delivery"   -> DeliveryDialog(act)
      [] kind = "adjustment" -> AdjustmentDialog(r, act, key)

FlagOf(act) ==
    CASE kind = "payment"    -> PaymentFlag(act.verb)
      [] kind = "refund"     -> RefundFlag(act.verb)
      [] kind = "supplier"   -> SupplierFlag(act.verb)
      [] kind = "return"     -> ReturnFlag(act.verb)
      [] kind = "exception"  -> Flag(act.verb, "finish")
      [] kind = "delivery"   -> DeliveryFlag(act.verb)
      [] kind \in {"order", "adjustment"} -> ModalFlag

Nothing == On("nothing", 0)
NoRow == [reason |-> "none"]

Closed == [open |-> FALSE, shows |-> NoRow, dialog |-> Nothing, key |-> 0, waits |-> 0, held |-> {}]

Shown == [Closed EXCEPT !.open = TRUE, !.shows = row]

Spent == [by |-> "nobody", act |-> Nothing, form |-> NoRow, seen |-> NoRow, stage |-> "over",
          answer |-> "none"]

Init ==
    /\ kind \in Kinds
    /\ row \in Opened(kind)
    /\ page = [u \in Users |-> Closed]
    /\ calls = <<>>

--------------------------------------------------------------------------------
\* What a user does

\* He opens the page or loads it anew; what he waited for may still be served.
Load(u) ==
    /\ Visits(u)
    /\ page' = [page EXCEPT ![u] = Shown]
    /\ UNCHANGED <<kind, row, calls>>

Offered(u, act) ==
    /\ page[u].open /\ page[u].dialog = Nothing
    /\ act \in Buttons(page[u].shows, u)
    /\ FlagOf(act) \notin page[u].held

\* What is cleared when a request for act ends, answered or not.
Cleared(act, answer) ==
    {f \in {FlagOf(act)} : f.cleared = "finish" \/ answer \in {"done", "invalid"}}

\* The visit under way is dropped, which ends it for the page.
Send(u, act, form) ==
    LET dropped == IF page[u].waits = 0 THEN {} ELSE Cleared(calls[page[u].waits].act, "none")
    IN
    /\ Len(calls) < MaxCalls
    /\ calls' = Append(calls, [by |-> u, act |-> act, form |-> form, seen |-> page[u].shows,
                               stage |-> "sent", answer |-> "none"])
    /\ page' = [page EXCEPT ![u].waits = Len(calls) + 1,
                            ![u].held = (@ \ dropped) \cup ({FlagOf(act)} \ {NoFlag})]
    /\ UNCHANGED <<kind, row>>

\* A button that sends at once.
Press(u, act) ==
    /\ Offered(u, act)
    /\ Dialog(page[u].shows, act, 0) = AtOnce
    /\ \E form \in AtOnce : Send(u, act, form)

\* The idempotency key made for a dialog is one that nobody has.
KeysUsed ==
    {page[u].key : u \in Users}
    \cup {calls[i].form.key : i \in {j \in DOMAIN calls : "key" \in DOMAIN calls[j].form}}
    \cup {row.adjustments[i].key : i \in IF kind = "adjustment" THEN DOMAIN row.adjustments ELSE {}}

Open(u, act) ==
    /\ Offered(u, act)
    /\ Dialog(page[u].shows, act, 0) # AtOnce
    /\ page' = [page EXCEPT ![u].dialog = act,
                            ![u].key = IF kind = "adjustment" /\ act.verb = "request"
                                       THEN CHOOSE k \in 1..(Cardinality(KeysUsed) + 1) : k \notin KeysUsed
                                       ELSE 0]
    /\ UNCHANGED <<kind, row, calls>>

\* Not while its button says that it works, where the page sees to that.
Dismiss(u) ==
    /\ page[u].dialog # Nothing /\ ModalFlag \notin page[u].held
    /\ page' = [page EXCEPT ![u].dialog = Nothing, ![u].key = 0,
                            ![u].held = @ \ (IF page[u].dialog.verb = "assign" THEN {FlagOf(page[u].dialog)} ELSE {})]
    /\ UNCHANGED <<kind, row, calls>>

Confirm(u, form) ==
    /\ page[u].dialog # Nothing /\ FlagOf(page[u].dialog) \notin page[u].held
    /\ Send(u, page[u].dialog, form)

--------------------------------------------------------------------------------
\* What the server does

Allowed(u, act) ==
    CASE kind = "payment"    -> PaymentAllowed(row, u, act)
      [] kind = "refund"     -> RefundAllowed(row, u, act)
      [] kind = "supplier"   -> SupplierAllowed(row, u, act)
      [] kind = "order"      -> OrderAllowed(row, u, act)
      [] kind = "return"     -> ReturnAllowed(row, u, act)
      [] kind = "exception"  -> ExceptionAllowed(row, u, act)
      [] kind = "delivery"   -> DeliveryAllowed(row, u, act)
      [] kind = "adjustment" -> AdjustmentAllowed(row, u, act)

Handled(u, act, form) ==
    CASE kind = "payment"    -> PaymentServed(row, u, act, form)
      [] kind = "refund"     -> RefundServed(row, u, act, form)
      [] kind = "supplier"   -> SupplierServed(row, u, act, form)
      [] kind = "order"      -> OrderServed(row, u, act, form)
      [] kind = "return"     -> ReturnServed(row, u, act, form)
      [] kind = "exception"  -> ExceptionServed(row, u, act, form)
      [] kind = "delivery"   -> DeliveryServed(row, u, act, form)
      [] kind = "adjustment" -> AdjustmentServed(row, u, act, form)

Awaited(i) == \E u \in Users : page[u].waits = i

Answer(i, answer) ==
    calls' = [calls EXCEPT ![i] = IF Awaited(i) THEN [@ EXCEPT !.stage = "answered", !.answer = answer]
                                  ELSE Spent]

\* The user is authorised on the row as it is loaded, before the transaction.
Admit(i) ==
    /\ calls[i].stage = "sent"
    /\ IF Allowed(calls[i].by, calls[i].act)
       THEN calls' = [calls EXCEPT ![i].stage = "admitted"]
       ELSE Answer(i, "denied")
    /\ UNCHANGED <<kind, row, page>>

Documents(r) ==
    CASE kind = "payment"    -> Len(r.payments)
      [] kind = "refund"     -> Len(r.refunds)
      [] kind = "supplier"   -> Max({Len(r.bills), Len(r.payments)})
      [] kind = "adjustment" -> Len(r.adjustments)
      [] OTHER -> 0

Serve(i) ==
    LET reply == Handled(calls[i].by, calls[i].act, calls[i].form) IN
    /\ calls[i].stage = "admitted"
    /\ Documents(reply.row) <= MaxDocuments
    /\ row' = reply.row
    /\ Answer(i, reply.answer)
    /\ UNCHANGED <<kind, page>>

\* Others change what the page is about.
Meanwhile ==
    /\ row' \in Elsewhere(row)
    /\ UNCHANGED <<kind, page, calls>>

--------------------------------------------------------------------------------
\* What comes back to a user

Return(u) ==
    LET i == page[u].waits
        call == calls[i]
        over == [page[u] EXCEPT !.waits = 0, !.held = @ \ Cleared(call.act, call.answer)]
    IN
    /\ i # 0 /\ call.stage = "answered"
    /\ page' = [page EXCEPT ![u] =
         IF call.answer = "conflict" THEN over
         ELSE IF call.answer = "denied" \/ ~Visits(u) THEN Closed
         ELSE IF call.answer = "done" /\ over.dialog = call.act
         THEN [over EXCEPT !.shows = row, !.dialog = Nothing, !.key = 0]
         ELSE [over EXCEPT !.shows = row]]
    /\ calls' = [calls EXCEPT ![i] = Spent]
    /\ UNCHANGED <<kind, row>>

\* The request or its answer is lost; a page that waits is told of a network error.
Lose(i) ==
    /\ calls[i].stage # "over"
    /\ page' = [u \in Users |->
         IF page[u].waits # i THEN page[u]
         ELSE [page[u] EXCEPT !.waits = 0, !.held = @ \ Cleared(calls[i].act, "none")]]
    /\ calls' = [calls EXCEPT ![i] = Spent]
    /\ UNCHANGED <<kind, row>>

--------------------------------------------------------------------------------
\* The specification

UserNext(u) ==
    \/ Load(u) \/ Dismiss(u) \/ Return(u)
    \/ /\ page[u].open
       /\ \E act \in Buttons(page[u].shows, u) : Press(u, act) \/ Open(u, act)
    \/ /\ page[u].dialog # Nothing
       /\ \E form \in Dialog(page[u].shows, page[u].dialog, page[u].key) : Confirm(u, form)

Next ==
    \/ \E u \in Users : UserNext(u)
    \/ \E i \in DOMAIN calls : Admit(i) \/ Serve(i) \/ Lose(i)
    \/ Meanwhile

Spec == Init /\ [][Next]_vars

--------------------------------------------------------------------------------
\* Properties

Serving(i) == i \in DOMAIN calls /\ calls[i].stage = "admitted" /\ calls'[i] # calls[i]

\* What the buttons of a page do.
Verbs(k) ==
    CASE k = "payment"    -> {"record", "verify", "reject", "reverse"}
      [] k = "refund"     -> {"request", "review", "approve", "reject", "cancel", "process"}
      [] k = "supplier"   -> {"bill", "post", "pay", "reverse"}
      [] k = "order"      -> {"approve", "reject"}
      [] k = "return"     -> {"inspect", "approve", "reject", "cancel"}
      [] k = "exception"  -> {"resolve", "dismiss"}
      [] k = "delivery"   -> DriverVerbs \cup {"assign"}
      [] k = "adjustment" -> {"request", "withdraw", "approve", "reject", "apply", "reverse"}

\* What a page has before it and what a request carries have the types of their page.
DeskTypeOK ==
    /\ kind \in Kinds
    /\ \A u \in Users :
          /\ page[u].open \/ page[u] = Closed
          /\ page[u].waits \in 0..Len(calls)
          /\ page[u].waits # 0 => calls[page[u].waits].by = u
          /\ page[u].dialog # Nothing => page[u].dialog.verb \in Verbs(kind)
    /\ \A i \in DOMAIN calls :
          calls[i].stage # "over" =>
             /\ calls[i].act.verb \in Verbs(kind) /\ calls[i].by \in Users
             /\ calls[i].stage = "answered" <=> calls[i].answer # "none"

\* However stale the page a request comes from, the row changes only by what a page loaded
\* now would offer the same user; for a delivery, its driver.  A page never offers to
\* reschedule what can be picked up, though the service takes it; a dialog opened for one
\* bill may pay another.
StaleClicksAreHarmless ==
    [][\A i \in DOMAIN calls :
         (Serving(i) /\ row' # row) =>
            LET act == calls[i].act IN
            \/ {act, On(act.verb, 0)} \cap Buttons(row, calls[i].by) # {}
            \/ /\ kind = "delivery" /\ calls[i].by \in Drivers
               /\ act.verb = "reschedule" \/ act \in Buttons(row, row.driver)]_vars

\* Where a page offers what the server will not take.  Texts may be too short, and what
\* else is refused although nothing has changed is listed for each page.
PaymentOverpromised(r, act, form) ==
    \/ act.verb \in {"reject", "reverse"} /\ form.notes = "short"
    \/ act.verb = "record" /\ form.number # 0 /\ (~form.scan \/ NumberTaken(r, form.number))

RefundOverpromised(r, u, act) ==
    LET refund == r.refunds[act.of] IN
    \/ act.verb = "reject" /\ ~MakerChecker(u, refund)
    \/ act.verb = "cancel" /\ (refund.status = "APPROVED" \/ (refund.maker # u /\ u \in Accountants))
    \/ act.verb \in {"approve", "process"} /\ refund.amount > r.remaining

SupplierOverpromised(r, act, form) ==
    \/ act.verb = "reverse" /\ form.reason = "short"
    \/ act.verb = "pay" /\ form.bill # 0 /\ form.amount > r.bills[form.bill].due

ReturnOverpromised(r, u, act, form) ==
    \/ act.verb = "reject" /\ form.reason = "short"
    \/ act.verb \in {"approve", "reject"} /\ ~MakerChecker(u, r)
    \/ act.verb = "approve" /\ form.good + form.damaged > r.left
    \/ act.verb \in {"cancel", "approve", "reject"} /\ u \in Accountants

DeliveryOverpromised(r, act) == act.verb = "assign" /\ ~(r.open /\ r.shelf)

\* A dialog whose key was used, by a request the page dropped, asks for what was asked then.
AdjustmentOverpromised(r, act, form) ==
    LET adjustment == r.adjustments[act.of]
        released == Encroached(r.order, adjustment.reduction)
    IN
    \/ act.verb = "request" /\ \E i \in DOMAIN r.adjustments :
          r.adjustments[i].status = "SUBMITTED" \/ r.adjustments[i].key = form.key
    \/ act.verb = "approve" /\ released > 0 /\ adjustment.version # r.order.version
    \/ act.verb = "apply" /\ (released > r.order.shelf \/ adjustment.reduction > fulfillableQuantity(r.order))
    \/ act.verb = "reverse" /\ ~Reversible(r, act.of)

Overpromised(r, u, act, form) ==
    CASE kind = "payment"    -> PaymentOverpromised(r, act, form)
      [] kind = "refund"     -> RefundOverpromised(r, u, act)
      [] kind = "supplier"   -> SupplierOverpromised(r, act, form)
      [] kind = "order"      -> FALSE
      [] kind = "return"     -> ReturnOverpromised(r, u, act, form)
      [] kind = "exception"  -> form.text = "short"
      [] kind = "delivery"   -> DeliveryOverpromised(r, act)
      [] kind = "adjustment" -> AdjustmentOverpromised(r, act, form)

\* What a page offers on the row as it is, the server does: whatever the row has been
\* through, no other request than those named above is refused that a page in date
\* invited.
OfferedIsAccepted ==
    [][\A i \in DOMAIN calls :
         (/\ i \in DOMAIN calls' /\ calls'[i].stage = "answered" /\ calls[i].stage # "answered"
          /\ calls[i].seen = row /\ calls'[i].answer # "done"
          /\ calls[i].act \in Buttons(row, calls[i].by))
            => Overpromised(row, calls[i].by, calls[i].act, calls[i].form)]_vars

\* Whoever is recorded as the one who approved a refund, a return or an adjustment is not
\* the one who asked for it, but for a SUPER_ADMIN (the segregation of duties of the three
\* workflow services).  Who then processes, applies or reverses it is not looked at.
Decisions(r) ==
    CASE kind = "refund"     -> {r.refunds[i] : i \in DOMAIN r.refunds}
      [] kind = "return"     -> {r}
      [] kind = "adjustment" -> {r.adjustments[i] : i \in DOMAIN r.adjustments}
      [] OTHER -> {}

CheckedByAnother ==
    \A d \in Decisions(row) :
        d.status \in {"APPROVED", "PROCESSED", "APPLIED", "REVERSED"} =>
            d.checker # "nobody" /\ (d.checker # d.maker \/ d.maker \in Supers)

\* What the documents of a status come to.
Amounts(documents, status) ==
    [i \in DOMAIN documents |-> IF documents[i].status = status THEN documents[i].amount ELSE 0]

SumOf(documents, status) == SumOver(Amounts(documents, status), DOMAIN documents)

\* A credit note pays out no more than it is worth, and its balance says what is left:
\* approvals that each fit do not fit together, and requests come twice.
CreditNotOverspent ==
    kind = "refund" => /\ row.remaining >= 0
                       /\ row.remaining + SumOf(row.refunds, "PROCESSED") = MaxAmount

\* What is paid of bill b.
Payments(payments, b) ==
    [i \in DOMAIN payments |->
        IF payments[i].bill = b /\ payments[i].status = "COMPLETED" THEN payments[i].amount ELSE 0]

PaidFor(payments, b) == SumOver(Payments(payments, b), DOMAIN payments)

\* A bill is due for what its payments have not covered and has the status that goes with
\* that, whatever is paid and reversed from pages that do not know of each other.
BillsAddUp ==
    kind = "supplier" =>
        \A b \in DOMAIN row.bills :
            LET bill == row.bills[b]
                paid == PaidFor(row.payments, b)
            IN  /\ bill.due = bill.amount - paid /\ bill.due >= 0
                /\ bill.status = "PAID" <=> bill.due = 0
                /\ bill.status \in {"DRAFT", "POSTED"} <=> paid = 0

\* A cheque or money order is alive once: a form sent again because its answer was lost, or
\* by two who hold the same scan, is not recorded again.
InstrumentRecordedOnce ==
    kind = "payment" =>
        \A i, j \in DOMAIN row.payments :
            ({row.payments[i].status, row.payments[j].status} \subseteq {"PENDING_VERIFICATION", "VERIFIED"}
             /\ row.payments[i].number = 1 /\ row.payments[j].number = 1) => i = j

\* What each adjustment takes off the order.
Reductions(adjustments) ==
    [i \in DOMAIN adjustments |-> IF adjustments[i].status = "APPLIED" THEN adjustments[i].reduction ELSE 0]

\* What was picked is not cancelled, and the order is reduced by what its applied
\* adjustments say, however often it was reduced, restored and picked in between.
ReductionsAddUp ==
    kind = "adjustment" =>
        LET order == row.order IN
        /\ order.shelf + order.picked <= fulfillableQuantity(order)
        /\ order.cancelled = SumOver(Reductions(row.adjustments), DOMAIN row.adjustments)

\* A dialog requests one adjustment, however often its button is pressed, and one request
\* at a time waits for a decision (the idempotency key, the single-open rule).
RequestedOnce ==
    kind = "adjustment" =>
        \A i, j \in DOMAIN row.adjustments :
            i # j => /\ row.adjustments[i].key # row.adjustments[j].key
                     /\ {row.adjustments[i].status, row.adjustments[j].status} # {"SUBMITTED"}

\* Whoever approves a reduction that takes back allocated goods has been shown that it does,
\* though the order may have been allocated since his page was loaded.
ImpactWasShown ==
    [][\A i \in DOMAIN calls :
         (kind = "adjustment" /\ Serving(i) /\ calls[i].act.verb = "approve" /\ row' # row)
            => LET reduction == row.adjustments[calls[i].act.of].reduction IN
               Encroached(row.order, reduction) > 0 => Encroached(calls[i].seen.order, reduction) > 0]_vars

\* What the reversal of each adjustment gave back to the order and did not allocate again.
NotAllocatedAgain(adjustments) ==
    [i \in DOMAIN adjustments |->
        IF adjustments[i].status = "REVERSED" THEN adjustments[i].reduction - adjustments[i].affected ELSE 0]

\* Once an order is approved, all that it still orders is allocated or picked, however often
\* it is reduced, picked and restored, but for what reversals gave back: they allocate what was
\* affected when the adjustment was requested, which is nothing for an order that was approved
\* only later, and not what applying it released.
AllocatedInFull ==
    (kind = "adjustment" /\ row.order.status # "SUBMITTED") =>
        unallocatedQuantity(row.order)
            <= SumOver(NotAllocatedAgain(row.adjustments), DOMAIN row.adjustments)
================================================================================
