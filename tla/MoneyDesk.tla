------------------------------- MODULE MoneyDesk -------------------------------
(***************************************************************************)
(* The pages on which staff handle money and what the server does with     *)
(* what they send: the payments of customers, the refunds of a credit      *)
(* note, the bills and payments of a supplier.  For each page, what is     *)
(* shown (a row), which buttons a row offers to a user, what its dialogs   *)
(* send, how its buttons are held while they wait, and the answer.         *)
(* StaffDesk puts users in front of them.                                  *)
(*                                                                         *)
(* Numbers of documents, dates and notes are left out, except for what a   *)
(* check looks at; an amount is a small natural number.                    *)
(***************************************************************************)
EXTENDS StaffRoles, SequencesExt

CONSTANT MaxAmount      \* bound: amounts typed

ASSUME MoneyAssumption == MaxAmount \in Nat \ {0}

\* How much is typed into a required box: less than the least the server takes, or enough.
Texts == {"short", "enough"}

--------------------------------------------------------------------------------
\* Payments of customers

\* A number is that of a cheque or a money order, 0 for cash.
PaymentDocument == [status : {"PENDING_VERIFICATION", "VERIFIED", "REJECTED", "REVERSED"},
                    number : 0..1, maker : Staff, checker : Staff \cup {"nobody"}]

NewPayment(u, number) ==
    [status |-> "PENDING_VERIFICATION", number |-> number, maker |-> u, checker |-> "nobody"]

PaymentOpened == {[payments |-> <<NewPayment(u, 1)>>] : u \in Staff}

\* The buttons of a row of the table, and of a card on a small screen.
PaymentTable(payment, i, u) ==
    Offer(i, {"verify", "reject"},
          payment.status = "PENDING_VERIFICATION" /\ Has(u, "payment.verify"))
    \cup Offer(i, {"reverse"}, payment.status = "VERIFIED" /\ Has(u, "payment.reverse"))

PaymentCards(payment, i, u) == PaymentTable(payment, i, u)

PaymentHeader(u) == Offer(0, {"record"}, Has(u, "payment.create"))

PaymentButtons(row, u) ==
    PaymentHeader(u) \cup
    UNION {PaymentTable(row.payments[i], i, u) \cup PaymentCards(row.payments[i], i, u) :
             i \in DOMAIN row.payments}

\* The dialog that records a payment: the browser wants its required boxes filled; the
\* scan of a cheque or money order is required by name only.
InstrumentFields == {[number |-> 0, scan |-> FALSE], [number |-> 1, scan |-> FALSE],
                     [number |-> 1, scan |-> TRUE]}

RecordPaymentDialog == InstrumentFields

RejectPaymentDialog == {[notes |-> text] : text \in Texts}

ReversePaymentDialog == {[notes |-> text] : text \in Texts}

\* Verification is asked for in a box of the browser and holds no button; the three dialogs
\* share one flag, which only a success and a list of errors put back.
PaymentFlag(verb) == IF verb = "verify" THEN NoFlag ELSE Flag("dialog", "outcome")

\* Mutant of NumberTaken: a payment that is not verified yet is not looked at.
NumberVerified(row, number) ==
    number # 0 /\ \E i \in DOMAIN row.payments :
        row.payments[i].number = number /\ row.payments[i].status = "VERIFIED"

\* A cheque or money order that is pending or verified cannot be recorded again.
NumberTaken(row, number) ==
    number # 0 /\ \E i \in DOMAIN row.payments :
        /\ row.payments[i].number = number
        /\ row.payments[i].status \in {"PENDING_VERIFICATION", "VERIFIED"}

\* Mutant of Pending: what was rejected can still be verified.
PendingUntilVerified(payment) == payment.status # "VERIFIED"

Pending(payment) == payment.status = "PENDING_VERIFICATION"

Decided(row, u, i, status) ==
    [row EXCEPT !.payments[i].status = status,
                !.payments[i].checker = IF status = "VERIFIED" THEN u ELSE @]

PaymentAllowed(row, u, act) ==
    CASE act.verb = "record"  -> Has(u, "payment.create")
      [] act.verb = "reverse" -> Has(u, "payment.reverse")
      [] OTHER -> Has(u, "payment.verify")

PaymentServed(row, u, act, form) ==
    LET i == act.of
        Decide(status, possible) ==
            Checked(row, act.verb = "verify" \/ form.notes = "enough", possible,
                    Decided(row, u, i, status))
    IN
    CASE act.verb = "record" ->
            Checked(row, (form.number = 0 \/ form.scan) /\ ~NumberTaken(row, form.number), TRUE,
                    [row EXCEPT !.payments = Append(@, NewPayment(u, form.number))])
      [] act.verb = "verify"  -> Decide("VERIFIED", Pending(row.payments[i]))
      [] act.verb = "reject"  -> Decide("REJECTED", Pending(row.payments[i]))
      [] act.verb = "reverse" -> Decide("REVERSED", row.payments[i].status = "VERIFIED")

--------------------------------------------------------------------------------
\* The refunds of a credit note

RefundDocument ==
    [status : {"REQUESTED", "UNDER_REVIEW", "APPROVED", "PROCESSED", "REJECTED", "CANCELLED"},
     amount : 1..MaxAmount, maker : Staff, checker : Staff \cup {"nobody"}]

NewRefund(u, amount) ==
    [status |-> "REQUESTED", amount |-> amount, maker |-> u, checker |-> "nobody"]

\* As v leaves it once he approved it.
ApprovedRefund(u, amount, v) ==
    [status |-> "APPROVED", amount |-> amount, maker |-> u, checker |-> v]

\* remaining is the balance of the credit note.  A new note, and one with two refunds that
\* were approved for what both found left.
NewCredit == [remaining |-> MaxAmount, refunds |-> <<>>]

TwiceApproved(u, v) ==
    [remaining |-> MaxAmount, refunds |-> <<ApprovedRefund(u, MaxAmount, v), ApprovedRefund(u, 1, v)>>]

CreditOpened == {NewCredit} \cup {TwiceApproved(u, v) : u \in Admins \cup Accountants, v \in Supers}

\* Part of the balance used up: PARTIALLY_REFUNDED; all of it: FULLY_REFUNDED.
CreditHeader(row) ==
    Offer(0, {"request"}, row.remaining > 0)

\* The dialog is filled with the balance the page knows; the browser keeps to it.
RequestRefundDialog(row) == {[amount |-> a] : a \in 1..row.remaining}

\* What the toolbar of a refund offers.  Whoever requested it reads a warning, and finds
\* the button that approves disabled; the ones that reject and cancel are not.
RefundToolbar(refund, i, u) ==
    Offer(i, {"review"}, refund.status = "REQUESTED")
    \cup Offer(i, {"approve"}, /\ refund.status \in {"REQUESTED", "UNDER_REVIEW"}
                               /\ refund.maker # u \/ u \in Supers)
    \cup Offer(i, {"reject"}, refund.status \in {"REQUESTED", "UNDER_REVIEW"})
    \cup Offer(i, {"cancel"}, refund.status \in {"REQUESTED", "UNDER_REVIEW", "APPROVED"})
    \cup Offer(i, {"process"}, refund.status = "APPROVED")

CreditButtons(row, u) ==
    CreditHeader(row) \cup
    UNION {RefundToolbar(row.refunds[i], i, u) : i \in DOMAIN row.refunds}

RejectRefundDialog == {[reason |-> "enough"]}
CancelRefundDialog == {[reason |-> text] : text \in Texts}
ProcessRefundDialog == {[reason |-> "enough"]}

\* Each button of the page has a form of its own, and each dialog closes on success.
RefundFlag(verb) == Flag(verb, "finish")

RefundAllowed(row, u, act) ==
    CASE act.verb = "request" -> Has(u, "refund.request")
      [] act.verb = "cancel"  -> \/ row.refunds[act.of].maker = u
                               \/ u \in Supers \cup Admins
      [] act.verb \in {"approve", "reject"} ->
            Has(u, "refund.approve") /\ MakerChecker(u, row.refunds[act.of])
      [] act.verb \in {"review", "process"} -> Has(u, "refund.approve")

UndecidedRefund(refund) == refund.status \in {"REQUESTED", "UNDER_REVIEW"}

\* Mutant of Covers: the balance is not looked at again.
CoversAnything(row, refund) == TRUE

\* What the credit note has left pays the refund.
Covers(row, refund) == refund.amount <= row.remaining

RefundServed(row, u, act, form) ==
    LET i == act.of
        refund == row.refunds[i]
        open == UndecidedRefund(refund)
        Becomes(status) == [row EXCEPT !.refunds[i].status = status]
    IN
    CASE act.verb = "request" ->
            Checked(row, row.remaining > 0 /\ form.amount <= row.remaining, TRUE,
                    [row EXCEPT !.refunds = Append(@, NewRefund(u, form.amount))])
      [] act.verb = "review" ->
            Checked(row, TRUE, refund.status = "REQUESTED", Becomes("UNDER_REVIEW"))
      [] act.verb = "approve" ->
            Checked(row, TRUE, open /\ Covers(row, refund),
                    [Becomes("APPROVED") EXCEPT !.refunds[i].checker = u])
      [] act.verb = "reject" -> Checked(row, TRUE, open, Becomes("REJECTED"))
      [] act.verb = "cancel" -> Checked(row, TRUE, open, Becomes("CANCELLED"))
      [] act.verb = "process" ->
            IF refund.status = "PROCESSED" THEN Reply(row, "done")
            ELSE Checked(row, TRUE, refund.status = "APPROVED" /\ Covers(row, refund),
                         [Becomes("PROCESSED") EXCEPT !.remaining = @ - refund.amount])

--------------------------------------------------------------------------------
\* The bills and payments of a supplier

BillDocument == [status : {"DRAFT", "POSTED", "PARTIALLY_PAID", "PAID"},
                 amount : 1..MaxAmount, due : 0..MaxAmount]

SupplierPaymentDocument ==
    [bill : Nat, amount : 1..MaxAmount, status : {"COMPLETED", "REVERSED"}]

SupplierOpened ==
    {[bills |-> <<[status |-> "POSTED", amount |-> MaxAmount, due |-> MaxAmount]>>, payments |-> <<>>]}

SupplierHeader == {On("bill", 0), On("pay", 0)}

BillsTab(bill, i) ==
    Offer(i, {"post"}, bill.status = "DRAFT")
    \cup Offer(i, {"pay"}, bill.status \in {"POSTED", "PARTIALLY_PAID"})

PaymentsTab(payment, i) ==
    Offer(i, {"reverse"}, payment.status = "COMPLETED")

SupplierButtons(row, u) ==
    SupplierHeader
    \cup (UNION {BillsTab(row.bills[i], i) : i \in DOMAIN row.bills})
    \cup (UNION {PaymentsTab(row.payments[i], i) : i \in DOMAIN row.payments})

\* Typing a subtotal or a tax sums them up; the box of the total is filled with the sum.
\* Bound: every bill comes to as much as the first.
SumOfBill(subtotal, tax) == subtotal + tax

CreateBillDialog ==
    {[total |-> SumOfBill(subtotal, tax), now |-> posted] :
        subtotal \in {MaxAmount}, tax \in {0}, posted \in BOOLEAN}

\* Choosing a bill fills in what it is due for as the page knows it; a payment may be on account.
\* Bound: what is paid on account is 1.
PaySupplierDialog(row) ==
    {[bill |-> 0, amount |-> 1]}
    \cup {[bill |-> b, amount |-> a] :
        b \in {i \in DOMAIN row.bills : row.bills[i].status \in {"POSTED", "PARTIALLY_PAID"}},
        a \in 1..MaxAmount}

\* The button wants a reason, the server one of five letters.
ReverseSupplierPaymentDialog == {[reason |-> text] : text \in Texts}

\* A draft is posted by a button that nothing holds; each dialog has a form of its own.
SupplierFlag(verb) == IF verb = "post" THEN NoFlag ELSE Flag(verb, "finish")

Paid(bill, amount) ==
    [bill EXCEPT !.due = @ - amount, !.status = IF bill.due = amount THEN "PAID" ELSE "PARTIALLY_PAID"]

\* Mutant of Restored: the bill stays paid.
RestoredStillPaid(bill, amount) == [bill EXCEPT !.due = @ + amount]

Restored(bill, amount) ==
    [bill EXCEPT !.due = @ + amount,
                 !.status = IF bill.due + amount = bill.amount THEN "POSTED" ELSE "PARTIALLY_PAID"]

recordSupplierPayment(row, form) ==
    LET recorded == [row EXCEPT !.payments =
                        Append(@, [bill |-> form.bill, amount |-> form.amount, status |-> "COMPLETED"])]
    IN  IF form.bill = 0 THEN recorded
        ELSE [recorded EXCEPT !.bills[form.bill] = Paid(@, form.amount)]

recordPaymentReversal(row, i) ==
    LET payment == row.payments[i]
        reversed == [row EXCEPT !.payments[i].status = "REVERSED"]
    IN  IF payment.bill = 0 THEN reversed
        ELSE [reversed EXCEPT !.bills[payment.bill] = Restored(@, payment.amount)]

\* The policy of a reversal reads the payment before it is locked.
SupplierAllowed(row, u, act) ==
    /\ Has(u, "payable.manage")
    /\ act.verb = "reverse" => row.payments[act.of].status = "COMPLETED"

\* Mutant of Payable: a bill is paid at one go.
PayableOnce(bill) == bill.status = "POSTED"

Payable(bill) == bill.status \in {"POSTED", "PARTIALLY_PAID"}

SupplierServed(row, u, act, form) ==
    LET i == act.of IN
    CASE act.verb = "bill" ->
            Reply([row EXCEPT !.bills =
                      Append(@, [status |-> IF form.now THEN "POSTED" ELSE "DRAFT",
                                 amount |-> form.total, due |-> form.total])], "done")
      [] act.verb = "post" ->
            Reply(IF row.bills[i].status = "DRAFT" THEN [row EXCEPT !.bills[i].status = "POSTED"]
                  ELSE row, "done")
      [] act.verb = "pay" ->
            Checked(row, form.bill = 0 \/ /\ Payable(row.bills[form.bill])
                                          /\ form.amount <= row.bills[form.bill].due,
                    TRUE, recordSupplierPayment(row, form))
      [] act.verb = "reverse" ->
            Checked(row, form.reason = "enough" /\ row.payments[i].status = "COMPLETED", TRUE,
                    recordPaymentReversal(row, i))
================================================================================
