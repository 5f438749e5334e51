------------------------------ MODULE Settlement -------------------------------
(***************************************************************************)
(* How one customer's orders are paid: payments are recorded, verified,    *)
(* rejected, corrected and reversed by different people; orders are        *)
(* invoiced once; approved adjustments lower an order's total and can be   *)
(* taken back; and every event is entered in the receivable ledger and     *)
(* posted to the general ledger.                                           *)
(*                                                                         *)
(* A method locks customer, order and payment and re-reads them before it  *)
(* writes, so each is one action.  Of the order workflow and of            *)
(* adjustments, only what they do to these columns is here.  Amounts are   *)
(* in cents.  Credit notes and refunds are not modelled.                   *)
(***************************************************************************)
EXTENDS Integers, Sequences, Sums

CONSTANTS
    Orders,          \* orders of the customer
    NoOrder,         \* the order of a payment on account
    Instruments,     \* cheques and money orders, each a bank or issuer with a number
    Cash,            \* the instrument of a cash payment
    OrderTotals,     \* grand totals an order may be submitted with
    Amounts,         \* amounts a payment may be recorded with
    Reductions,      \* amounts an adjustment may take off an order
    MaxPayments,     \* bound: payment rows
    MaxAdjustments   \* bound: adjustments applied to an order at a time

ASSUME SettlementAssumption ==
    /\ IsFiniteSet(Orders)
    /\ NoOrder \notin Orders
    /\ Cash \notin Instruments
    /\ OrderTotals \subseteq Nat
    /\ Amounts \subseteq Nat \ {0}
    /\ Reductions \subseteq Nat \ {0}
    /\ MaxPayments \in Nat
    /\ MaxAdjustments \in Nat

VARIABLES
    order,      \* orders: status, totals and payment status
    applied,    \* order_adjustments that are APPLIED: their reductions, oldest first
    payments,   \* payments, oldest first
    invoice,    \* the invoice of each order
    ledger,     \* receivable_transactions
    journals    \* journal_entries

vars == <<order, applied, payments, invoice, ledger, journals>>

--------------------------------------------------------------------------------
\* Rows and their types

OrderStatus == {"SUBMITTED", "APPROVED", "CANCELLED", "REJECTED"}

PaymentStatus == {"UNPAID", "PARTIALLY_PAID", "PAID", "OVERPAID"}

PaymentTransactionStatus == {"PENDING_VERIFICATION", "VERIFIED", "REJECTED", "REVERSED"}

\* subtotal and tax_total always add up to grand_total, line by line.
OrderRows == [status : OrderStatus, grand_total : Nat, adjustment_total : Nat,
              payment_status : PaymentStatus]

Payments == [order : Orders \cup {NoOrder}, instrument : Instruments \cup {Cash},
             amount : Nat \ {0}, status : PaymentTransactionStatus]

Invoices == [issued : BOOLEAN, grand_total : Nat, amount_due : Nat]

NoInvoice == [issued |-> FALSE, grand_total |-> 0, amount_due |-> 0]

\* amount is debit_amount - credit_amount; (type, id) is unique.
Entries == [type : {"INVOICE_CHARGE", "PAYMENT", "PAYMENT_REVERSAL"}, id : Orders \cup Nat,
            amount : Int]

Entry(type, id, amount) == [type |-> type, id |-> id, amount |-> amount]

\* receivable is debit - credit on account 1100, cash or revenue being its
\* opposite; (event, id, kind) is unique, the event of a REVERSAL being its
\* original's with a prefix.
Journals == [event : {"INVOICE_ISSUED", "PAYMENT_VERIFIED", "PAYMENT_REVERSED"},
             id : Orders \cup Nat, kind : {"SYSTEM", "REVERSAL"}, receivable : Int,
             status : {"POSTED", "REVERSED"}]

Journal(event, id, kind, receivable, status) ==
    [event |-> event, id |-> id, kind |-> kind, receivable |-> receivable, status |-> status]

AtLeastZero(n) == IF n < 0 THEN 0 ELSE n

\* What the payment p counts for towards the order o.
VerifiedFor(p, o) == IF p.order = o /\ p.status = "VERIFIED" THEN p.amount ELSE 0

VerifiedSum(ps, o) == SumOver([i \in DOMAIN ps |-> VerifiedFor(ps[i], o)], DOMAIN ps)

StatusOf(paid, total) ==
    CASE paid = 0     -> "UNPAID"
      [] 0 < paid /\ paid < total -> "PARTIALLY_PAID"
      [] 0 < paid /\ paid = total -> "PAID"
      [] OTHER        -> "OVERPAID"

Init ==
    /\ \E total \in [Orders -> OrderTotals] :
          order = [o \in Orders |-> [status |-> "SUBMITTED", grand_total |-> total[o],
                                     adjustment_total |-> 0, payment_status |-> "UNPAID"]]
    /\ applied = [o \in Orders |-> <<>>]
    /\ payments = <<>>
    /\ invoice = [o \in Orders |-> NoInvoice]
    /\ ledger = {}
    /\ journals = {}

--------------------------------------------------------------------------------
\* ReceivableLedgerService and JournalService: every posting happens once.

\* Mutant of SignedAmount: a bounced payment is entered on the side of a receipt.
CreditedReversal(type, amount) == IF type = "INVOICE_CHARGE" THEN amount ELSE -amount

SignedAmount(type, amount) == IF type = "PAYMENT" THEN -amount ELSE amount

Enter(type, id, amount) ==
    ledger' = IF \E r \in ledger : r.type = type /\ r.id = id
              THEN ledger
              ELSE ledger \cup {Entry(type, id, SignedAmount(type, amount))}

\* Mutant of SameSource: a payment that has a journal gets no other one.
SameDocument(j, event, id, kind) == j.id = id

SameSource(j, event, id, kind) == j.event = event /\ j.id = id /\ j.kind = kind

Posted(js, event, id, kind, receivable) ==
    IF \E j \in js : SameSource(j, event, id, kind)
    THEN js
    ELSE js \cup {Journal(event, id, kind, receivable, "POSTED")}

PostJournal(event, id, receivable) ==
    journals' = Posted(journals, event, id, "SYSTEM", receivable)

--------------------------------------------------------------------------------
\* PaymentService, PaymentVerificationService and PaymentReversalService

\* A cheque or money order that is pending or verified cannot be recorded again.
Unused(instrument) ==
    instrument \in Instruments =>
       \A i \in DOMAIN payments :
          payments[i].instrument = instrument
          => payments[i].status \notin {"PENDING_VERIFICATION", "VERIFIED"}

RecordPayment(o, instrument, amount) ==
    /\ Len(payments) < MaxPayments
    /\ o \in Orders => order[o].status # "CANCELLED"
    /\ Unused(instrument)
    /\ payments' = Append(payments, [order |-> o, instrument |-> instrument, amount |-> amount,
                                     status |-> "PENDING_VERIFICATION"])
    /\ UNCHANGED <<order, applied, invoice, ledger, journals>>

PaymentStatusAfter(row, ps, o) == StatusOf(VerifiedSum(ps, o), row.grand_total)

\* Mutant of Decide: the order is reconciled only when its verified sum moves.
DecideIfMoved(i, status) ==
    LET ps == [payments EXCEPT ![i].status = status]
        o == payments[i].order
    IN  /\ payments' = ps
        /\ order' = IF o \in Orders /\ VerifiedSum(ps, o) # VerifiedSum(payments, o)
                    THEN [order EXCEPT ![o].payment_status = PaymentStatusAfter(order[o], ps, o)]
                    ELSE order

\* The payment gets its new status and the order it is for is reconciled.
Decide(i, status) ==
    LET ps == [payments EXCEPT ![i].status = status]
        o == payments[i].order
    IN  /\ payments' = ps
        /\ order' = IF o \in Orders
                    THEN [order EXCEPT ![o].payment_status = PaymentStatusAfter(order[o], ps, o)]
                    ELSE order

VerifyPayment(i) ==
    /\ payments[i].status = "PENDING_VERIFICATION"
    /\ Decide(i, "VERIFIED")
    /\ Enter("PAYMENT", i, payments[i].amount)
    /\ PostJournal("PAYMENT_VERIFIED", i, -payments[i].amount)
    /\ UNCHANGED <<applied, invoice>>

RejectPayment(i) ==
    /\ payments[i].status = "PENDING_VERIFICATION"
    /\ Decide(i, "REJECTED")
    /\ UNCHANGED <<applied, invoice, ledger, journals>>

ReversePayment(i) ==
    /\ payments[i].status = "VERIFIED"
    /\ Decide(i, "REVERSED")
    /\ Enter("PAYMENT_REVERSAL", i, payments[i].amount)
    /\ PostJournal("PAYMENT_REVERSED", i, payments[i].amount)
    /\ UNCHANGED <<applied, invoice>>

\* Mutant of Correctable: a bounced payment can be corrected and used again.
CorrectableAfterReversal(i) == payments[i].status \in {"REJECTED", "REVERSED"}

Correctable(i) == payments[i].status = "REJECTED"

\* Only the payment is locked, and nobody looks for duplicates.
CorrectAndResubmitPayment(i, instrument, amount) ==
    /\ Correctable(i)
    /\ instrument = Cash <=> payments[i].instrument = Cash
    /\ payments' = [payments EXCEPT ![i].status = "PENDING_VERIFICATION",
                                    ![i].instrument = instrument,
                                    ![i].amount = amount]
    /\ UNCHANGED <<order, applied, invoice, ledger, journals>>

--------------------------------------------------------------------------------
\* InvoiceGeneratorService

\* The journal of an invoice: the total (and a discount, for a negative
\* adjustment) against revenue and tax (and an extra charge, for a positive one).
\* A journal that is empty or does not balance aborts the invoice.
InvoiceBalances(row) ==
    LET debits == row.grand_total + AtLeastZero(-row.adjustment_total)
        credits == row.grand_total + AtLeastZero(row.adjustment_total)
    IN  row.grand_total > 0 /\ debits = credits

GenerateInvoice(o) ==
    /\ ~ invoice[o].issued
    /\ order[o].status = "APPROVED"
    /\ InvoiceBalances(order[o])
    /\ LET total == order[o].grand_total
       IN  /\ invoice' = [invoice EXCEPT ![o] =
                 [issued |-> TRUE, grand_total |-> total,
                  amount_due |-> AtLeastZero(total - VerifiedSum(payments, o))]]
           /\ Enter("INVOICE_CHARGE", o, total)
           /\ PostJournal("INVOICE_ISSUED", o, total)
    /\ UNCHANGED <<order, applied, payments>>

--------------------------------------------------------------------------------
\* JournalReversalService: an accountant reverses a posted journal by hand.

ReverseJournal(j) ==
    /\ j.status = "POSTED"
    /\ j.kind # "REVERSAL"
    /\ journals' = Posted((journals \ {j}) \cup {[j EXCEPT !.status = "REVERSED"]},
                          j.event, j.id, "REVERSAL", -j.receivable)
    /\ UNCHANGED <<order, applied, payments, invoice, ledger>>

--------------------------------------------------------------------------------
\* What the order workflow and adjustments do to these columns.

ApproveOrder(o) ==
    /\ order[o].status = "SUBMITTED"
    /\ order' = [order EXCEPT ![o].status = "APPROVED"]
    /\ UNCHANGED <<applied, payments, invoice, ledger, journals>>

RejectOrder(o) ==
    /\ order[o].status = "SUBMITTED"
    /\ order' = [order EXCEPT ![o].status = "REJECTED"]
    /\ UNCHANGED <<applied, payments, invoice, ledger, journals>>

CancelOrder(o) ==
    /\ order[o].status \notin {"CANCELLED", "REJECTED"}
    /\ order' = [order EXCEPT ![o].status = "CANCELLED"]
    /\ UNCHANGED <<applied, payments, invoice, ledger, journals>>

\* Mutant of Reducible: the quantities of a request are not checked again when
\* it is applied.
ReducibleUnchecked(o, reduction) == order[o].status \in {"SUBMITTED", "APPROVED"}

Reducible(o, reduction) ==
    /\ order[o].status \in {"SUBMITTED", "APPROVED"}
    /\ reduction <= order[o].grand_total

ApplyAdjustment(o, reduction) ==
    /\ Len(applied[o]) < MaxAdjustments
    /\ Reducible(o, reduction)
    /\ order' = [order EXCEPT ![o].grand_total = @ - reduction,
                              ![o].adjustment_total = @ + reduction]
    /\ applied' = [applied EXCEPT ![o] = Append(@, reduction)]
    /\ UNCHANGED <<payments, invoice, ledger, journals>>

\* The latest applied adjustment only.
ReverseAdjustment(o) ==
    /\ order[o].status = "APPROVED"
    /\ applied[o] # <<>>
    /\ LET reduction == applied[o][Len(applied[o])]
       IN  order' = [order EXCEPT ![o].grand_total = @ + reduction,
                                  ![o].adjustment_total = AtLeastZero(@ - reduction)]
    /\ applied' = [applied EXCEPT ![o] = SubSeq(@, 1, Len(@) - 1)]
    /\ UNCHANGED <<payments, invoice, ledger, journals>>

--------------------------------------------------------------------------------
\* The specification

PaymentNext ==
    \/ \E o \in Orders \cup {NoOrder}, instrument \in Instruments \cup {Cash}, amount \in Amounts :
          RecordPayment(o, instrument, amount)
    \/ \E i \in DOMAIN payments :
          \/ VerifyPayment(i)
          \/ RejectPayment(i)
          \/ ReversePayment(i)
          \/ \E instrument \in Instruments \cup {Cash}, amount \in Amounts :
                CorrectAndResubmitPayment(i, instrument, amount)

OrderNext ==
    \E o \in Orders :
       \/ ApproveOrder(o)
       \/ RejectOrder(o)
       \/ CancelOrder(o)
       \/ \E reduction \in Reductions : ApplyAdjustment(o, reduction)
       \/ ReverseAdjustment(o)
       \/ GenerateInvoice(o)

Next ==
    \/ PaymentNext
    \/ OrderNext
    \/ \E j \in journals : ReverseJournal(j)

Spec == Init /\ [][Next]_vars

--------------------------------------------------------------------------------
\* What is read from these rows

\* ReceivableLedgerService::getCustomerFinancialSummary: invoices and verified
\* payments.  It adds orders not yet invoiced, which the ledger does not have.
Debit(inv) == IF inv.issued THEN inv.grand_total ELSE 0

InvoiceDebits == SumOver([o \in Orders |-> Debit(invoice[o])], Orders)

\* Mutant of Credit: the statement keeps counting a payment that bounced.
CreditOnceVerified(p) == IF p.status \in {"VERIFIED", "REVERSED"} THEN p.amount ELSE 0

Credit(p) == IF p.status = "VERIFIED" THEN p.amount ELSE 0

VerifiedCredits == SumOver([i \in DOMAIN payments |-> Credit(payments[i])], DOMAIN payments)

\* GeneralLedgerService: the journals that count are the POSTED ones.
GeneralLedger(js) == SumOver([j \in js |-> j.receivable], {j \in js : j.status = "POSTED"})

--------------------------------------------------------------------------------
\* Properties

\* Every row is well typed: in particular no adjustment takes a total below zero.
SettlementTypeOK ==
    /\ order \in [Orders -> OrderRows]
    /\ applied \in [Orders -> Seq(Nat \ {0})]
    /\ payments \in Seq(Payments)
    /\ invoice \in [Orders -> Invoices]
    /\ ledger \subseteq Entries
    /\ journals \subseteq Journals

\* The receivable ledger holds one charge per invoice, one receipt per payment
\* that was ever verified and one reversal per reversed payment, for the amounts
\* those rows have now, and nothing else: no path of a payment through
\* rejection, correction and reversal leaves a stale, missing or second entry.
LedgerFollowsDocuments ==
    \A r \in ledger :
       \/ /\ r.type = "INVOICE_CHARGE"
          /\ r.id \in Orders /\ invoice[r.id].issued
          /\ r.amount = invoice[r.id].grand_total
       \/ /\ r.type = "PAYMENT"
          /\ r.id \in DOMAIN payments /\ payments[r.id].status \in {"VERIFIED", "REVERSED"}
          /\ r.amount = -payments[r.id].amount
       \/ /\ r.type = "PAYMENT_REVERSAL"
          /\ r.id \in DOMAIN payments /\ payments[r.id].status = "REVERSED"
          /\ r.amount = payments[r.id].amount

DocumentsAreEntered ==
    /\ \A o \in Orders : invoice[o].issued =>
          Entry("INVOICE_CHARGE", o, invoice[o].grand_total) \in ledger
    /\ \A i \in DOMAIN payments :
          /\ payments[i].status \in {"VERIFIED", "REVERSED"} =>
                Entry("PAYMENT", i, -payments[i].amount) \in ledger
          /\ payments[i].status = "REVERSED" =>
                Entry("PAYMENT_REVERSAL", i, payments[i].amount) \in ledger

LedgerIsExact == LedgerFollowsDocuments /\ DocumentsAreEntered

EventOf(type) ==
    CASE type = "INVOICE_CHARGE" -> "INVOICE_ISSUED"
      [] type = "PAYMENT" -> "PAYMENT_VERIFIED"
      [] OTHER -> "PAYMENT_REVERSED"

\* j is the journal the system posted for the ledger entry r.
Records(j, r) ==
    /\ j.kind = "SYSTEM" /\ j.event = EventOf(r.type) /\ j.id = r.id
    /\ j.receivable = r.amount

\* Every ledger entry has its journal on account 1100 and every system journal
\* its entry, for the same amount, and what an accountant reversed is posted
\* once more with the opposite sign, also when the payment behind it is
\* reversed before or after.
JournalsFollowLedger ==
    /\ \A r \in ledger : \E j \in journals : Records(j, r)
    /\ \A j \in journals : j.kind = "SYSTEM" => \E r \in ledger : Records(j, r)
    /\ \A j \in journals : j.kind = "REVERSAL" =>
          \E k \in journals : /\ SameSource(k, j.event, j.id, "SYSTEM")
                             /\ k.status = "REVERSED" /\ k.receivable = -j.receivable

\* The customer's statement and the receivable ledger, computed from different
\* tables, agree: invoices less verified payments is the sum of the entries.
SummaryReconciles ==
    InvoiceDebits - VerifiedCredits = SumOver([r \in ledger |-> r.amount], ledger)

\* A payment of the order o is verified, rejected or reversed in this step.
Decided(o) ==
    \E i \in DOMAIN payments :
       /\ payments[i].order = o
       /\ payments'[i].status \notin {payments[i].status, "PENDING_VERIFICATION"}

\* Whenever what is verified for an order changes, and with every decision on one
\* of its payments, a rejection too, the order's payment status becomes the one of
\* the verified sum: whatever adjustments to the total left behind is put right.
StatusFollowsVerifiedSum ==
    [][ \A o \in Orders :
           (Decided(o) \/ VerifiedSum(payments', o) # VerifiedSum(payments, o))
           => order'[o].payment_status = StatusOf(VerifiedSum(payments', o), order'[o].grand_total)
      ]_vars

Account == INSTANCE ReceivableAccount WITH entries <- ledger

\* The ledger implements the account: entries are permanent, an event is entered
\* once and a reversal is the opposite of its receipt.
AccountRefined == Account!Spec

--------------------------------------------------------------------------------
\* What the documents promise and the code does not keep

\* "An offsetting compensating journal entry": what the general ledger counts for
\* a journal that was reversed, with its reversal, is nothing.
ReversalOffsets ==
    \A j \in journals :
       j.status = "REVERSED" =>
          GeneralLedger({k \in journals : k.event = j.event /\ k.id = j.id}) = 0
================================================================================
