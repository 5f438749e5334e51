--------------------------- MODULE Settlement_proofs ---------------------------
(***************************************************************************)
(* Theorems about Settlement: the receivable ledger and its journals always *)
(* agree with the documents behind them, for any orders, instruments,      *)
(* amounts and bounds, and the ledger implements ReceivableAccount.        *)
(***************************************************************************)
EXTENDS Settlement, Sums_proofs

\* The part of SettlementTypeOK the proofs use: all but amount_due, whose type
\* rests on a sum over a set of payments.
RowsTyped ==
    /\ order \in [Orders -> OrderRows]
    /\ applied \in [Orders -> Seq(Nat \ {0})]
    /\ payments \in Seq(Payments)
    /\ invoice = [o \in Orders |-> invoice[o]]
    /\ \A o \in Orders : invoice[o].issued \in BOOLEAN /\ invoice[o].grand_total \in Nat
    /\ ledger \subseteq Entries
    /\ journals \subseteq Journals

\* An issued invoice has a total: an empty journal aborts it.
InvoicesCharge == \A o \in Orders : invoice[o].issued => invoice[o].grand_total > 0

SettlementInv == RowsTyped /\ InvoicesCharge /\ LedgerIsExact /\ JournalsFollowLedger

EntryTypes == {"INVOICE_CHARGE", "PAYMENT", "PAYMENT_REVERSAL"}

NotEntered(type, id) == \A r \in ledger : ~ (r.type = type /\ r.id = id)

--------------------------------------------------------------------------------
\* Lemmas about the helpers

\* An order's payment status is always one of the four.
LEMMA StatusTyped ==
    ASSUME NEW paid, NEW total
    PROVE  StatusOf(paid, total) \in PaymentStatus
  BY DEF StatusOf, PaymentStatus

\* An event that was not entered is entered, with its sign.
LEMMA EnterNew ==
    ASSUME NEW type, NEW id, NEW amount, NotEntered(type, id), Enter(type, id, amount)
    PROVE  ledger' = ledger \cup {Entry(type, id, SignedAmount(type, amount))}
  BY DEF NotEntered, Enter

\* An entry and a journal have the fields they are made of.
LEMMA EntryFields ==
    ASSUME NEW type \in EntryTypes, NEW id \in Orders \cup Nat, NEW amount \in Int
    PROVE  /\ Entry(type, id, amount) \in Entries
           /\ Entry(type, id, amount).type = type
           /\ Entry(type, id, amount).id = id
           /\ Entry(type, id, amount).amount = amount
  BY DEF Entry, Entries, EntryTypes

LEMMA JournalFields ==
    ASSUME NEW event \in {"INVOICE_ISSUED", "PAYMENT_VERIFIED", "PAYMENT_REVERSED"},
           NEW id \in Orders \cup Nat, NEW kind \in {"SYSTEM", "REVERSAL"},
           NEW amount \in Int, NEW status \in {"POSTED", "REVERSED"}
    PROVE  /\ Journal(event, id, kind, amount, status) \in Journals
           /\ Journal(event, id, kind, amount, status).event = event
           /\ Journal(event, id, kind, amount, status).id = id
           /\ Journal(event, id, kind, amount, status).kind = kind
           /\ Journal(event, id, kind, amount, status).receivable = amount
           /\ Journal(event, id, kind, amount, status).status = status
  BY DEF Journal, Journals

\* Different entry types are different events.
LEMMA EventsDiffer ==
    ASSUME NEW s \in EntryTypes, NEW t \in EntryTypes
    PROVE  /\ EventOf(s) \in {"INVOICE_ISSUED", "PAYMENT_VERIFIED", "PAYMENT_REVERSED"}
           /\ EventOf(s) = EventOf(t) => s = t
  BY DEF EventOf, EntryTypes

\* Entering an event and posting its journal keeps ledger and journals in step.
LEMMA PostingKeepsStep ==
    ASSUME ledger \subseteq Entries, journals \subseteq Journals, JournalsFollowLedger,
           NEW type \in EntryTypes, NEW id \in Orders \cup Nat, NEW a \in Int,
           NotEntered(type, id),
           ledger' = ledger \cup {Entry(type, id, a)},
           PostJournal(EventOf(type), id, a)
    PROVE  /\ ledger' \subseteq Entries
           /\ journals' \subseteq Journals
           /\ JournalsFollowLedger'
<1> DEFINE e == Entry(type, id, a)
           n == Journal(EventOf(type), id, "SYSTEM", a, "POSTED")
<1>1. e \in Entries /\ e.type = type /\ e.id = id /\ e.amount = a
  BY EntryFields
<1>2. EventOf(type) \in {"INVOICE_ISSUED", "PAYMENT_VERIFIED", "PAYMENT_REVERSED"}
  BY EventsDiffer
<1>3. /\ n \in Journals /\ n.event = EventOf(type) /\ n.id = id /\ n.kind = "SYSTEM"
      /\ n.receivable = a
  BY <1>2, JournalFields
<1> HIDE DEF e, n
<1>4. \A r \in ledger : r.type \in EntryTypes
  BY DEF Entries, EntryTypes
<1>5. ~ \E j \in journals : SameSource(j, EventOf(type), id, "SYSTEM")
  <2> SUFFICES ASSUME NEW j \in journals, SameSource(j, EventOf(type), id, "SYSTEM")
               PROVE  FALSE
    OBVIOUS
  <2>1. PICK r \in ledger : Records(j, r)
    BY DEF JournalsFollowLedger, SameSource
  <2>2. r.id = id /\ EventOf(r.type) = EventOf(type)
    BY <2>1 DEF Records, SameSource
  <2>3. r.type = type
    BY <2>2, <1>4, EventsDiffer
  <2> QED
    BY <2>2, <2>3 DEF NotEntered
<1>6. journals' = journals \cup {n}
  BY <1>5 DEF PostJournal, Posted, n
<1>7. ledger' = ledger \cup {e}
  BY DEF e
<1>8. Records(n, e)
  BY <1>1, <1>3 DEF Records
<1>9. \A r \in ledger' : \E j \in journals' : Records(j, r)
  BY <1>6, <1>7, <1>8 DEF JournalsFollowLedger
<1>10. \A j \in journals' : j.kind = "SYSTEM" => \E r \in ledger' : Records(j, r)
  BY <1>6, <1>7, <1>8 DEF JournalsFollowLedger
<1>11. \A j \in journals' : j.kind = "REVERSAL" =>
          \E k \in journals' : /\ SameSource(k, j.event, j.id, "SYSTEM")
                              /\ k.status = "REVERSED" /\ k.receivable = -j.receivable
  BY <1>6, <1>3 DEF JournalsFollowLedger
<1>12. JournalsFollowLedger'
  BY <1>9, <1>10, <1>11 DEF JournalsFollowLedger, Records, SameSource
<1> QED
  BY <1>1, <1>3, <1>6, <1>7, <1>12

--------------------------------------------------------------------------------
\* Payments

\* A payment's rows are typed.
LEMMA PaymentRow ==
    ASSUME RowsTyped, NEW i \in DOMAIN payments
    PROVE  /\ i \in Nat /\ payments[i] \in Payments
           /\ payments[i].amount \in Nat \ {0} /\ payments[i].amount \in Int
           /\ payments[i].status \in PaymentTransactionStatus
<1>1. payments \in Seq(Payments) /\ i \in 1 .. Len(payments)
  BY DEF RowsTyped
<1>2. i \in Nat /\ payments[i] \in Payments
  BY <1>1
<1> QED
  BY <1>2 DEF Payments

\* A decision changes the status of one payment, and of orders the payment status.
LEMMA DecideStatus ==
    ASSUME RowsTyped, NEW i \in DOMAIN payments, NEW status \in PaymentTransactionStatus,
           Decide(i, status)
    PROVE  /\ payments' \in Seq(Payments) /\ DOMAIN payments' = DOMAIN payments
           /\ \A k \in DOMAIN payments : payments'[k].amount = payments[k].amount
           /\ payments'[i].status = status
           /\ \A k \in DOMAIN payments : k # i => payments'[k].status = payments[k].status
           /\ order' \in [Orders -> OrderRows]
<1> DEFINE o == payments[i].order
           ps == [payments EXCEPT ![i].status = status]
           s == PaymentStatusAfter(order[o], ps, o)
<1>1. payments' = ps /\ order' = IF o \in Orders THEN [order EXCEPT ![o].payment_status = s] ELSE order
  BY DEF Decide
<1>2. s \in PaymentStatus
  BY StatusTyped DEF PaymentStatusAfter
<1> HIDE DEF s
<1>3. order' \in [Orders -> OrderRows]
  BY <1>1, <1>2 DEF RowsTyped, OrderRows
<1>4. payments \in Seq(Payments)
  BY DEF RowsTyped
<1>5. [payments[i] EXCEPT !.status = status] \in Payments
  BY PaymentRow DEF Payments
<1>6. /\ payments' = [payments EXCEPT ![i] = [payments[i] EXCEPT !.status = status]]
      /\ DOMAIN payments' = DOMAIN payments
  BY <1>1, <1>4
<1>7. payments' \in Seq(Payments)
  BY <1>4, <1>5, <1>6
<1>8. /\ \A k \in DOMAIN payments : k # i => payments'[k] = payments[k]
      /\ payments'[i] = [payments[i] EXCEPT !.status = status]
  BY <1>4, <1>6
<1>9. payments'[i].status = status /\ payments'[i].amount = payments[i].amount
  BY <1>4, <1>8 DEF Payments
<1> QED
  BY <1>3, <1>6, <1>7, <1>8, <1>9

\* Recording appends a pending payment, which has no entries.
LEMMA RecordPaymentKeeps ==
    ASSUME SettlementAssumption, SettlementInv,
           NEW o \in Orders \cup {NoOrder}, NEW instrument \in Instruments \cup {Cash},
           NEW amount \in Amounts, RecordPayment(o, instrument, amount)
    PROVE  SettlementInv'
<1> DEFINE new == [order |-> o, instrument |-> instrument, amount |-> amount,
                   status |-> "PENDING_VERIFICATION"]
<1>1. payments \in Seq(Payments) /\ new \in Payments /\ new.status = "PENDING_VERIFICATION"
  BY DEF SettlementInv, RowsTyped, SettlementAssumption, Payments, PaymentTransactionStatus
<1>2. payments' = Append(payments, new)
  BY DEF RecordPayment
<1> HIDE DEF new
<1>3. /\ payments' \in Seq(Payments)
      /\ DOMAIN payments' = DOMAIN payments \cup {Len(payments) + 1}
      /\ payments'[Len(payments) + 1] = new
      /\ \A k \in DOMAIN payments : k \in DOMAIN payments' /\ payments'[k] = payments[k]
  BY <1>1, <1>2
<1>4. UNCHANGED <<order, applied, invoice, ledger, journals>>
  BY DEF RecordPayment
<1>5. RowsTyped' /\ InvoicesCharge'
  BY <1>3, <1>4 DEF SettlementInv, RowsTyped, InvoicesCharge
<1>6. LedgerFollowsDocuments'
  BY <1>3, <1>4 DEF SettlementInv, LedgerIsExact, LedgerFollowsDocuments
<1>7. DocumentsAreEntered'
  BY <1>1, <1>3, <1>4 DEF SettlementInv, LedgerIsExact, DocumentsAreEntered
<1>8. JournalsFollowLedger'
  BY <1>4 DEF SettlementInv, JournalsFollowLedger, Records, SameSource
<1> QED
  BY <1>5, <1>6, <1>7, <1>8 DEF SettlementInv, LedgerIsExact

\* A pending payment has no entries, one that is not reversed has no reversal.
LEMMA PendingNotEntered ==
    ASSUME LedgerIsExact, NEW i, payments[i].status \in {"PENDING_VERIFICATION", "REJECTED"}
    PROVE  NotEntered("PAYMENT", i) /\ NotEntered("PAYMENT_REVERSAL", i)
  BY DEF LedgerIsExact, LedgerFollowsDocuments, NotEntered

LEMMA VerifiedNotReversed ==
    ASSUME LedgerIsExact, NEW i, payments[i].status = "VERIFIED"
    PROVE  NotEntered("PAYMENT_REVERSAL", i)
  BY DEF LedgerIsExact, LedgerFollowsDocuments, NotEntered

\* Verification enters a receipt for the payment and posts its journal.
LEMMA VerifyPaymentKeeps ==
    ASSUME SettlementInv, NEW i \in DOMAIN payments, VerifyPayment(i)
    PROVE  /\ SettlementInv'
           /\ NotEntered("PAYMENT", i)
           /\ ledger' = ledger \cup {Entry("PAYMENT", i, -payments[i].amount)}
<1> DEFINE a == -payments[i].amount
<1>1. RowsTyped /\ LedgerIsExact /\ JournalsFollowLedger
  BY DEF SettlementInv
<1>2. i \in Orders \cup Nat /\ a \in Int /\ "PAYMENT" \in EntryTypes
  BY <1>1, PaymentRow DEF EntryTypes
<1>3. payments[i].status = "PENDING_VERIFICATION" /\ Decide(i, "VERIFIED")
  BY DEF VerifyPayment
<1>4. NotEntered("PAYMENT", i)
  BY <1>1, <1>3, PendingNotEntered
<1>5. ledger' = ledger \cup {Entry("PAYMENT", i, a)}
  BY <1>4, EnterNew DEF VerifyPayment, SignedAmount
<1>6. PostJournal(EventOf("PAYMENT"), i, a)
  BY DEF VerifyPayment, EventOf
<1>7. Entry("PAYMENT", i, a).type = "PAYMENT" /\ Entry("PAYMENT", i, a).id = i
      /\ Entry("PAYMENT", i, a).amount = a
  BY <1>2, EntryFields
<1>8. /\ payments' \in Seq(Payments) /\ DOMAIN payments' = DOMAIN payments
      /\ \A k \in DOMAIN payments : payments'[k].amount = payments[k].amount
      /\ payments'[i].status = "VERIFIED"
      /\ \A k \in DOMAIN payments : k # i => payments'[k].status = payments[k].status
      /\ order' \in [Orders -> OrderRows]
  BY <1>1, <1>3, DecideStatus DEF PaymentTransactionStatus
<1>9. ledger' \subseteq Entries /\ journals' \subseteq Journals /\ JournalsFollowLedger'
  BY <1>1, <1>2, <1>4, <1>5, <1>6, PostingKeepsStep DEF RowsTyped
<1>10. UNCHANGED <<applied, invoice>>
  BY DEF VerifyPayment
<1>11. RowsTyped' /\ InvoicesCharge'
  BY <1>8, <1>9, <1>10 DEF SettlementInv, RowsTyped, InvoicesCharge
<1>12. LedgerFollowsDocuments'
  BY <1>1, <1>3, <1>5, <1>7, <1>8, <1>10 DEF LedgerIsExact, LedgerFollowsDocuments
<1>13. DocumentsAreEntered'
  BY <1>1, <1>3, <1>5, <1>8, <1>10 DEF LedgerIsExact, DocumentsAreEntered
<1> QED
  BY <1>4, <1>5, <1>9, <1>11, <1>12, <1>13 DEF SettlementInv, LedgerIsExact

\* A rejected payment was pending, so there is nothing to take back.
LEMMA RejectPaymentKeeps ==
    ASSUME SettlementInv, NEW i \in DOMAIN payments, RejectPayment(i)
    PROVE  SettlementInv'
<1>1. RowsTyped /\ LedgerIsExact /\ JournalsFollowLedger
  BY DEF SettlementInv
<1>2. payments[i].status = "PENDING_VERIFICATION" /\ Decide(i, "REJECTED")
  BY DEF RejectPayment
<1>3. /\ payments' \in Seq(Payments) /\ DOMAIN payments' = DOMAIN payments
      /\ \A k \in DOMAIN payments : payments'[k].amount = payments[k].amount
      /\ payments'[i].status = "REJECTED"
      /\ \A k \in DOMAIN payments : k # i => payments'[k].status = payments[k].status
      /\ order' \in [Orders -> OrderRows]
  BY <1>1, <1>2, DecideStatus DEF PaymentTransactionStatus
<1>4. UNCHANGED <<applied, invoice, ledger, journals>>
  BY DEF RejectPayment
<1>5. RowsTyped' /\ InvoicesCharge'
  BY <1>3, <1>4 DEF SettlementInv, RowsTyped, InvoicesCharge
<1>6. LedgerFollowsDocuments'
  BY <1>1, <1>2, <1>3, <1>4 DEF LedgerIsExact, LedgerFollowsDocuments
<1>7. DocumentsAreEntered'
  BY <1>1, <1>3, <1>4 DEF LedgerIsExact, DocumentsAreEntered
<1>8. JournalsFollowLedger'
  BY <1>1, <1>4 DEF JournalsFollowLedger, Records, SameSource
<1> QED
  BY <1>5, <1>6, <1>7, <1>8 DEF SettlementInv, LedgerIsExact

\* A reversal finds the receipt of the payment and enters its opposite.
LEMMA ReversePaymentKeeps ==
    ASSUME SettlementInv, NEW i \in DOMAIN payments, ReversePayment(i)
    PROVE  /\ SettlementInv'
           /\ NotEntered("PAYMENT_REVERSAL", i)
           /\ Entry("PAYMENT", i, -payments[i].amount) \in ledger
           /\ ledger' = ledger \cup {Entry("PAYMENT_REVERSAL", i, payments[i].amount)}
<1> DEFINE a == payments[i].amount
<1>1. RowsTyped /\ LedgerIsExact /\ JournalsFollowLedger
  BY DEF SettlementInv
<1>2. i \in Orders \cup Nat /\ a \in Int /\ "PAYMENT_REVERSAL" \in EntryTypes
  BY <1>1, PaymentRow DEF EntryTypes
<1>3. payments[i].status = "VERIFIED" /\ Decide(i, "REVERSED")
  BY DEF ReversePayment
<1>4. NotEntered("PAYMENT_REVERSAL", i)
  BY <1>1, <1>3, VerifiedNotReversed
<1>5. ledger' = ledger \cup {Entry("PAYMENT_REVERSAL", i, a)}
  BY <1>4, EnterNew DEF ReversePayment, SignedAmount
<1>6. PostJournal(EventOf("PAYMENT_REVERSAL"), i, a)
  BY DEF ReversePayment, EventOf
<1>7. Entry("PAYMENT_REVERSAL", i, a).type = "PAYMENT_REVERSAL"
      /\ Entry("PAYMENT_REVERSAL", i, a).id = i /\ Entry("PAYMENT_REVERSAL", i, a).amount = a
  BY <1>2, EntryFields
<1>8. /\ payments' \in Seq(Payments) /\ DOMAIN payments' = DOMAIN payments
      /\ \A k \in DOMAIN payments : payments'[k].amount = payments[k].amount
      /\ payments'[i].status = "REVERSED"
      /\ \A k \in DOMAIN payments : k # i => payments'[k].status = payments[k].status
      /\ order' \in [Orders -> OrderRows]
  BY <1>1, <1>3, DecideStatus DEF PaymentTransactionStatus
<1>9. ledger' \subseteq Entries /\ journals' \subseteq Journals /\ JournalsFollowLedger'
  BY <1>1, <1>2, <1>4, <1>5, <1>6, PostingKeepsStep DEF RowsTyped
<1>10. UNCHANGED <<applied, invoice>>
  BY DEF ReversePayment
<1>11. RowsTyped' /\ InvoicesCharge'
  BY <1>8, <1>9, <1>10 DEF SettlementInv, RowsTyped, InvoicesCharge
<1>12. LedgerFollowsDocuments'
  BY <1>1, <1>3, <1>5, <1>7, <1>8, <1>10 DEF LedgerIsExact, LedgerFollowsDocuments
<1>13. Entry("PAYMENT", i, -payments[i].amount) \in ledger
  BY <1>1, <1>3 DEF LedgerIsExact, DocumentsAreEntered
<1>14. DocumentsAreEntered'
  BY <1>1, <1>5, <1>8, <1>10, <1>13 DEF LedgerIsExact, DocumentsAreEntered
<1> QED
  BY <1>4, <1>5, <1>9, <1>11, <1>12, <1>13, <1>14 DEF SettlementInv, LedgerIsExact

\* A correction is only for a rejected payment, whose amount no entry holds.
LEMMA CorrectKeeps ==
    ASSUME SettlementAssumption, SettlementInv, NEW i \in DOMAIN payments,
           NEW instrument \in Instruments \cup {Cash}, NEW amount \in Amounts,
           CorrectAndResubmitPayment(i, instrument, amount)
    PROVE  SettlementInv'
<1> DEFINE row == [order |-> payments[i].order, instrument |-> instrument, amount |-> amount,
                   status |-> "PENDING_VERIFICATION"]
<1>1. RowsTyped /\ LedgerIsExact /\ JournalsFollowLedger
  BY DEF SettlementInv
<1>2. payments[i].status = "REJECTED"
  BY DEF CorrectAndResubmitPayment, Correctable
<1>3. payments \in Seq(Payments) /\ payments[i] \in Payments
  BY <1>1, PaymentRow DEF RowsTyped
<1>4. payments' = [payments EXCEPT ![i].status = "PENDING_VERIFICATION",
                                   ![i].instrument = instrument, ![i].amount = amount]
  BY DEF CorrectAndResubmitPayment
<1>5. row \in Payments /\ row.status = "PENDING_VERIFICATION"
  BY <1>3 DEF SettlementAssumption, Payments, PaymentTransactionStatus
<1>6. /\ DOMAIN payments' = DOMAIN payments
      /\ \A k \in DOMAIN payments : k # i => payments'[k] = payments[k]
      /\ payments'[i] = row
  <2>1. DOMAIN payments' = DOMAIN payments /\ \A k \in DOMAIN payments : k # i => payments'[k] = payments[k]
    BY <1>3, <1>4
  <2>2. payments'[i] = [payments[i] EXCEPT !.status = "PENDING_VERIFICATION",
                                           !.instrument = instrument, !.amount = amount]
    BY <1>3, <1>4
  <2>3. payments'[i] = row
    BY <1>3, <2>2 DEF Payments
  <2> QED
    BY <2>1, <2>3
<1> HIDE DEF row
<1>7. payments' \in Seq(Payments)
  <2>1. \A k \in DOMAIN payments : payments'[k] \in Payments
    BY <1>3, <1>5, <1>6
  <2>2. payments' = [payments EXCEPT ![i] = row]
    BY <1>3, <1>4, <1>6
  <2> QED
    BY <1>3, <1>5, <2>2
<1>8. UNCHANGED <<order, applied, invoice, ledger, journals>>
  BY DEF CorrectAndResubmitPayment
<1>9. RowsTyped' /\ InvoicesCharge'
  BY <1>7, <1>8 DEF SettlementInv, RowsTyped, InvoicesCharge
<1>10. LedgerFollowsDocuments'
  BY <1>1, <1>2, <1>6, <1>8 DEF LedgerIsExact, LedgerFollowsDocuments
<1>11. DocumentsAreEntered'
  BY <1>1, <1>5, <1>6, <1>8 DEF LedgerIsExact, DocumentsAreEntered
<1>12. JournalsFollowLedger'
  BY <1>1, <1>8 DEF JournalsFollowLedger, Records, SameSource
<1> QED
  BY <1>9, <1>10, <1>11, <1>12 DEF SettlementInv, LedgerIsExact

--------------------------------------------------------------------------------
\* Invoices and journals

\* An invoice is issued once, so its order has no charge yet.
LEMMA GenerateInvoiceKeeps ==
    ASSUME SettlementInv, NEW o \in Orders, GenerateInvoice(o)
    PROVE  /\ SettlementInv'
           /\ NotEntered("INVOICE_CHARGE", o)
           /\ order[o].grand_total \in Nat \ {0}
           /\ ledger' = ledger \cup {Entry("INVOICE_CHARGE", o, order[o].grand_total)}
<1> DEFINE total == order[o].grand_total
           due == AtLeastZero(total - VerifiedSum(payments, o))
<1>1. RowsTyped /\ LedgerIsExact /\ JournalsFollowLedger
  BY DEF SettlementInv
<1>2. total \in Nat
  BY <1>1 DEF RowsTyped, OrderRows
<1>3. total > 0 /\ ~ invoice[o].issued
  BY DEF GenerateInvoice, InvoiceBalances
<1>4. NotEntered("INVOICE_CHARGE", o)
  BY <1>1, <1>3 DEF LedgerIsExact, LedgerFollowsDocuments, NotEntered
<1>5. ledger' = ledger \cup {Entry("INVOICE_CHARGE", o, total)}
  BY <1>4, EnterNew DEF GenerateInvoice, SignedAmount
<1>6. PostJournal(EventOf("INVOICE_CHARGE"), o, total)
  BY DEF GenerateInvoice, EventOf
<1>7. invoice' = [invoice EXCEPT ![o] = [issued |-> TRUE, grand_total |-> total, amount_due |-> due]]
  BY DEF GenerateInvoice
<1>8. UNCHANGED <<order, applied, payments>>
  BY DEF GenerateInvoice
<1>9. o \in Orders \cup Nat /\ total \in Int /\ "INVOICE_CHARGE" \in EntryTypes
  BY <1>2 DEF EntryTypes
<1>10. Entry("INVOICE_CHARGE", o, total).type = "INVOICE_CHARGE"
       /\ Entry("INVOICE_CHARGE", o, total).id = o /\ Entry("INVOICE_CHARGE", o, total).amount = total
  BY <1>9, EntryFields
<1>11. ledger' \subseteq Entries /\ journals' \subseteq Journals /\ JournalsFollowLedger'
  BY <1>1, <1>4, <1>5, <1>6, <1>9, PostingKeepsStep DEF RowsTyped
<1> HIDE DEF total, due
<1>12. /\ invoice' = [x \in Orders |-> invoice'[x]]
       /\ invoice'[o].issued = TRUE /\ invoice'[o].grand_total = total
       /\ \A x \in Orders : x # o => invoice'[x] = invoice[x]
  BY <1>1, <1>7 DEF RowsTyped
<1>13. RowsTyped' /\ InvoicesCharge'
  BY <1>1, <1>2, <1>3, <1>8, <1>11, <1>12 DEF SettlementInv, RowsTyped, InvoicesCharge
<1>14. LedgerFollowsDocuments'
  BY <1>1, <1>3, <1>5, <1>8, <1>10, <1>12 DEF LedgerIsExact, LedgerFollowsDocuments
<1>15. DocumentsAreEntered'
  BY <1>1, <1>5, <1>8, <1>12 DEF LedgerIsExact, DocumentsAreEntered
<1> QED
  BY <1>2, <1>3, <1>4, <1>5, <1>11, <1>13, <1>14, <1>15 DEF SettlementInv, LedgerIsExact, total

\* A reversal keeps the source and amount of the journal it marks.
LEMMA ReverseJournalKeeps ==
    ASSUME SettlementInv, NEW j \in journals, ReverseJournal(j)
    PROVE  SettlementInv'
<1> DEFINE done == [j EXCEPT !.status = "REVERSED"]
           n == Journal(j.event, j.id, "REVERSAL", -j.receivable, "POSTED")
<1>1. RowsTyped /\ LedgerIsExact /\ JournalsFollowLedger
  BY DEF SettlementInv
<1>2. j \in Journals /\ j.status = "POSTED" /\ j.kind # "REVERSAL"
  BY <1>1 DEF ReverseJournal, RowsTyped
<1>3. /\ j.event \in {"INVOICE_ISSUED", "PAYMENT_VERIFIED", "PAYMENT_REVERSED"}
      /\ j.id \in Orders \cup Nat /\ j.kind = "SYSTEM" /\ j.receivable \in Int
  BY <1>2 DEF Journals
<1>4. /\ done \in Journals /\ done.status = "REVERSED" /\ done.event = j.event /\ done.id = j.id
      /\ done.kind = j.kind /\ done.receivable = j.receivable
  BY <1>2 DEF Journals
<1>5. /\ n \in Journals /\ n.event = j.event /\ n.id = j.id /\ n.kind = "REVERSAL"
      /\ n.receivable = -j.receivable
  BY <1>3, JournalFields
<1> HIDE DEF done, n
<1>6. /\ journals' \subseteq ((journals \ {j}) \cup {done, n})
      /\ (journals \ {j}) \cup {done} \subseteq journals'
  BY DEF ReverseJournal, Posted, done, n
<1>7. UNCHANGED <<order, applied, payments, invoice, ledger>>
  BY DEF ReverseJournal
<1>8. RowsTyped' /\ InvoicesCharge'
  BY <1>1, <1>4, <1>5, <1>6, <1>7 DEF SettlementInv, RowsTyped, InvoicesCharge
<1>9. LedgerIsExact'
  BY <1>1, <1>7 DEF LedgerIsExact, LedgerFollowsDocuments, DocumentsAreEntered
<1>10. \A r \in ledger : Records(j, r) => Records(done, r)
  BY <1>4 DEF Records
<1>11. \A r \in ledger' : \E k \in journals' : Records(k, r)
  BY <1>1, <1>6, <1>7, <1>10 DEF JournalsFollowLedger
<1>12. \A k \in journals' : k.kind = "SYSTEM" => \E r \in ledger' : Records(k, r)
  BY <1>1, <1>2, <1>3, <1>4, <1>5, <1>6, <1>7 DEF JournalsFollowLedger, Records
<1>13. \A k \in journals' : k.kind = "REVERSAL" =>
          \E m \in journals' : /\ SameSource(m, k.event, k.id, "SYSTEM")
                              /\ m.status = "REVERSED" /\ m.receivable = -k.receivable
  <2> SUFFICES ASSUME NEW k \in journals', k.kind = "REVERSAL"
               PROVE  \E m \in journals' : /\ SameSource(m, k.event, k.id, "SYSTEM")
                                          /\ m.status = "REVERSED" /\ m.receivable = -k.receivable
    OBVIOUS
  <2>1. CASE k = n
    <3>1. SameSource(done, n.event, n.id, "SYSTEM") /\ done.receivable = -n.receivable
      BY <1>3, <1>4, <1>5 DEF SameSource
    <3> QED
      BY <2>1, <3>1, <1>4, <1>6
  <2>2. CASE k \in journals \ {j}
    <3>1. PICK m \in journals : /\ SameSource(m, k.event, k.id, "SYSTEM")
                               /\ m.status = "REVERSED" /\ m.receivable = -k.receivable
      BY <1>1, <2>2 DEF JournalsFollowLedger
    <3>2. m # j
      BY <1>2, <3>1
    <3> QED
      BY <1>6, <3>1, <3>2
  <2> QED
    BY <1>3, <1>4, <1>6, <2>1, <2>2
<1>14. JournalsFollowLedger'
  BY <1>11, <1>12, <1>13 DEF JournalsFollowLedger, Records, SameSource
<1> QED
  BY <1>8, <1>9, <1>14 DEF SettlementInv

--------------------------------------------------------------------------------
\* Orders and adjustments touch no payment, invoice or posting.

LEMMA OrderColumnsKeep ==
    ASSUME SettlementInv, order' \in [Orders -> OrderRows], applied' \in [Orders -> Seq(Nat \ {0})],
           UNCHANGED <<payments, invoice, ledger, journals>>
    PROVE  SettlementInv'
  BY DEF SettlementInv, RowsTyped, InvoicesCharge, LedgerIsExact, LedgerFollowsDocuments,
         DocumentsAreEntered, JournalsFollowLedger, Records, SameSource

\* Two totals of one order are written.
LEMMA TotalsTyped ==
    ASSUME order \in [Orders -> OrderRows], NEW o \in Orders, NEW g \in Nat, NEW a \in Nat,
           order' = [order EXCEPT ![o].grand_total = g, ![o].adjustment_total = a]
    PROVE  order' \in [Orders -> OrderRows]
<1> DEFINE mid == [order EXCEPT ![o].grand_total = g]
<1>1. mid \in [Orders -> OrderRows]
  BY DEF OrderRows
<1>2. order' = [mid EXCEPT ![o].adjustment_total = a]
  BY <1>1
<1> HIDE DEF mid
<1> QED
  BY <1>1, <1>2 DEF OrderRows

LEMMA ReviewKeeps ==
    ASSUME SettlementInv, NEW o \in Orders,
           ApproveOrder(o) \/ RejectOrder(o) \/ CancelOrder(o)
    PROVE  SettlementInv'
<1>1. order \in [Orders -> OrderRows] /\ applied \in [Orders -> Seq(Nat \ {0})]
  BY DEF SettlementInv, RowsTyped
<1>2. /\ \E s \in OrderStatus : order' = [order EXCEPT ![o].status = s]
      /\ UNCHANGED <<applied, payments, invoice, ledger, journals>>
  BY DEF ApproveOrder, RejectOrder, CancelOrder, OrderStatus
<1>3. order' \in [Orders -> OrderRows]
  BY <1>1, <1>2 DEF OrderRows
<1> QED
  BY <1>1, <1>2, <1>3, OrderColumnsKeep

LEMMA ApplyAdjustmentKeeps ==
    ASSUME SettlementAssumption, SettlementInv, NEW o \in Orders, NEW reduction \in Reductions,
           ApplyAdjustment(o, reduction)
    PROVE  SettlementInv'
<1> DEFINE g == order[o].grand_total - reduction
           a == order[o].adjustment_total + reduction
<1>1. order \in [Orders -> OrderRows] /\ applied \in [Orders -> Seq(Nat \ {0})]
  BY DEF SettlementInv, RowsTyped
<1>2. order[o].grand_total \in Nat /\ order[o].adjustment_total \in Nat /\ reduction \in Nat \ {0}
  BY <1>1 DEF OrderRows, SettlementAssumption
<1>3. g \in Nat /\ a \in Nat
  BY <1>2 DEF ApplyAdjustment, Reducible
<1>4. order' = [order EXCEPT ![o].grand_total = g, ![o].adjustment_total = a]
  BY <1>1 DEF ApplyAdjustment
<1> HIDE DEF g, a
<1>5. order' \in [Orders -> OrderRows]
  BY <1>1, <1>3, <1>4, TotalsTyped
<1>6. applied' \in [Orders -> Seq(Nat \ {0})]
  BY <1>1, <1>2 DEF ApplyAdjustment
<1> QED
  BY <1>5, <1>6, OrderColumnsKeep DEF ApplyAdjustment

LEMMA ReverseAdjustmentKeeps ==
    ASSUME SettlementInv, NEW o \in Orders, ReverseAdjustment(o)
    PROVE  SettlementInv'
<1> DEFINE reduction == applied[o][Len(applied[o])]
           g == order[o].grand_total + reduction
           a == AtLeastZero(order[o].adjustment_total - reduction)
           rest == SubSeq(applied[o], 1, Len(applied[o]) - 1)
<1>1. order \in [Orders -> OrderRows] /\ applied \in [Orders -> Seq(Nat \ {0})]
  BY DEF SettlementInv, RowsTyped
<1>2. applied[o] \in Seq(Nat \ {0}) /\ applied[o] # <<>>
  BY <1>1 DEF ReverseAdjustment
<1>3. reduction \in Nat \ {0} /\ rest \in Seq(Nat \ {0})
  BY <1>2
<1>4. order[o].grand_total \in Nat /\ order[o].adjustment_total \in Nat
  BY <1>1 DEF OrderRows
<1>5. /\ order' = [order EXCEPT ![o].grand_total = g, ![o].adjustment_total = a]
      /\ applied' = [applied EXCEPT ![o] = rest]
  BY <1>1 DEF ReverseAdjustment
<1> HIDE DEF reduction, rest
<1>6. g \in Nat /\ a \in Nat
  BY <1>3, <1>4 DEF AtLeastZero
<1> HIDE DEF g, a
<1>7. order' \in [Orders -> OrderRows]
  BY <1>1, <1>5, <1>6, TotalsTyped
<1>8. applied' \in [Orders -> Seq(Nat \ {0})]
  BY <1>1, <1>3, <1>5
<1> QED
  BY <1>7, <1>8, OrderColumnsKeep DEF ReverseAdjustment

--------------------------------------------------------------------------------
\* The inductive invariant

LEMMA InvInit == ASSUME SettlementAssumption, Init PROVE SettlementInv
<1>1. PICK total \in [Orders -> OrderTotals] :
         order = [o \in Orders |-> [status |-> "SUBMITTED", grand_total |-> total[o],
                                    adjustment_total |-> 0, payment_status |-> "UNPAID"]]
  BY DEF Init
<1>2. order \in [Orders -> OrderRows]
  BY <1>1 DEF SettlementAssumption, OrderRows, OrderStatus, PaymentStatus
<1>3. /\ invoice = [o \in Orders |-> NoInvoice]
      /\ \A o \in Orders : invoice[o].issued = FALSE /\ invoice[o].grand_total = 0
  BY DEF Init, NoInvoice
<1>4. RowsTyped /\ InvoicesCharge
  <2>1. /\ applied = [o \in Orders |-> <<>>] /\ payments = <<>>
        /\ ledger = {} /\ journals = {}
    BY DEF Init
  <2>2. applied \in [Orders -> Seq(Nat \ {0})]
    BY <2>1
  <2>3. payments \in Seq(Payments)
    BY <2>1
  <2>4. invoice = [o \in Orders |-> invoice[o]]
    BY <1>3
  <2>5. \A o \in Orders : invoice[o].issued = FALSE /\ invoice[o].grand_total = 0
    BY <1>3
  <2>6. ledger \subseteq Entries /\ journals \subseteq Journals
    BY <2>1
  <2> QED
    <3>1. \A o \in Orders : invoice[o].issued \in BOOLEAN
      BY <2>5, Zenon
    <3>2. \A o \in Orders : invoice[o].grand_total \in Nat
      BY <2>5
    <3>3. InvoicesCharge
      BY <2>5, Zenon DEF InvoicesCharge
    <3> QED
      BY <1>2, <2>2, <2>3, <2>4, <2>6, <3>1, <3>2, <3>3 DEF RowsTyped
<1>5. LedgerIsExact /\ JournalsFollowLedger
  BY <1>3 DEF Init, LedgerIsExact, LedgerFollowsDocuments, DocumentsAreEntered, JournalsFollowLedger
<1> QED
  BY <1>4, <1>5 DEF SettlementInv

LEMMA InvNext == ASSUME SettlementAssumption, SettlementInv, [Next]_vars PROVE SettlementInv'
<1>1. CASE UNCHANGED vars
  BY <1>1, OrderColumnsKeep DEF vars, SettlementInv, RowsTyped
<1>2. CASE PaymentNext
  BY <1>2, RecordPaymentKeeps, VerifyPaymentKeeps, RejectPaymentKeeps, ReversePaymentKeeps,
     CorrectKeeps DEF PaymentNext
<1>3. CASE OrderNext
  BY <1>3, ReviewKeeps, ApplyAdjustmentKeeps, ReverseAdjustmentKeeps, GenerateInvoiceKeeps
     DEF OrderNext
<1>4. CASE \E j \in journals : ReverseJournal(j)
  BY <1>4, ReverseJournalKeeps
<1> QED
  BY <1>1, <1>2, <1>3, <1>4 DEF Next

\* The rows are typed and the ledger, the journals and the documents behind them
\* agree in every reachable state.
THEOREM SettlementIsSound == Spec => []SettlementInv
<1>1. Init => SettlementInv
  BY SettlementAssumption, InvInit
<1>2. SettlementInv /\ [Next]_vars => SettlementInv'
  BY SettlementAssumption, InvNext
<1> QED
  BY <1>1, <1>2, PTL DEF Spec

\* The receivable ledger holds exactly the charges, receipts and reversals that
\* invoices and payments call for, through any rejections, corrections, reversals.
THEOREM LedgerMatchesDocuments == Spec => []LedgerIsExact
<1>1. SettlementInv => LedgerIsExact
  BY DEF SettlementInv
<1> QED
  BY <1>1, SettlementIsSound, PTL

\* Every entry has its journal, every system journal its entry, and a reversal
\* journal the original it was posted for.
THEOREM JournalsMatchLedger == Spec => []JournalsFollowLedger
<1>1. SettlementInv => JournalsFollowLedger
  BY DEF SettlementInv
<1> QED
  BY <1>1, SettlementIsSound, PTL

--------------------------------------------------------------------------------
\* The ledger implements ReceivableAccount

\* A step enters nothing, or one charge, receipt or reversal.
LEMMA StepEnters ==
    ASSUME SettlementAssumption, SettlementInv, [Next]_vars
    PROVE  \/ ledger' = ledger
           \/ \E e \in ledger' : Account!Charge(e) \/ Account!Settle(e) \/ Account!Restore(e)
<1>1. CASE UNCHANGED vars
  BY <1>1 DEF vars
<1>2. CASE \E i \in DOMAIN payments : VerifyPayment(i)
  <2>1. PICK i \in DOMAIN payments : VerifyPayment(i)
    BY <1>2
  <2> DEFINE a == -payments[i].amount
             e == Entry("PAYMENT", i, a)
  <2>2. NotEntered("PAYMENT", i) /\ ledger' = ledger \cup {e}
    BY <2>1, VerifyPaymentKeeps
  <2>3. payments[i].amount \in Nat \ {0} /\ i \in Nat
    BY PaymentRow DEF SettlementInv
  <2>4. e.type = "PAYMENT" /\ e.id = i /\ e.amount = a /\ a < 0
    BY <2>3, EntryFields DEF EntryTypes
  <2> HIDE DEF e, a
  <2>5. Account!Settle(e)
    BY <2>2, <2>4 DEF Account!Settle, Account!New, NotEntered
  <2> QED
    BY <2>2, <2>5
<1>3. CASE \E i \in DOMAIN payments : ReversePayment(i)
  <2>1. PICK i \in DOMAIN payments : ReversePayment(i)
    BY <1>3
  <2> DEFINE a == payments[i].amount
             f == Entry("PAYMENT", i, -a)
             e == Entry("PAYMENT_REVERSAL", i, a)
  <2>2. NotEntered("PAYMENT_REVERSAL", i) /\ f \in ledger /\ ledger' = ledger \cup {e}
    BY <2>1, ReversePaymentKeeps
  <2>3. a \in Nat \ {0} /\ i \in Nat
    BY PaymentRow DEF SettlementInv
  <2>4. e.type = "PAYMENT_REVERSAL" /\ e.id = i /\ e.amount = a
    BY <2>3, EntryFields DEF EntryTypes
  <2>5. f.type = "PAYMENT" /\ f.id = i /\ f.amount = -a
    BY <2>3, EntryFields DEF EntryTypes
  <2> HIDE DEF e, f, a
  <2>6. Account!Restore(e)
    BY <2>2, <2>4, <2>5 DEF Account!Restore, Account!New, NotEntered
  <2> QED
    BY <2>2, <2>6
<1>4. CASE \E o \in Orders : GenerateInvoice(o)
  <2>1. PICK o \in Orders : GenerateInvoice(o)
    BY <1>4
  <2> DEFINE a == order[o].grand_total
             e == Entry("INVOICE_CHARGE", o, a)
  <2>2. NotEntered("INVOICE_CHARGE", o) /\ a \in Nat \ {0} /\ ledger' = ledger \cup {e}
    BY <2>1, GenerateInvoiceKeeps
  <2>3. e.type = "INVOICE_CHARGE" /\ e.id = o /\ e.amount = a
    BY <2>2, EntryFields DEF EntryTypes
  <2> HIDE DEF e, a
  <2>4. Account!Charge(e)
    BY <2>2, <2>3 DEF Account!Charge, Account!New, NotEntered
  <2> QED
    BY <2>2, <2>4
<1>5. CASE /\ Next
           /\ ~ \E i \in DOMAIN payments : VerifyPayment(i)
           /\ ~ \E i \in DOMAIN payments : ReversePayment(i)
           /\ ~ \E o \in Orders : GenerateInvoice(o)
  BY <1>5 DEF Next, PaymentNext, OrderNext, RecordPayment, RejectPayment,
              CorrectAndResubmitPayment, ApproveOrder, RejectOrder, CancelOrder,
              ApplyAdjustment, ReverseAdjustment, ReverseJournal
<1> QED
  BY <1>1, <1>2, <1>3, <1>4, <1>5

\* The receivable ledger implements the account: permanent entries, one per event,
\* a reversal the exact opposite of its receipt.
THEOREM ImplementsReceivableAccount == Spec => AccountRefined
<1>1. Init => Account!Init
  BY DEF Init, Account!Init
<1>2. SettlementInv /\ [Next]_vars => [Account!Next]_ledger
  BY SettlementAssumption, StepEnters DEF Account!Next
<1> QED
  BY <1>1, <1>2, SettlementIsSound, PTL DEF Spec, AccountRefined, Account!Spec
--------------------------------------------------------------------------------
\* What is verified, added up over the payments

Credits(ps) == [i \in DOMAIN ps |-> Credit(ps[i])]

PaidFor(ps, o) == [i \in DOMAIN ps |-> VerifiedFor(ps[i], o)]

LEMMA CreditType ==
    ASSUME NEW p \in Payments, NEW o
    PROVE  /\ Credit(p) \in Nat
           /\ VerifiedFor(p, o) = IF p.order = o THEN Credit(p) ELSE 0
BY DEF Payments, Credit, VerifiedFor

LEMMA PaymentList ==
    ASSUME NEW ps \in Seq(Payments)
    PROVE  /\ IsFiniteSet(DOMAIN ps)
           /\ \A i \in DOMAIN ps : /\ ps[i] \in Payments
                                  /\ Credits(ps)[i] = Credit(ps[i]) /\ Credits(ps)[i] \in Nat
           /\ \A o : \A i \in DOMAIN ps : /\ PaidFor(ps, o)[i] = VerifiedFor(ps[i], o)
                                         /\ PaidFor(ps, o)[i] \in Nat
<1>1. DOMAIN ps = 1..Len(ps) /\ Len(ps) \in Nat /\ \A i \in DOMAIN ps : ps[i] \in Payments
  OBVIOUS
<1>2. \A i \in DOMAIN ps : Credit(ps[i]) \in Nat
  BY <1>1, CreditType
<1>3. \A o : \A i \in DOMAIN ps : VerifiedFor(ps[i], o) \in Nat
  BY <1>1, CreditType
<1>4. IsFiniteSet(DOMAIN ps)
  BY <1>1, ListIsFinite
<1> QED
  BY <1>1, <1>2, <1>3, <1>4 DEF Credits, PaidFor

LEMMA VerifiedSumType ==
    ASSUME NEW ps \in Seq(Payments), NEW o
    PROVE  VerifiedSum(ps, o) \in Nat /\ VerifiedSum(ps, o) = SumOver(PaidFor(ps, o), DOMAIN ps)
<1>1. VerifiedSum(ps, o) = SumOver(PaidFor(ps, o), DOMAIN ps)
  BY DEF VerifiedSum, PaidFor
<1>2. IsFiniteSet(DOMAIN ps) /\ \A i \in DOMAIN ps : PaidFor(ps, o)[i] \in Nat
  BY PaymentList
<1> HIDE DEF PaidFor
<1>3. SumOver(PaidFor(ps, o), DOMAIN ps) \in Nat
  BY <1>2, SumIsNatural
<1> QED
  BY <1>1, <1>3

\* Rows keep what they count for, and a row that is new counts for nothing.
Unmoved(ps, qs) ==
    /\ \/ DOMAIN qs = DOMAIN ps
       \/ /\ DOMAIN qs = DOMAIN ps \cup {Len(ps) + 1}
          /\ Credit(qs[Len(ps) + 1]) = 0
    /\ \A i \in DOMAIN ps : Credit(qs[i]) = Credit(ps[i]) /\ qs[i].order = ps[i].order

LEMMA SumWithNothing ==
    ASSUME NEW S, IsFiniteSet(S), NEW x, x \notin S,
           NEW e, NEW f, \A y \in S : e[y] \in Int /\ f[y] = e[y], f[x] = 0
    PROVE  SumOver(f, S \cup {x}) = SumOver(e, S)
<1>1. f[x] \in Int
  OBVIOUS
<1>2. SumOver(f, S \cup {x}) = SumOver(e, S) + f[x]
  BY <1>1, SumWith
<1>3. SumOver(e, S) \in Int
  BY SumType
<1> QED
  BY <1>2, <1>3

LEMMA UnmovedSums ==
    ASSUME NEW ps \in Seq(Payments), NEW qs \in Seq(Payments), Unmoved(ps, qs)
    PROVE  /\ SumOver(Credits(qs), DOMAIN qs) = SumOver(Credits(ps), DOMAIN ps)
           /\ \A o : VerifiedSum(qs, o) = VerifiedSum(ps, o)
<1> DEFINE x == Len(ps) + 1
<1>1. x \notin DOMAIN ps /\ IsFiniteSet(DOMAIN ps)
  BY PaymentList
<1> HIDE DEF x
<1>2. /\ DOMAIN qs = DOMAIN ps \/ (DOMAIN qs = DOMAIN ps \cup {x} /\ Credit(qs[x]) = 0)
      /\ \A i \in DOMAIN ps : /\ i \in DOMAIN qs
                             /\ Credit(qs[i]) = Credit(ps[i]) /\ qs[i].order = ps[i].order
  BY DEF Unmoved, x
<1>3. \A i \in DOMAIN ps : Credits(ps)[i] \in Int /\ Credits(qs)[i] = Credits(ps)[i]
  BY <1>2, PaymentList
<1>4. DOMAIN qs = DOMAIN ps \/ (DOMAIN qs = DOMAIN ps \cup {x} /\ Credits(qs)[x] = 0)
  <2>1. x \in DOMAIN qs => Credits(qs)[x] = Credit(qs[x])
    BY PaymentList
  <2> QED
    BY <1>2, <2>1
<1>5. SumOver(Credits(qs), DOMAIN qs) = SumOver(Credits(ps), DOMAIN ps)
  <2> DEFINE S == DOMAIN ps
             T == DOMAIN qs
             e == Credits(ps)
             f == Credits(qs)
  <2>1. IsFiniteSet(S) /\ x \notin S
    BY <1>1
  <2>2. \A y \in S : e[y] \in Int /\ f[y] = e[y]
    BY <1>3
  <2>3. T = S \/ (T = S \cup {x} /\ f[x] = 0)
    BY <1>4
  <2> HIDE DEF S, T, e, f
  <2>4. SumOver(f, T) = SumOver(e, S)
    <3>1. CASE T = S
      BY <2>1, <2>2, <3>1, SumSame
    <3>2. CASE T = S \cup {x} /\ f[x] = 0
      BY <2>1, <2>2, <3>2, SumWithNothing
    <3> QED
      BY <2>3, <3>1, <3>2
  <2> QED
    BY <2>4 DEF S, T, e, f
<1>6. ASSUME NEW o PROVE VerifiedSum(qs, o) = VerifiedSum(ps, o)
  <2>1. \A i \in DOMAIN ps : PaidFor(ps, o)[i] \in Int /\ PaidFor(qs, o)[i] = PaidFor(ps, o)[i]
    <3> SUFFICES ASSUME NEW i \in DOMAIN ps
                 PROVE  PaidFor(ps, o)[i] \in Int /\ PaidFor(qs, o)[i] = PaidFor(ps, o)[i]
      OBVIOUS
    <3>1. ps[i] \in Payments /\ qs[i] \in Payments /\ i \in DOMAIN qs
      BY <1>2, PaymentList
    <3>2. VerifiedFor(qs[i], o) = VerifiedFor(ps[i], o)
      BY <1>2, <3>1, CreditType
    <3> QED
      BY <3>1, <3>2, PaymentList
  <2>2. DOMAIN qs = DOMAIN ps \/ (DOMAIN qs = DOMAIN ps \cup {x} /\ PaidFor(qs, o)[x] = 0)
    <3> SUFFICES ASSUME DOMAIN qs = DOMAIN ps \cup {x}, Credit(qs[x]) = 0 PROVE PaidFor(qs, o)[x] = 0
      BY <1>2
    <3>1. x \in DOMAIN qs /\ qs[x] \in Payments
      BY PaymentList
    <3>2. VerifiedFor(qs[x], o) = IF qs[x].order = o THEN Credit(qs[x]) ELSE 0
      BY <3>1, CreditType
    <3>3. VerifiedFor(qs[x], o) = 0
      BY <3>2
    <3>4. PaidFor(qs, o)[x] = VerifiedFor(qs[x], o)
      BY <3>1, PaymentList
    <3> QED
      BY <3>3, <3>4
  <2>3. SumOver(PaidFor(qs, o), DOMAIN qs) = SumOver(PaidFor(ps, o), DOMAIN ps)
    <3> DEFINE S == DOMAIN ps
               T == DOMAIN qs
               e == PaidFor(ps, o)
               f == PaidFor(qs, o)
    <3>1. IsFiniteSet(S) /\ x \notin S
      BY <1>1
    <3>2. \A y \in S : e[y] \in Int /\ f[y] = e[y]
      BY <2>1
    <3>3. T = S \/ (T = S \cup {x} /\ f[x] = 0)
      BY <2>2
    <3> HIDE DEF S, T, e, f
    <3>4. SumOver(f, T) = SumOver(e, S)
      <4>1. CASE T = S
        BY <3>1, <3>2, <4>1, SumSame
      <4>2. CASE T = S \cup {x} /\ f[x] = 0
        BY <3>1, <3>2, <4>2, SumWithNothing
      <4> QED
        BY <3>3, <4>1, <4>2
    <3> QED
      BY <3>4 DEF S, T, e, f
  <2> QED
    BY <2>3, VerifiedSumType
<1> QED
  BY <1>5, <1>6

\* One row counts for something else.
LEMMA TurnedSum ==
    ASSUME NEW ps \in Seq(Payments), NEW qs \in Seq(Payments), DOMAIN qs = DOMAIN ps,
           NEW i \in DOMAIN ps, \A k \in DOMAIN ps : k # i => Credit(qs[k]) = Credit(ps[k])
    PROVE  SumOver(Credits(qs), DOMAIN qs)
              = SumOver(Credits(ps), DOMAIN ps) + Credit(qs[i]) - Credit(ps[i])
<1> DEFINE S == DOMAIN ps
<1>1. IsFiniteSet(S) /\ i \in S /\ S = DOMAIN qs
  BY PaymentList
<1>2. \A k \in S : Credits(ps)[k] \in Int /\ Credits(qs)[k] \in Int
  BY PaymentList
<1>3. \A k \in S \ {i} : Credits(qs)[k] = Credits(ps)[k]
  BY PaymentList
<1> HIDE DEF S
<1>4. SumOver(Credits(qs), S) = SumOver(Credits(ps), S) + Credits(qs)[i] - Credits(ps)[i]
  BY <1>1, <1>2, <1>3, SumChange
<1>5. Credits(qs)[i] = Credit(qs[i]) /\ Credits(ps)[i] = Credit(ps[i])
  BY <1>1, PaymentList DEF S
<1> QED
  BY <1>1, <1>4, <1>5 DEF S

--------------------------------------------------------------------------------
\* What each step makes the payments count for

\* A decision on the payment i changes what i counts for and nothing else.
LEMMA DecideCounts ==
    ASSUME RowsTyped, NEW i \in DOMAIN payments, NEW status \in PaymentTransactionStatus,
           Decide(i, status)
    PROVE  /\ payments' \in Seq(Payments) /\ DOMAIN payments' = DOMAIN payments
           /\ \A k \in DOMAIN payments : payments'[k].order = payments[k].order
           /\ \A k \in DOMAIN payments : k # i => Credit(payments'[k]) = Credit(payments[k])
           /\ Credit(payments'[i]) = IF status = "VERIFIED" THEN payments[i].amount ELSE 0
<1>1. /\ payments' \in Seq(Payments) /\ DOMAIN payments' = DOMAIN payments
      /\ \A k \in DOMAIN payments : payments'[k].amount = payments[k].amount
      /\ payments'[i].status = status
      /\ \A k \in DOMAIN payments : k # i => payments'[k].status = payments[k].status
  BY DecideStatus
<1>2. payments' = [payments EXCEPT ![i].status = status]
  BY DEF Decide
<1>3. payments \in Seq(Payments) /\ payments[i] \in Payments
  BY PaymentRow DEF RowsTyped
<1>4. \A k \in DOMAIN payments : payments'[k].order = payments[k].order
  BY <1>2, <1>3 DEF Payments
<1> QED
  BY <1>1, <1>4 DEF Credit

LEMMA RecordCounts ==
    ASSUME SettlementAssumption, RowsTyped,
           NEW o \in Orders \cup {NoOrder}, NEW instrument \in Instruments \cup {Cash},
           NEW amount \in Amounts, RecordPayment(o, instrument, amount)
    PROVE  Unmoved(payments, payments')
<1> DEFINE new == [order |-> o, instrument |-> instrument, amount |-> amount,
                   status |-> "PENDING_VERIFICATION"]
<1>1. payments \in Seq(Payments) /\ Credit(new) = 0
  BY DEF RowsTyped, Credit
<1>2. payments' = Append(payments, new)
  BY DEF RecordPayment
<1> HIDE DEF new
<1>3. /\ DOMAIN payments' = DOMAIN payments \cup {Len(payments) + 1}
      /\ payments'[Len(payments) + 1] = new
      /\ \A k \in DOMAIN payments : payments'[k] = payments[k]
  BY <1>1, <1>2
<1> QED
  BY <1>1, <1>3, Zenon DEF Unmoved

LEMMA RejectCounts ==
    ASSUME RowsTyped, NEW i \in DOMAIN payments, RejectPayment(i)
    PROVE  Unmoved(payments, payments')
<1>1. payments[i].status = "PENDING_VERIFICATION" /\ Decide(i, "REJECTED")
  BY DEF RejectPayment
<1>2. /\ DOMAIN payments' = DOMAIN payments
      /\ \A k \in DOMAIN payments : payments'[k].order = payments[k].order
      /\ \A k \in DOMAIN payments : k # i => Credit(payments'[k]) = Credit(payments[k])
      /\ Credit(payments'[i]) = 0
  BY <1>1, DecideCounts DEF PaymentTransactionStatus
<1>3. Credit(payments[i]) = 0
  BY <1>1 DEF Credit
<1> QED
  BY <1>2, <1>3, Zenon DEF Unmoved

LEMMA CorrectCounts ==
    ASSUME RowsTyped, NEW i \in DOMAIN payments, NEW instrument, NEW amount,
           CorrectAndResubmitPayment(i, instrument, amount)
    PROVE  Unmoved(payments, payments')
<1>1. payments \in Seq(Payments) /\ payments[i] \in Payments
  BY PaymentRow DEF RowsTyped
<1>2. payments' = [payments EXCEPT ![i].status = "PENDING_VERIFICATION",
                                   ![i].instrument = instrument, ![i].amount = amount]
  BY DEF CorrectAndResubmitPayment
<1>3. DOMAIN payments' = DOMAIN payments /\ \A k \in DOMAIN payments : k # i => payments'[k] = payments[k]
  BY <1>1, <1>2
<1>4. payments'[i] = [payments[i] EXCEPT !.status = "PENDING_VERIFICATION",
                                         !.instrument = instrument, !.amount = amount]
  BY <1>1, <1>2
<1>5. payments'[i].status = "PENDING_VERIFICATION" /\ payments'[i].order = payments[i].order
  BY <1>1, <1>4 DEF Payments
<1>6. Credit(payments'[i]) = 0 /\ Credit(payments[i]) = 0
  BY <1>5 DEF Credit, CorrectAndResubmitPayment, Correctable
<1> QED
  BY <1>3, <1>5, <1>6, Zenon DEF Unmoved

LEMMA PaymentsKept ==
    ASSUME UNCHANGED payments
    PROVE  Unmoved(payments, payments')
BY DEF Unmoved

\* Only a verification, a reversal and an invoice change the books.
LEMMA StepCounts ==
    ASSUME SettlementAssumption, SettlementInv, [Next]_vars
    PROVE  \/ Unmoved(payments, payments') /\ UNCHANGED <<invoice, ledger>>
           \/ \E i \in DOMAIN payments : VerifyPayment(i)
           \/ \E i \in DOMAIN payments : ReversePayment(i)
           \/ \E o \in Orders : GenerateInvoice(o)
<1>1. CASE UNCHANGED vars
  BY <1>1, PaymentsKept DEF vars
<1>2. CASE PaymentNext
  <2>1. RowsTyped
    BY DEF SettlementInv
  <2>2. CASE \E o \in Orders \cup {NoOrder}, instrument \in Instruments \cup {Cash}, amount \in Amounts :
               RecordPayment(o, instrument, amount)
    BY <2>1, <2>2, RecordCounts DEF RecordPayment
  <2>3. CASE \E i \in DOMAIN payments : RejectPayment(i)
    BY <2>1, <2>3, RejectCounts DEF RejectPayment
  <2>4. CASE \E i \in DOMAIN payments, instrument \in Instruments \cup {Cash}, amount \in Amounts :
               CorrectAndResubmitPayment(i, instrument, amount)
    BY <2>1, <2>4, CorrectCounts DEF CorrectAndResubmitPayment
  <2> QED
    BY <1>2, <2>2, <2>3, <2>4 DEF PaymentNext
<1>3. CASE OrderNext
  BY <1>3, PaymentsKept DEF OrderNext, ApproveOrder, RejectOrder, CancelOrder, ApplyAdjustment,
                            ReverseAdjustment
<1>4. CASE \E j \in journals : ReverseJournal(j)
  BY <1>4, PaymentsKept DEF ReverseJournal
<1> QED
  BY <1>1, <1>2, <1>3, <1>4 DEF Next

--------------------------------------------------------------------------------
\* The payment status of an order

\* A decision reconciles the order its payment is for, whose total it keeps.
LEMMA DecideReconciles ==
    ASSUME RowsTyped, NEW i \in DOMAIN payments, NEW status \in PaymentTransactionStatus,
           Decide(i, status), NEW o \in Orders,
           Decided(o) \/ VerifiedSum(payments', o) # VerifiedSum(payments, o)
    PROVE  order'[o].payment_status = StatusOf(VerifiedSum(payments', o), order'[o].grand_total)
<1>1. /\ payments \in Seq(Payments) /\ payments' \in Seq(Payments)
      /\ DOMAIN payments' = DOMAIN payments
      /\ \A k \in DOMAIN payments : payments'[k].order = payments[k].order
      /\ \A k \in DOMAIN payments : k # i => Credit(payments'[k]) = Credit(payments[k])
  BY DecideCounts DEF RowsTyped
<1>2. CASE payments[i].order = o
  <2> DEFINE s == StatusOf(VerifiedSum(payments', o), order[o].grand_total)
  <2>1. order' = [order EXCEPT ![o].payment_status = s]
    BY <1>2 DEF Decide, PaymentStatusAfter
  <2> HIDE DEF s
  <2>2. order'[o].payment_status = s /\ order'[o].grand_total = order[o].grand_total
    BY <2>1 DEF RowsTyped, OrderRows
  <2> QED
    BY <2>2 DEF s
<1>3. CASE payments[i].order # o
  <2>1. ASSUME NEW k \in DOMAIN payments
        PROVE  PaidFor(payments', o)[k] = PaidFor(payments, o)[k]
    <3>1. k \in DOMAIN payments' /\ payments[k] \in Payments /\ payments'[k] \in Payments
      BY <1>1, PaymentList
    <3>2. VerifiedFor(payments'[k], o) = VerifiedFor(payments[k], o)
      BY <1>1, <1>3, <3>1, CreditType
    <3> QED
      BY <3>1, <3>2 DEF PaidFor
  <2>2. IsFiniteSet(DOMAIN payments)
    BY <1>1, PaymentList
  <2>3. SumOver(PaidFor(payments, o), DOMAIN payments) = SumOver(PaidFor(payments', o), DOMAIN payments)
    BY <2>1, <2>2, SumSame
  <2>4. VerifiedSum(payments', o) = VerifiedSum(payments, o)
    BY <1>1, <2>3, VerifiedSumType
  <2>5. payments' = [payments EXCEPT ![i].status = status]
    BY DEF Decide
  <2>6. \A k \in DOMAIN payments : k # i => payments'[k] = payments[k]
    BY <2>5
  <2>7. ~ Decided(o)
    BY <1>3, <2>6 DEF Decided
  <2> QED
    BY <2>4, <2>7
<1> QED
  BY <1>2, <1>3

\* What is neither verified, rejected nor reversed in a step is not decided.
LEMMA OnlyDecisionsDecide ==
    ASSUME SettlementInv, [Next]_vars, NEW o \in Orders, Decided(o)
    PROVE  \E i \in DOMAIN payments : VerifyPayment(i) \/ RejectPayment(i) \/ ReversePayment(i)
<1>1. payments \in Seq(Payments)
  BY DEF SettlementInv, RowsTyped
<1>2. CASE UNCHANGED payments
  BY <1>2 DEF Decided
<1>3. CASE PaymentNext
  <2>1. CASE \E x \in Orders \cup {NoOrder}, instrument \in Instruments \cup {Cash}, amount \in Amounts :
               RecordPayment(x, instrument, amount)
    BY <1>1, <2>1 DEF RecordPayment, Decided
  <2>2. ASSUME NEW i \in DOMAIN payments, NEW instrument, NEW amount,
               CorrectAndResubmitPayment(i, instrument, amount)
        PROVE  FALSE
    <3>1. payments' = [payments EXCEPT ![i].status = "PENDING_VERIFICATION",
                                       ![i].instrument = instrument, ![i].amount = amount]
      BY <2>2 DEF CorrectAndResubmitPayment
    <3>2. \A k \in DOMAIN payments : k # i => payments'[k] = payments[k]
      BY <1>1, <3>1
    <3>3. payments'[i] = [payments[i] EXCEPT !.status = "PENDING_VERIFICATION",
                                             !.instrument = instrument, !.amount = amount]
      BY <1>1, <3>1
    <3>4. payments[i] \in Payments
      BY <1>1, PaymentRow
    <3>5. payments'[i].status = "PENDING_VERIFICATION"
      BY <3>3, <3>4 DEF Payments
    <3> QED
      BY <3>2, <3>5 DEF Decided
  <2> QED
    BY <1>3, <2>1, <2>2 DEF PaymentNext
<1>4. CASE OrderNext
  BY <1>2, <1>4 DEF OrderNext, ApproveOrder, RejectOrder, CancelOrder, ApplyAdjustment,
                    ReverseAdjustment, GenerateInvoice
<1>5. CASE \E j \in journals : ReverseJournal(j)
  BY <1>2, <1>5 DEF ReverseJournal
<1>6. CASE UNCHANGED vars
  BY <1>2, <1>6 DEF vars
<1> QED
  BY <1>3, <1>4, <1>5, <1>6 DEF Next

\* Whatever changes what is verified for an order, and every decision on one of
\* its payments, sets its payment status to what that sum says of its total.
THEOREM StatusIsReconciled == Spec => StatusFollowsVerifiedSum
<1> DEFINE A == \A o \in Orders :
                   (Decided(o) \/ VerifiedSum(payments', o) # VerifiedSum(payments, o))
                   => order'[o].payment_status = StatusOf(VerifiedSum(payments', o), order'[o].grand_total)
<1>1. ASSUME SettlementInv, SettlementInv', [Next]_vars PROVE A
  <2> SUFFICES ASSUME NEW o \in Orders,
                      Decided(o) \/ VerifiedSum(payments', o) # VerifiedSum(payments, o)
               PROVE  order'[o].payment_status = StatusOf(VerifiedSum(payments', o), order'[o].grand_total)
    OBVIOUS
  <2>1. RowsTyped /\ payments \in Seq(Payments) /\ payments' \in Seq(Payments)
    BY <1>1 DEF SettlementInv, RowsTyped
  <2>2. CASE \E i \in DOMAIN payments : VerifyPayment(i)
    BY <2>1, <2>2, DecideReconciles DEF VerifyPayment, PaymentTransactionStatus
  <2>3. CASE \E i \in DOMAIN payments : ReversePayment(i)
    BY <2>1, <2>3, DecideReconciles DEF ReversePayment, PaymentTransactionStatus
  <2>4. CASE \E i \in DOMAIN payments : RejectPayment(i)
    BY <2>1, <2>4, DecideReconciles DEF RejectPayment, PaymentTransactionStatus
  <2>5. CASE Decided(o)
    BY <1>1, <2>2, <2>3, <2>4, <2>5, OnlyDecisionsDecide
  <2>6. CASE Unmoved(payments, payments')
    BY <2>1, <2>5, <2>6, UnmovedSums
  <2>7. CASE \E x \in Orders : GenerateInvoice(x)
    BY <2>5, <2>7 DEF GenerateInvoice
  <2> QED
    BY <1>1, SettlementAssumption, <2>2, <2>3, <2>6, <2>7, StepCounts
<1>2. SettlementInv /\ SettlementInv' /\ [Next]_vars => [A]_vars
  BY <1>1
<1> QED
  BY <1>2, SettlementIsSound, PTL DEF Spec, StatusFollowsVerifiedSum

--------------------------------------------------------------------------------
\* The statement and the ledger

Amount(rs) == [r \in rs |-> r.amount]

Debits(invs) == [o \in Orders |-> Debit(invs[o])]

BooksAgree == IsFiniteSet(ledger) /\ SummaryReconciles

LEMMA Books ==
    /\ InvoiceDebits = SumOver(Debits(invoice), Orders)
    /\ VerifiedCredits = SumOver(Credits(payments), DOMAIN payments)
    /\ SummaryReconciles <=> InvoiceDebits - VerifiedCredits = SumOver(Amount(ledger), ledger)
BY DEF InvoiceDebits, VerifiedCredits, SummaryReconciles, Debits, Credits, Amount

LEMMA BooksTyped ==
    ASSUME SettlementAssumption, RowsTyped, IsFiniteSet(ledger)
    PROVE  /\ SumOver(Debits(invoice), Orders) \in Int
           /\ SumOver(Credits(payments), DOMAIN payments) \in Int
           /\ SumOver(Amount(ledger), ledger) \in Int
<1>1. \A o \in Orders : Debits(invoice)[o] \in Int
  BY DEF RowsTyped, Debits, Debit
<1>2. SumOver(Debits(invoice), Orders) \in Int
  BY <1>1, SumType DEF SettlementAssumption
<1>3. IsFiniteSet(DOMAIN payments) /\ \A i \in DOMAIN payments : Credits(payments)[i] \in Int
  BY PaymentList DEF RowsTyped
<1>4. SumOver(Credits(payments), DOMAIN payments) \in Int
  BY <1>3, SumType
<1>5. \A r \in ledger : Amount(ledger)[r] \in Int
  BY DEF RowsTyped, Entries, Amount
<1>6. SumOver(Amount(ledger), ledger) \in Int
  BY <1>5, SumType
<1> QED
  BY <1>2, <1>4, <1>6

LEMMA LedgerGrows ==
    ASSUME ledger \subseteq Entries, IsFiniteSet(ledger),
           NEW type \in EntryTypes, NEW id \in Orders \cup Nat, NEW a \in Int,
           NotEntered(type, id), ledger' = ledger \cup {Entry(type, id, a)}
    PROVE  /\ IsFiniteSet(ledger')
           /\ SumOver(Amount(ledger'), ledger') = SumOver(Amount(ledger), ledger) + a
<1> DEFINE n == Entry(type, id, a)
           e == Amount(ledger)
           f == Amount(ledger')
<1>1. n.type = type /\ n.id = id /\ n.amount = a
  BY EntryFields
<1>2. n \notin ledger
  BY <1>1 DEF NotEntered
<1>3. \A r \in ledger : e[r] \in Int /\ f[r] = e[r]
  BY DEF Entries, Amount
<1>4. f[n] = a
  BY <1>1 DEF Amount
<1> HIDE DEF n, e, f
<1>5. SumOver(f, ledger \cup {n}) = SumOver(e, ledger) + f[n]
  BY <1>2, <1>3, <1>4, SumWith
<1>6. ledger' = ledger \cup {n}
  BY DEF n
<1>7. IsFiniteSet(ledger')
  BY <1>6, FS_AddElement
<1> QED
  BY <1>4, <1>5, <1>6, <1>7 DEF e, f

LEMMA InvoiceDebited ==
    ASSUME SettlementAssumption, RowsTyped, NEW o \in Orders, GenerateInvoice(o)
    PROVE  SumOver(Debits(invoice'), Orders) = SumOver(Debits(invoice), Orders) + order[o].grand_total
<1> DEFINE total == order[o].grand_total
           due == AtLeastZero(total - VerifiedSum(payments, o))
           e == Debits(invoice)
           f == Debits(invoice')
<1>1. total \in Nat
  BY DEF RowsTyped, OrderRows
<1>2. invoice' = [invoice EXCEPT ![o] = [issued |-> TRUE, grand_total |-> total, amount_due |-> due]]
  BY DEF GenerateInvoice
<1>3. ~ invoice[o].issued
  BY DEF GenerateInvoice
<1> HIDE DEF total, due
<1>4. /\ invoice'[o].issued = TRUE /\ invoice'[o].grand_total = total
      /\ \A x \in Orders : x # o => invoice'[x] = invoice[x]
  BY <1>2 DEF RowsTyped
<1>5. e[o] = 0 /\ f[o] = total
  BY <1>3, <1>4 DEF Debits, Debit
<1>6. \A x \in Orders \ {o} : f[x] = e[x]
  BY <1>4 DEF Debits
<1>7. \A x \in Orders : e[x] \in Int
  BY DEF RowsTyped, Debits, Debit
<1> HIDE DEF e, f
<1>8. \A x \in Orders : e[x] \in Int /\ f[x] \in Int
  BY <1>1, <1>5, <1>6, <1>7
<1>9. IsFiniteSet(Orders)
  BY DEF SettlementAssumption
<1>10. SumOver(f, Orders) = SumOver(e, Orders) + f[o] - e[o]
  BY <1>6, <1>8, <1>9, SumChange
<1>11. SumOver(e, Orders) \in Int
  BY <1>8, <1>9, SumType
<1> QED
  BY <1>1, <1>5, <1>10, <1>11 DEF e, f, total

LEMMA BooksNext ==
    ASSUME SettlementAssumption, SettlementInv, SettlementInv', BooksAgree, [Next]_vars
    PROVE  BooksAgree'
<1> DEFINE D == SumOver(Debits(invoice), Orders)
           C == SumOver(Credits(payments), DOMAIN payments)
           L == SumOver(Amount(ledger), ledger)
<1>1. /\ RowsTyped /\ payments \in Seq(Payments) /\ payments' \in Seq(Payments)
      /\ ledger \subseteq Entries /\ IsFiniteSet(ledger)
  BY DEF SettlementInv, RowsTyped, BooksAgree
<1>2. D \in Int /\ C \in Int /\ L \in Int /\ D - C = L
  BY <1>1, Books, BooksTyped DEF BooksAgree
<1>3. /\ InvoiceDebits' = D' /\ VerifiedCredits' = C'
      /\ IsFiniteSet(ledger') /\ D' - C' = L' => BooksAgree'
  BY DEF BooksAgree, InvoiceDebits, VerifiedCredits, SummaryReconciles, Debits, Credits, Amount
<1>4. CASE Unmoved(payments, payments') /\ UNCHANGED <<invoice, ledger>>
  <2>1. C' = C
    BY <1>1, <1>4, UnmovedSums
  <2>2. D' = D /\ L' = L
    BY <1>4 DEF Debits, Amount
  <2> QED
    BY <1>1, <1>2, <1>3, <1>4, <2>1, <2>2
<1>5. ASSUME NEW i \in DOMAIN payments, VerifyPayment(i) PROVE BooksAgree'
  <2> DEFINE a == payments[i].amount
  <2>1. a \in Nat /\ -a \in Int /\ i \in Orders \cup Nat
    BY <1>1, PaymentRow
  <2>2. NotEntered("PAYMENT", i) /\ ledger' = ledger \cup {Entry("PAYMENT", i, -a)}
    BY <1>5, VerifyPaymentKeeps
  <2>3. IsFiniteSet(ledger') /\ L' = L + (-a)
    <3>1. "PAYMENT" \in EntryTypes
      BY DEF EntryTypes
    <3> QED
      BY <1>1, <2>1, <2>2, <3>1, LedgerGrows
  <2>4. C' = C + a
    <3>1. /\ DOMAIN payments' = DOMAIN payments
          /\ \A k \in DOMAIN payments : k # i => Credit(payments'[k]) = Credit(payments[k])
          /\ Credit(payments'[i]) = a
      BY <1>1, <1>5, DecideCounts DEF VerifyPayment, PaymentTransactionStatus
    <3>2. Credit(payments[i]) = 0
      BY <1>5 DEF VerifyPayment, Credit
    <3>3. C' = C + Credit(payments'[i]) - Credit(payments[i])
      BY <1>1, <3>1, TurnedSum
    <3> QED
      BY <1>2, <2>1, <3>1, <3>2, <3>3
  <2>5. D' = D
    BY <1>5 DEF VerifyPayment, Debits
  <2> HIDE DEF a, C, D, L
  <2> QED
    BY <1>2, <1>3, <2>1, <2>3, <2>4, <2>5
<1>6. ASSUME NEW i \in DOMAIN payments, ReversePayment(i) PROVE BooksAgree'
  <2> DEFINE a == payments[i].amount
  <2>1. a \in Nat /\ a \in Int /\ i \in Orders \cup Nat
    BY <1>1, PaymentRow
  <2>2. NotEntered("PAYMENT_REVERSAL", i) /\ ledger' = ledger \cup {Entry("PAYMENT_REVERSAL", i, a)}
    BY <1>6, ReversePaymentKeeps
  <2>3. IsFiniteSet(ledger') /\ L' = L + a
    <3>1. "PAYMENT_REVERSAL" \in EntryTypes
      BY DEF EntryTypes
    <3> QED
      BY <1>1, <2>1, <2>2, <3>1, LedgerGrows
  <2>4. C' = C - a
    <3>1. /\ DOMAIN payments' = DOMAIN payments
          /\ \A k \in DOMAIN payments : k # i => Credit(payments'[k]) = Credit(payments[k])
          /\ Credit(payments'[i]) = 0
      BY <1>1, <1>6, DecideCounts DEF ReversePayment, PaymentTransactionStatus
    <3>2. Credit(payments[i]) = a
      BY <1>6 DEF ReversePayment, Credit
    <3>3. C' = C + Credit(payments'[i]) - Credit(payments[i])
      BY <1>1, <3>1, TurnedSum
    <3> QED
      BY <1>2, <2>1, <3>1, <3>2, <3>3
  <2>5. D' = D
    BY <1>6 DEF ReversePayment, Debits
  <2> HIDE DEF a, C, D, L
  <2> QED
    BY <1>2, <1>3, <2>1, <2>3, <2>4, <2>5
<1>7. ASSUME NEW o \in Orders, GenerateInvoice(o) PROVE BooksAgree'
  <2> DEFINE a == order[o].grand_total
  <2>1. /\ NotEntered("INVOICE_CHARGE", o) /\ a \in Nat
        /\ ledger' = ledger \cup {Entry("INVOICE_CHARGE", o, a)}
    BY <1>7, GenerateInvoiceKeeps
  <2>2. IsFiniteSet(ledger') /\ L' = L + a
    <3>1. "INVOICE_CHARGE" \in EntryTypes /\ o \in Orders \cup Nat /\ a \in Int
      BY <2>1 DEF EntryTypes
    <3> QED
      BY <1>1, <2>1, <3>1, LedgerGrows
  <2>3. D' = D + a
    BY <1>1, <1>7, InvoiceDebited
  <2>4. C' = C
    BY <1>7 DEF GenerateInvoice, Credits
  <2> HIDE DEF a, C, D, L
  <2> QED
    BY <1>2, <1>3, <2>1, <2>2, <2>3, <2>4
<1> QED
  BY <1>4, <1>5, <1>6, <1>7, StepCounts

LEMMA BooksInit == ASSUME SettlementAssumption, Init PROVE BooksAgree
<1>1. payments = <<>> /\ ledger = {} /\ invoice = [o \in Orders |-> NoInvoice]
  BY DEF Init
<1>2. IsFiniteSet(ledger) /\ SumOver(Amount(ledger), ledger) = 0
  BY <1>1, FS_EmptySet, SumEmpty
<1>3. SumOver(Credits(payments), DOMAIN payments) = 0
  <2>1. DOMAIN payments = {}
    BY <1>1
  <2> QED
    BY <2>1, SumEmpty
<1>4. SumOver(Debits(invoice), Orders) = 0
  <2>1. \A o \in Orders : Debits(invoice)[o] = 0
    BY <1>1 DEF Debits, Debit, NoInvoice
  <2> QED
    BY <2>1, SumOfZeros DEF SettlementAssumption
<1> QED
  BY <1>2, <1>3, <1>4, Books DEF BooksAgree

\* The customer's statement, added up from invoices and payments, is the sum of the
\* receivable ledger, for any number of orders and payments.
THEOREM StatementReconciles == Spec => []SummaryReconciles
<1>1. Init => SettlementInv /\ BooksAgree
  BY SettlementAssumption, InvInit, BooksInit
<1>2. SettlementInv /\ BooksAgree /\ [Next]_vars => (SettlementInv /\ BooksAgree)'
  BY SettlementAssumption, InvNext, BooksNext
<1>3. BooksAgree => SummaryReconciles
  BY DEF BooksAgree
<1> QED
  BY <1>1, <1>2, <1>3, PTL DEF Spec

--------------------------------------------------------------------------------
\* The type of an invoice

InvoicesTyped == invoice \in [Orders -> Invoices]

LEMMA InvoicesStay ==
    ASSUME SettlementInv, InvoicesTyped, [Next]_vars
    PROVE  InvoicesTyped'
<1>1. CASE UNCHANGED invoice
  BY <1>1 DEF InvoicesTyped
<1>2. ASSUME NEW o \in Orders, GenerateInvoice(o) PROVE InvoicesTyped'
  <2> DEFINE total == order[o].grand_total
             due == AtLeastZero(total - VerifiedSum(payments, o))
  <2>1. total \in Nat /\ VerifiedSum(payments, o) \in Nat
    BY VerifiedSumType DEF SettlementInv, RowsTyped, OrderRows
  <2>2. due \in Nat
    BY <2>1 DEF AtLeastZero
  <2>3. invoice' = [invoice EXCEPT ![o] = [issued |-> TRUE, grand_total |-> total, amount_due |-> due]]
    BY <1>2 DEF GenerateInvoice
  <2> HIDE DEF total, due
  <2> QED
    BY <2>1, <2>2, <2>3 DEF InvoicesTyped, Invoices, total
<1>3. CASE Next /\ ~ \E o \in Orders : GenerateInvoice(o)
  BY <1>1, <1>3 DEF Next, PaymentNext, OrderNext, RecordPayment, VerifyPayment, RejectPayment,
     ReversePayment, CorrectAndResubmitPayment, ApproveOrder, RejectOrder, CancelOrder,
     ApplyAdjustment, ReverseAdjustment, ReverseJournal
<1> QED
  BY <1>1, <1>2, <1>3 DEF vars

\* Every row keeps its type: no reduction takes an order's total below zero, and no
\* overpayment an invoice's amount due.
THEOREM SettlementTypeCorrect == Spec => []SettlementTypeOK
<1>1. Init => InvoicesTyped
  BY DEF Init, InvoicesTyped, NoInvoice, Invoices
<1>2. SettlementInv /\ InvoicesTyped /\ [Next]_vars => InvoicesTyped'
  BY InvoicesStay
<1>3. SettlementInv /\ InvoicesTyped => SettlementTypeOK
  BY DEF SettlementInv, RowsTyped, InvoicesTyped, SettlementTypeOK
<1> QED
  BY <1>1, <1>2, <1>3, SettlementIsSound, PTL DEF Spec

================================================================================
