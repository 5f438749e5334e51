---------------------------- MODULE StaffDesk_proofs ----------------------------
(***************************************************************************)
(* Proofs about users at the pages of staff, for any users, amounts,       *)
(* documents and requests: limits that are checked per request hold across *)
(* requests, nobody decides about his own, and no button spins for ever.   *)
(*                                                                         *)
(* The first part is about rows alone: what a service makes of a row that  *)
(* is sound is sound, and keeps what requests on their way refer to.  The  *)
(* second part is about users: what a page shows is an earlier row, and    *)
(* what was authorised on an earlier row is authorised still.  The last    *)
(* part is about pages in date: what they offer is permitted and done.     *)
(***************************************************************************)
EXTENDS StaffDesk, Sums_proofs, TLAPS

--------------------------------------------------------------------------------
\* Roles

LEMMA OnlyStaffMay ==
    ASSUME RolesAssumption, NEW u \in Users, NEW p,
           p \notin {"delivery.view", "delivery.update", "order.view"}, Has(u, p)
    PROVE  u \in Staff
<1>1. CASE u \in Drivers
  <2>1. RoleOf(u) = "DELIVERY_PARTNER"
    BY <1>1 DEF RoleOf, RolesAssumption
  <2> QED
    BY <2>1 DEF Has, PermissionsOf
<1> QED
  BY <1>1 DEF Users

\* Who may request adjustments.
LEMMA AdjustersAre ==
    ASSUME RolesAssumption, NEW u \in Users, Has(u, "order.adjust.request")
    PROVE  u \in Supers \cup Admins
<1>1. u \in Staff
  BY OnlyStaffMay
<1>2. u \notin Accountants
  <2> SUFFICES ASSUME u \in Accountants PROVE FALSE
    OBVIOUS
  <2>1. RoleOf(u) = "ACCOUNTANT"
    BY DEF RoleOf, RolesAssumption
  <2> QED
    BY <2>1 DEF Has, PermissionsOf, AccountantPermissions
<1> QED
  BY <1>1, <1>2 DEF Staff

--------------------------------------------------------------------------------
\* The payments of customers

PaymentRows == [payments : Seq(PaymentDocument)]

\* InstrumentRecordedOnce, of a row.
OneAlive(r) ==
    \A i, j \in DOMAIN r.payments :
        ({r.payments[i].status, r.payments[j].status} \subseteq {"PENDING_VERIFICATION", "VERIFIED"}
         /\ r.payments[i].number = 1 /\ r.payments[j].number = 1) => i = j

PaymentSound(r) == r \in PaymentRows /\ OneAlive(r)

PaymentRefers(r, act) ==
    /\ act.verb \in Verbs("payment") /\ act = On(act.verb, act.of)
    /\ IF act.verb = "record" THEN act.of = 0 ELSE act.of \in DOMAIN r.payments

PaymentFits(act, form) == act.verb = "record" => form.number \in 0..1

PaymentLater(r, s) == DOMAIN r.payments \subseteq DOMAIN s.payments

LEMMA PaymentsOpened ==
    ASSUME NEW r \in PaymentOpened
    PROVE  PaymentSound(r)
<1>1. PICK u \in Staff : r = [payments |-> <<NewPayment(u, 1)>>]
  BY DEF PaymentOpened
<1>2. NewPayment(u, 1) \in PaymentDocument
  BY DEF NewPayment, PaymentDocument
<1> QED
  BY <1>1, <1>2 DEF PaymentSound, PaymentRows, OneAlive

LEMMA PaymentsOffered ==
    ASSUME NEW r, NEW u, NEW act \in PaymentButtons(r, u)
    PROVE  PaymentRefers(r, act)
BY DEF PaymentButtons, PaymentHeader, PaymentTable, PaymentCards, Offer, On, PaymentRefers, Verbs

\* One payment changes its status.
LEMMA PaymentDecided ==
    ASSUME NEW r, PaymentSound(r), NEW u \in Staff, NEW i \in DOMAIN r.payments,
           NEW status \in {"VERIFIED", "REJECTED", "REVERSED"},
           status = "VERIFIED" => r.payments[i].status = "PENDING_VERIFICATION"
    PROVE  PaymentSound(Decided(r, u, i, status)) /\ PaymentLater(r, Decided(r, u, i, status))
<1> DEFINE c == IF status = "VERIFIED" THEN u ELSE r.payments[i].checker
           new == [r.payments[i] EXCEPT !.status = status, !.checker = c]
           s == Decided(r, u, i, status)
<1>1. r \in PaymentRows /\ r.payments \in Seq(PaymentDocument) /\ r.payments[i] \in PaymentDocument
  BY DEF PaymentSound, PaymentRows
<1>2. c \in Staff \cup {"nobody"}
  BY <1>1 DEF PaymentDocument
<1> HIDE DEF c
<1>3. /\ new \in PaymentDocument /\ new.status = status /\ new.number = r.payments[i].number
  BY <1>1, <1>2 DEF PaymentDocument
<1>4. s = [payments |-> [r.payments EXCEPT ![i] = new]]
  <2> DEFINE mid == [r EXCEPT !.payments[i].status = status]
  <2>1. mid = [payments |-> [r.payments EXCEPT ![i].status = status]]
    BY <1>1 DEF PaymentRows
  <2>2. s = [mid EXCEPT !.payments[i].checker = IF status = "VERIFIED" THEN u ELSE @]
    BY DEF Decided
  <2> HIDE DEF mid
  <2>3. mid.payments[i] = [r.payments[i] EXCEPT !.status = status]
    BY <1>1, <2>1
  <2>4. mid.payments[i].checker = r.payments[i].checker
    BY <1>1, <2>3 DEF PaymentDocument
  <2>5. s = [mid EXCEPT !.payments[i].checker = c]
    BY <2>2, <2>4 DEF c
  <2> HIDE DEF s
  <2> QED
    BY <1>1, <2>1, <2>3, <2>5
<1> HIDE DEF new, s
<1>5. /\ s.payments \in Seq(PaymentDocument) /\ DOMAIN s.payments = DOMAIN r.payments
      /\ s.payments[i] = new /\ \A j \in DOMAIN r.payments : j # i => s.payments[j] = r.payments[j]
  BY <1>1, <1>3, <1>4
<1>6. OneAlive(s)
  BY <1>3, <1>5 DEF OneAlive, PaymentSound
<1>7. s \in PaymentRows
  BY <1>4, <1>5 DEF PaymentRows
<1> QED
  BY <1>5, <1>6, <1>7 DEF PaymentSound, PaymentLater, s

LEMMA PaymentsServed ==
    ASSUME RolesAssumption, NEW r, PaymentSound(r), NEW u \in Users, NEW act, PaymentRefers(r, act),
           PaymentAllowed(r, u, act), NEW form, PaymentFits(act, form),
           NEW s, s = PaymentServed(r, u, act, form).row
    PROVE  PaymentSound(s) /\ PaymentLater(r, s) /\ (s # r => act \in PaymentButtons(r, u))
<1> DEFINE i == act.of
<1>1. u \in Staff
  BY OnlyStaffMay DEF PaymentAllowed
<1>2. PaymentSound(r) /\ PaymentLater(r, r)
  BY DEF PaymentLater
<1>3. CASE act.verb = "record"
  <2> DEFINE new == NewPayment(u, form.number)
  <2>1. \/ s = r
        \/ s = [r EXCEPT !.payments = Append(@, new)] /\ ~NumberTaken(r, form.number)
    <3>1. PaymentServed(r, u, act, form) =
             Checked(r, (form.number = 0 \/ form.scan) /\ ~NumberTaken(r, form.number), TRUE,
                     [r EXCEPT !.payments = Append(@, new)])
      BY <1>3 DEF PaymentServed
    <3> QED
      BY <3>1 DEF Checked, Reply
  <2>2. new \in PaymentDocument /\ new.number = form.number
    BY <1>1, <1>3 DEF PaymentFits, NewPayment, PaymentDocument
  <2>3. r \in PaymentRows /\ r.payments \in Seq(PaymentDocument)
    BY DEF PaymentSound, PaymentRows
  <2>4. ASSUME s = [r EXCEPT !.payments = Append(@, new)], ~NumberTaken(r, form.number)
        PROVE  PaymentSound(s) /\ PaymentLater(r, s)
    <3> DEFINE n == Len(r.payments) + 1
    <3>1. s = [payments |-> Append(r.payments, new)]
      BY <2>3, <2>4 DEF PaymentRows
    <3> HIDE DEF new
    <3>2. /\ s.payments \in Seq(PaymentDocument) /\ DOMAIN s.payments = DOMAIN r.payments \cup {n}
          /\ s.payments[n] = new /\ \A j \in DOMAIN r.payments : s.payments[j] = r.payments[j]
      BY <2>2, <2>3, <3>1
    <3>3. OneAlive(s)
      BY <2>2, <2>4, <3>2 DEF OneAlive, PaymentSound, NumberTaken
    <3>4. s \in PaymentRows
      BY <3>1, <3>2 DEF PaymentRows
    <3> QED
      BY <3>2, <3>3, <3>4 DEF PaymentSound, PaymentLater
  <2>5. act \in PaymentButtons(r, u)
    BY <1>3 DEF PaymentButtons, PaymentHeader, Offer, PaymentRefers, PaymentAllowed
  <2> QED
    BY <1>2, <2>1, <2>4, <2>5
<1>4. CASE act.verb \in {"verify", "reject", "reverse"}
  <2>1. i \in DOMAIN r.payments
    BY <1>4 DEF PaymentRefers
  <2>2. \/ s = r
        \/ s = Decided(r, u, i, "VERIFIED") /\ act.verb = "verify" /\ r.payments[i].status = "PENDING_VERIFICATION"
        \/ s = Decided(r, u, i, "REJECTED") /\ act.verb = "reject" /\ r.payments[i].status = "PENDING_VERIFICATION"
        \/ s = Decided(r, u, i, "REVERSED") /\ act.verb = "reverse" /\ r.payments[i].status = "VERIFIED"
    <3>1. CASE act.verb = "verify"
      <4>1. PaymentServed(r, u, act, form) = Checked(r, TRUE, Pending(r.payments[i]), Decided(r, u, i, "VERIFIED"))
        BY <3>1 DEF PaymentServed
      <4> QED
        BY <3>1, <4>1 DEF Checked, Reply, Pending
    <3>2. CASE act.verb = "reject"
      <4>1. PaymentServed(r, u, act, form) =
               Checked(r, form.notes = "enough", Pending(r.payments[i]), Decided(r, u, i, "REJECTED"))
        BY <3>2 DEF PaymentServed
      <4> QED
        BY <3>2, <4>1 DEF Checked, Reply, Pending
    <3>3. CASE act.verb = "reverse"
      <4>1. PaymentServed(r, u, act, form) =
               Checked(r, form.notes = "enough", r.payments[i].status = "VERIFIED", Decided(r, u, i, "REVERSED"))
        BY <3>3 DEF PaymentServed
      <4> QED
        BY <3>3, <4>1 DEF Checked, Reply
    <3> QED
      BY <1>4, <3>1, <3>2, <3>3
  <2>3. s # r => act \in PaymentTable(r.payments[i], i, u)
    BY <1>4, <2>2 DEF PaymentTable, Offer, PaymentRefers, PaymentAllowed
  <2>4. s # r => act \in PaymentButtons(r, u)
    BY <2>1, <2>3 DEF PaymentButtons
  <2> QED
    BY <1>1, <1>2, <2>1, <2>2, <2>4, PaymentDecided
<1> QED
  BY <1>3, <1>4 DEF PaymentRefers, Verbs

--------------------------------------------------------------------------------
\* The refunds of a credit note

CreditRows == [remaining : Nat, refunds : Seq(RefundDocument)]

\* CheckedByAnother, of a document.
ByAnother(d) ==
    d.status \in {"APPROVED", "PROCESSED", "APPLIED", "REVERSED"} =>
        d.checker # "nobody" /\ (d.checker # d.maker \/ d.maker \in Supers)

RefundSound(r) ==
    /\ r \in CreditRows
    /\ r.remaining + SumOf(r.refunds, "PROCESSED") = MaxAmount
    /\ \A i \in DOMAIN r.refunds : ByAnother(r.refunds[i])

RefundRefers(r, act) ==
    /\ act.verb \in Verbs("refund") /\ act = On(act.verb, act.of)
    /\ IF act.verb = "request" THEN act.of = 0 ELSE act.of \in DOMAIN r.refunds

RefundFits(act, form) == act.verb = "request" => form.amount \in 1..MaxAmount

RefundLater(r, s) ==
    /\ DOMAIN r.refunds \subseteq DOMAIN s.refunds
    /\ \A i \in DOMAIN r.refunds : s.refunds[i].maker = r.refunds[i].maker

LEMMA AmountOfRefund ==
    ASSUME MoneyAssumption, NEW d \in RefundDocument
    PROVE  d.amount \in 1..MaxAmount /\ d.amount \in Int
<1>1. d.amount \in 1..MaxAmount
  BY DEF RefundDocument
<1> QED
  BY <1>1 DEF MoneyAssumption

LEMMA CreditsOpened ==
    ASSUME RolesAssumption, StaffDeskAssumption, MoneyAssumption, NEW r \in CreditOpened
    PROVE  RefundSound(r)
<1>1. CASE r = NewCredit
  <2>1. r \in CreditRows /\ DOMAIN r.refunds = {}
    BY <1>1 DEF NewCredit, CreditRows, MoneyAssumption
  <2>2. SumOf(r.refunds, "PROCESSED") = 0
    BY <2>1, SumEmpty DEF SumOf
  <2> QED
    BY <1>1, <2>1, <2>2 DEF NewCredit, RefundSound, MoneyAssumption
<1>2. CASE r # NewCredit
  <2>1. PICK u \in Admins \cup Accountants, v \in Supers : r = TwiceApproved(u, v)
    BY <1>2, SMT DEF CreditOpened
  <2> DEFINE d == ApprovedRefund(u, MaxAmount, v)
             e == ApprovedRefund(u, 1, v)
  <2>2. /\ u \in Staff /\ v \in Staff /\ v # u /\ v # "nobody"
    BY DEF Staff, Users, RolesAssumption, StaffDeskAssumption
  <2>3. /\ d \in RefundDocument /\ d.status = "APPROVED" /\ d.checker = v /\ d.maker = u
        /\ e \in RefundDocument /\ e.status = "APPROVED" /\ e.checker = v /\ e.maker = u
    <3>1. 1 \in 1..MaxAmount /\ MaxAmount \in 1..MaxAmount
      BY DEF MoneyAssumption
    <3> QED
      BY <2>2, <3>1 DEF RefundDocument, ApprovedRefund
  <2>4. r = [remaining |-> MaxAmount, refunds |-> <<d, e>>]
    BY <2>1 DEF TwiceApproved
  <2> HIDE DEF d, e
  <2>5. r \in CreditRows /\ DOMAIN r.refunds = 1..2 /\ r.refunds[1] = d /\ r.refunds[2] = e
    BY <2>3, <2>4 DEF CreditRows, MoneyAssumption
  <2>6. \A i \in 1..2 : r.refunds[i].status = "APPROVED" /\ ByAnother(r.refunds[i])
    BY <2>2, <2>3, <2>5 DEF ByAnother
  <2>7. SumOf(r.refunds, "PROCESSED") = 0
    <3> DEFINE f == Amounts(r.refunds, "PROCESSED")
    <3>1. \A i \in DOMAIN r.refunds : f[i] = 0
      BY <2>5, <2>6 DEF Amounts
    <3>2. IsFiniteSet(DOMAIN r.refunds)
      BY <2>5, ListIsFinite
    <3> HIDE DEF f
    <3>3. SumOver(f, DOMAIN r.refunds) = 0
      BY <3>1, <3>2, SumOfZeros
    <3> QED
      BY <3>3 DEF SumOf, f
  <2> QED
    BY <2>4, <2>5, <2>6, <2>7 DEF RefundSound, MoneyAssumption
<1> QED
  BY <1>1, <1>2

LEMMA RefundsOffered ==
    ASSUME NEW r, NEW u, NEW act \in CreditButtons(r, u)
    PROVE  RefundRefers(r, act)
BY DEF CreditButtons, CreditHeader, RefundToolbar, Offer, On, RefundRefers, Verbs

\* Requested with another amount of the credit note; what is not processed costs nothing.
LEMMA RefundRequested ==
    ASSUME MoneyAssumption, NEW r, RefundSound(r), NEW u \in Staff, NEW a \in 1..MaxAmount,
           NEW s, s = [r EXCEPT !.refunds = Append(@, NewRefund(u, a))]
    PROVE  RefundSound(s) /\ RefundLater(r, s)
<1> DEFINE n == Len(r.refunds)
           new == NewRefund(u, a)
           e == Amounts(r.refunds, "PROCESSED")
           f == Amounts(s.refunds, "PROCESSED")
<1>1. r \in CreditRows /\ r.refunds \in Seq(RefundDocument) /\ n \in Nat /\ DOMAIN r.refunds = 1..n
  BY DEF RefundSound, CreditRows
<1>2. new \in RefundDocument /\ new.status = "REQUESTED"
  BY DEF NewRefund, RefundDocument
<1>3. s = [remaining |-> r.remaining, refunds |-> Append(r.refunds, new)]
  BY <1>1 DEF CreditRows
<1> HIDE DEF new
<1>4. /\ s.refunds \in Seq(RefundDocument) /\ DOMAIN s.refunds = 1..(n + 1) /\ s.refunds[n + 1] = new
      /\ \A i \in 1..n : s.refunds[i] = r.refunds[i]
  BY <1>1, <1>2, <1>3
<1>5. s \in CreditRows /\ s.remaining = r.remaining
  BY <1>1, <1>3, <1>4 DEF CreditRows
<1>6. \A i \in DOMAIN s.refunds : ByAnother(s.refunds[i])
  BY <1>1, <1>2, <1>4 DEF ByAnother, RefundSound
<1>7. SumOf(s.refunds, "PROCESSED") = SumOf(r.refunds, "PROCESSED")
  <2>1. \A i \in 1..n : e[i] \in Int /\ f[i] = e[i]
    <3>1. \A i \in 1..n : r.refunds[i].amount \in Int
      BY <1>1, AmountOfRefund
    <3> QED
      BY <1>1, <1>4, <3>1 DEF Amounts
  <2>2. f[n + 1] = 0
    BY <1>1, <1>2, <1>4 DEF Amounts
  <2> HIDE DEF e, f, n
  <2>3. n \in Nat /\ f[n + 1] \in Int
    BY <1>1, <2>2 DEF n
  <2>3a. SumOver(f, 1..(n + 1)) = SumOver(e, 1..n) + f[n + 1]
    BY <2>1, <2>3, SumAppend
  <2>4. SumOver(e, 1..n) \in Int
    BY <2>1, <2>3, SumType, ListIsFinite
  <2>5. SumOver(f, 1..(n + 1)) = SumOver(e, 1..n)
    BY <2>2, <2>3a, <2>4
  <2> QED
    BY <1>1, <1>4, <2>5 DEF SumOf, e, f, n
<1>8. RefundLater(r, s)
  BY <1>1, <1>4 DEF RefundLater
<1> QED
  BY <1>5, <1>6, <1>7, <1>8 DEF RefundSound

\* One refund becomes what it is now, and is paid if that is PROCESSED.
LEMMA RefundBecomes ==
    ASSUME MoneyAssumption, NEW r, RefundSound(r), NEW i \in DOMAIN r.refunds,
           NEW new \in RefundDocument, ByAnother(new),
           new.maker = r.refunds[i].maker, new.amount = r.refunds[i].amount,
           r.refunds[i].status # "PROCESSED",
           NEW m \in Nat,
           m = IF new.status = "PROCESSED" THEN r.remaining - new.amount ELSE r.remaining,
           NEW s, s = [remaining |-> m, refunds |-> [r.refunds EXCEPT ![i] = new]]
    PROVE  RefundSound(s) /\ RefundLater(r, s)
<1> DEFINE S == DOMAIN r.refunds
           e == Amounts(r.refunds, "PROCESSED")
           f == Amounts(s.refunds, "PROCESSED")
<1>1. r \in CreditRows /\ r.refunds \in Seq(RefundDocument) /\ S = 1..Len(r.refunds) /\ Len(r.refunds) \in Nat
  BY DEF RefundSound, CreditRows
<1>2. /\ s.refunds \in Seq(RefundDocument) /\ DOMAIN s.refunds = S /\ s.refunds[i] = new
      /\ \A j \in S : j # i => s.refunds[j] = r.refunds[j]
  BY <1>1
<1>3. s \in CreditRows /\ s.remaining = m
  BY <1>2 DEF CreditRows
<1>4. \A j \in DOMAIN s.refunds : ByAnother(s.refunds[j])
  BY <1>2 DEF RefundSound
<1>5. /\ SumOf(s.refunds, "PROCESSED") =
            SumOf(r.refunds, "PROCESSED") + (IF new.status = "PROCESSED" THEN new.amount ELSE 0)
      /\ SumOf(r.refunds, "PROCESSED") \in Int
  <2>1. \A j \in S : e[j] \in Int /\ f[j] \in Int
    <3>1. \A j \in S : r.refunds[j].amount \in Int /\ s.refunds[j].amount \in Int
      BY <1>1, <1>2, AmountOfRefund
    <3> QED
      BY <1>2, <3>1 DEF Amounts
  <2>2. \A j \in S \ {i} : f[j] = e[j]
    BY <1>2 DEF Amounts
  <2>3. f[i] = (IF new.status = "PROCESSED" THEN new.amount ELSE 0) /\ e[i] = 0
    BY <1>2 DEF Amounts
  <2>4. IsFiniteSet(S)
    BY <1>1, ListIsFinite
  <2> HIDE DEF e, f, S
  <2>5. SumOver(f, S) = SumOver(e, S) + f[i] - e[i]
    BY <2>1, <2>2, <2>4, SumChange DEF S
  <2>6. SumOver(e, S) \in Int
    BY <2>1, <2>4, SumType
  <2>7. SumOver(f, S) = SumOver(e, S) + (IF new.status = "PROCESSED" THEN new.amount ELSE 0)
    BY <2>3, <2>5, <2>6 DEF RefundDocument
  <2> QED
    BY <1>2, <2>6, <2>7 DEF SumOf, e, f, S
<1>6. RefundLater(r, s)
  BY <1>2 DEF RefundLater
<1>7. s.remaining + SumOf(s.refunds, "PROCESSED") = MaxAmount
  BY <1>1, <1>3, <1>5 DEF RefundSound, CreditRows, RefundDocument, MoneyAssumption
<1> QED
  BY <1>3, <1>4, <1>6, <1>7 DEF RefundSound

LEMMA RefundsServed ==
    ASSUME RolesAssumption, StaffDeskAssumption, MoneyAssumption, NEW r, RefundSound(r),
           NEW u \in Users, NEW act, RefundRefers(r, act), RefundAllowed(r, u, act),
           NEW form, RefundFits(act, form), NEW s, s = RefundServed(r, u, act, form).row
    PROVE  RefundSound(s) /\ RefundLater(r, s) /\ (s # r => act \in CreditButtons(r, u))
<1> DEFINE i == act.of
           d == r.refunds[i]
<1>1. RefundSound(r) /\ RefundLater(r, r)
  BY DEF RefundLater
<1>2. /\ r \in CreditRows /\ r.refunds \in Seq(RefundDocument) /\ r.remaining \in Nat
      /\ u # "nobody"
  BY DEF RefundSound, CreditRows, StaffDeskAssumption
<1>3. CASE act.verb = "request"
  <2>1. RefundServed(r, u, act, form) =
           Checked(r, r.remaining > 0 /\ form.amount <= r.remaining, TRUE,
                   [r EXCEPT !.refunds = Append(@, NewRefund(u, form.amount))])
    BY <1>3 DEF RefundServed
  <2>2. s = r \/ (s = [r EXCEPT !.refunds = Append(@, NewRefund(u, form.amount))] /\ r.remaining > 0)
    BY <2>1 DEF Checked, Reply
  <2>3. u \in Staff
    BY <1>3, OnlyStaffMay DEF RefundAllowed
  <2>4. form.amount \in 1..MaxAmount
    BY <1>3 DEF RefundFits
  <2>5. s # r => act \in CreditButtons(r, u)
    BY <1>3, <2>2 DEF CreditButtons, CreditHeader, Offer, RefundRefers
  <2>6. CASE s = r
    BY <1>1, <2>6
  <2>7. CASE s # r
    BY <2>2, <2>3, <2>4, <2>5, <2>7, RefundRequested
  <2> QED
    BY <2>6, <2>7
<1>4. CASE act.verb # "request"
  <2>1. i \in DOMAIN r.refunds /\ d \in RefundDocument /\ ByAnother(d)
    BY <1>2, <1>4 DEF RefundRefers, RefundSound
  <2>2. SUFFICES ASSUME s # r
                 PROVE  /\ RefundSound(s) /\ RefundLater(r, s)
                        /\ act \in RefundToolbar(d, i, u)
    BY <1>1, <2>1 DEF CreditButtons
  <2>3. ASSUME NEW new \in RefundDocument, ByAnother(new), new.maker = d.maker,
               new.amount = d.amount, new.status # "PROCESSED", d.status # "PROCESSED",
               s = [r EXCEPT !.refunds[i] = new]
        PROVE  RefundSound(s) /\ RefundLater(r, s)
    <3> DEFINE m == r.remaining
    <3>1. s = [remaining |-> m, refunds |-> [r.refunds EXCEPT ![i] = new]]
      BY <1>2, <2>3 DEF CreditRows
    <3>2. m \in Nat /\ m = IF new.status = "PROCESSED" THEN r.remaining - new.amount ELSE r.remaining
      BY <1>2, <2>3
    <3>3. /\ new.maker = r.refunds[i].maker /\ new.amount = r.refunds[i].amount
          /\ r.refunds[i].status # "PROCESSED"
      BY <2>3
    <3> HIDE DEF m, d, i
    <3> QED
      BY <2>1, <2>3, <3>1, <3>2, <3>3, RefundBecomes
  <2>4. ASSUME NEW status \in {"UNDER_REVIEW", "REJECTED", "CANCELLED"}, UndecidedRefund(d),
               s = [r EXCEPT !.refunds[i].status = status]
        PROVE  RefundSound(s) /\ RefundLater(r, s)
    <3> DEFINE new == [d EXCEPT !.status = status]
    <3>1. /\ new \in RefundDocument /\ new.maker = d.maker /\ new.amount = d.amount
          /\ new.status = status
      BY <2>1 DEF RefundDocument
    <3>2. ByAnother(new)
      BY <3>1 DEF ByAnother
    <3>3. s = [r EXCEPT !.refunds[i] = new]
      BY <2>4
    <3> HIDE DEF new
    <3> QED
      BY <2>3, <2>4, <3>1, <3>2, <3>3 DEF UndecidedRefund
  <2>5. CASE act.verb = "review"
    <3>1. RefundServed(r, u, act, form) =
             Checked(r, TRUE, d.status = "REQUESTED", [r EXCEPT !.refunds[i].status = "UNDER_REVIEW"])
      BY <2>5 DEF RefundServed
    <3>2. s = [r EXCEPT !.refunds[i].status = "UNDER_REVIEW"] /\ d.status = "REQUESTED"
      BY <2>2, <3>1 DEF Checked, Reply
    <3>3. act \in RefundToolbar(d, i, u)
      BY <2>5, <3>2 DEF RefundToolbar, Offer, RefundRefers
    <3> QED
      BY <2>4, <3>2, <3>3 DEF UndecidedRefund
  <2>6. CASE act.verb = "reject"
    <3>1. RefundServed(r, u, act, form) =
             Checked(r, TRUE, UndecidedRefund(d), [r EXCEPT !.refunds[i].status = "REJECTED"])
      BY <2>6 DEF RefundServed
    <3>2. s = [r EXCEPT !.refunds[i].status = "REJECTED"] /\ UndecidedRefund(d)
      BY <2>2, <3>1 DEF Checked, Reply
    <3>3. act \in RefundToolbar(d, i, u)
      BY <2>6, <3>2 DEF RefundToolbar, Offer, RefundRefers, UndecidedRefund
    <3> QED
      BY <2>4, <3>2, <3>3
  <2>7. CASE act.verb = "cancel"
    <3>1. RefundServed(r, u, act, form) =
             Checked(r, TRUE, UndecidedRefund(d), [r EXCEPT !.refunds[i].status = "CANCELLED"])
      BY <2>7 DEF RefundServed
    <3>2. s = [r EXCEPT !.refunds[i].status = "CANCELLED"] /\ UndecidedRefund(d)
      BY <2>2, <3>1 DEF Checked, Reply
    <3>3. act \in RefundToolbar(d, i, u)
      BY <2>7, <3>2 DEF RefundToolbar, Offer, RefundRefers, UndecidedRefund
    <3> QED
      BY <2>4, <3>2, <3>3
  <2>8. CASE act.verb = "approve"
    <3> DEFINE mid == [r EXCEPT !.refunds[i].status = "APPROVED"]
               end == [mid EXCEPT !.refunds[i].checker = u]
               new == [[d EXCEPT !.status = "APPROVED"] EXCEPT !.checker = u]
    <3>1. RefundServed(r, u, act, form) =
             Checked(r, TRUE, UndecidedRefund(d) /\ Covers(r, d), end)
      BY <2>8 DEF RefundServed
    <3> HIDE DEF end
    <3>2. s = end /\ UndecidedRefund(d)
      BY <2>2, <3>1 DEF Checked, Reply
    <3>3. Has(u, "refund.approve") /\ MakerChecker(u, d)
      BY <2>8 DEF RefundAllowed
    <3>4. u \in Staff
      BY <3>3, OnlyStaffMay
    <3>5. act \in RefundToolbar(d, i, u)
      BY <2>8, <3>2, <3>3 DEF RefundToolbar, Offer, RefundRefers, UndecidedRefund, MakerChecker
    <3>6. /\ new \in RefundDocument /\ new.maker = d.maker /\ new.amount = d.amount
          /\ new.status = "APPROVED" /\ new.checker = u
      BY <2>1, <3>4 DEF RefundDocument
    <3>7. ByAnother(new)
      BY <1>2, <3>3, <3>6 DEF ByAnother, MakerChecker
    <3>8. s = [r EXCEPT !.refunds[i] = new]
      <4>1. mid.refunds[i] = [d EXCEPT !.status = "APPROVED"] /\ mid.refunds = [r.refunds EXCEPT ![i].status = "APPROVED"]
        BY <1>2, <2>1 DEF CreditRows
      <4>2. end = [mid EXCEPT !.refunds[i] = new]
        BY <4>1 DEF end
      <4> HIDE DEF new
      <4>3. [mid EXCEPT !.refunds[i] = new] = [r EXCEPT !.refunds[i] = new]
        BY <1>2, <2>1 DEF CreditRows
      <4> QED
        BY <3>2, <4>2, <4>3
    <3> HIDE DEF new
    <3> QED
      BY <2>3, <3>2, <3>5, <3>6, <3>7, <3>8 DEF UndecidedRefund
  <2>9. CASE act.verb = "process"
    <3> DEFINE mid == [r EXCEPT !.refunds[i].status = "PROCESSED"]
               end == [mid EXCEPT !.remaining = @ - d.amount]
               new == [d EXCEPT !.status = "PROCESSED"]
    <3>1. RefundServed(r, u, act, form) =
             IF d.status = "PROCESSED" THEN Reply(r, "done")
             ELSE Checked(r, TRUE, d.status = "APPROVED" /\ Covers(r, d), end)
      BY <2>9 DEF RefundServed
    <3> HIDE DEF end
    <3>2. s = end /\ d.status = "APPROVED" /\ Covers(r, d)
      BY <2>2, <3>1 DEF Checked, Reply
    <3>3. act \in RefundToolbar(d, i, u)
      BY <2>9, <3>2 DEF RefundToolbar, Offer, RefundRefers
    <3>4. /\ new \in RefundDocument /\ new.maker = d.maker /\ new.amount = d.amount
          /\ new.status = "PROCESSED" /\ new.checker = d.checker
      BY <2>1 DEF RefundDocument
    <3>5. ByAnother(new)
      BY <2>1, <3>2, <3>4 DEF ByAnother
    <3>6. s = [remaining |-> r.remaining - d.amount, refunds |-> [r.refunds EXCEPT ![i] = new]]
      BY <1>2, <2>1, <3>2 DEF CreditRows, end
    <3>7. r.remaining - d.amount \in Nat
      BY <1>2, <2>1, <3>2, AmountOfRefund DEF Covers
    <3> HIDE DEF new, d
    <3>8. RefundSound(s) /\ RefundLater(r, s)
      BY <2>1, <3>2, <3>4, <3>5, <3>6, <3>7, RefundBecomes DEF d
    <3> QED
      BY <3>3, <3>8 DEF d
  <2> QED
    BY <1>4, <2>5, <2>6, <2>7, <2>8, <2>9 DEF RefundRefers, Verbs
<1> QED
  BY <1>3, <1>4

--------------------------------------------------------------------------------
\* The bills and payments of a supplier

SupplierRows == [bills : Seq(BillDocument), payments : Seq(SupplierPaymentDocument)]

\* BillsAddUp, of a bill of which this much is paid.
BillAddsUp(bill, paid) ==
    /\ bill.due = bill.amount - paid /\ bill.due >= 0
    /\ bill.status = "PAID" <=> bill.due = 0
    /\ bill.status \in {"DRAFT", "POSTED"} <=> paid = 0

SupplierSound(r) ==
    /\ r \in SupplierRows
    /\ \A i \in DOMAIN r.payments : r.payments[i].bill \in 0..Len(r.bills)
    /\ \A b \in DOMAIN r.bills : BillAddsUp(r.bills[b], PaidFor(r.payments, b))

SupplierRefers(r, act) ==
    /\ act.verb \in Verbs("supplier") /\ act = On(act.verb, act.of)
    /\ act.verb = "bill" => act.of = 0
    /\ act.verb = "post" => act.of \in DOMAIN r.bills
    /\ act.verb = "reverse" => act.of \in DOMAIN r.payments

SupplierFits(r, act, form) ==
    /\ act.verb = "bill" => form.total = MaxAmount
    /\ act.verb = "pay" => form.bill \in 0..Len(r.bills) /\ form.amount \in 1..MaxAmount

SupplierLater(r, s) == Len(r.bills) <= Len(s.bills) /\ Len(r.payments) <= Len(s.payments)

LEMMA AmountOfBill ==
    ASSUME MoneyAssumption, NEW bill \in BillDocument
    PROVE  /\ bill.amount \in 1..MaxAmount /\ bill.amount \in Int
           /\ bill.due \in 0..MaxAmount /\ bill.due \in Int
<1>1. bill.amount \in 1..MaxAmount /\ bill.due \in 0..MaxAmount
  BY DEF BillDocument
<1> QED
  BY <1>1 DEF MoneyAssumption

LEMMA AmountOfPayment ==
    ASSUME MoneyAssumption, NEW payment \in SupplierPaymentDocument
    PROVE  payment.amount \in 1..MaxAmount /\ payment.amount \in Nat /\ payment.bill \in Nat
<1>1. payment.amount \in 1..MaxAmount /\ payment.bill \in Nat
  BY DEF SupplierPaymentDocument
<1> QED
  BY <1>1 DEF MoneyAssumption

LEMMA PaidIsNatural ==
    ASSUME MoneyAssumption, NEW q \in Seq(SupplierPaymentDocument), NEW b
    PROVE  /\ \A i \in DOMAIN q : Payments(q, b)[i] \in Nat
           /\ PaidFor(q, b) \in Nat
<1> DEFINE f == Payments(q, b)
<1>1. \A i \in DOMAIN q : f[i] \in Nat
  <2>1. \A i \in DOMAIN q : q[i].amount \in Nat
    BY AmountOfPayment
  <2> QED
    BY <2>1 DEF Payments
<1>2. IsFiniteSet(DOMAIN q)
  BY ListIsFinite
<1> HIDE DEF f
<1>3. SumOver(f, DOMAIN q) \in Nat
  BY <1>1, <1>2, SumIsNatural
<1> QED
  BY <1>1, <1>3 DEF PaidFor, f

LEMMA PaidMore ==
    ASSUME MoneyAssumption, NEW q \in Seq(SupplierPaymentDocument), NEW b,
           NEW new \in SupplierPaymentDocument, new.status = "COMPLETED"
    PROVE  PaidFor(Append(q, new), b) = PaidFor(q, b) + (IF new.bill = b THEN new.amount ELSE 0)
<1> DEFINE n == Len(q)
           more == Append(q, new)
           e == Payments(q, b)
           f == Payments(more, b)
<1>1. n \in Nat /\ DOMAIN q = 1..n /\ DOMAIN more = 1..(n + 1) /\ more[n + 1] = new
      /\ \A i \in 1..n : more[i] = q[i]
  OBVIOUS
<1>2. \A i \in 1..n : e[i] \in Int
  BY <1>1, PaidIsNatural
<1>3. \A i \in 1..n : f[i] = e[i]
  BY <1>1 DEF Payments
<1>4. f[n + 1] = (IF new.bill = b THEN new.amount ELSE 0) /\ f[n + 1] \in Int
  <2>1. new.amount \in Int
    BY AmountOfPayment
  <2> QED
    BY <1>1, <2>1 DEF Payments
<1> HIDE DEF n, e, f
<1>5. SumOver(f, 1..(n + 1)) = SumOver(e, 1..n) + f[n + 1]
  BY <1>1, <1>2, <1>3, <1>4, SumAppend
<1> QED
  BY <1>1, <1>4, <1>5 DEF PaidFor, e, f

ReversedIn(q, i) == [q EXCEPT ![i].status = "REVERSED"]

LEMMA PaidLess ==
    ASSUME MoneyAssumption, NEW q \in Seq(SupplierPaymentDocument), NEW b, NEW i \in DOMAIN q,
           q[i].status = "COMPLETED",
           NEW less, less = ReversedIn(q, i)
    PROVE  /\ less \in Seq(SupplierPaymentDocument) /\ DOMAIN less = DOMAIN q /\ Len(less) = Len(q)
           /\ \A j \in DOMAIN q : less[j].bill = q[j].bill
           /\ PaidFor(less, b) = PaidFor(q, b) - (IF q[i].bill = b THEN q[i].amount ELSE 0)
<1> DEFINE S == DOMAIN q
           new == [q[i] EXCEPT !.status = "REVERSED"]
           e == Payments(q, b)
           f == Payments(less, b)
<1>1. /\ new \in SupplierPaymentDocument /\ new.status = "REVERSED" /\ new.bill = q[i].bill
      /\ less = [q EXCEPT ![i] = new]
  <2>1. q[i] \in SupplierPaymentDocument
    OBVIOUS
  <2>2. less = [q EXCEPT ![i] = new]
    BY DEF ReversedIn
  <2> QED
    BY <2>1, <2>2 DEF SupplierPaymentDocument
<1> HIDE DEF new
<1>2. /\ less \in Seq(SupplierPaymentDocument) /\ DOMAIN less = S /\ less[i] = new
      /\ \A j \in S : j # i => less[j] = q[j]
  BY <1>1
<1>3. Len(less) = Len(q) /\ \A j \in S : less[j].bill = q[j].bill
  BY <1>1, <1>2
<1>4. \A j \in S : e[j] \in Int /\ f[j] \in Int
  <2>1. \A j \in S : e[j] \in Nat
    BY PaidIsNatural
  <2>2. \A j \in S : f[j] \in Nat
    BY <1>2, PaidIsNatural
  <2> HIDE DEF e, f, S
  <2> QED
    BY <2>1, <2>2
<1>5. \A j \in S \ {i} : f[j] = e[j]
  BY <1>2 DEF Payments
<1>6. f[i] = 0 /\ e[i] = (IF q[i].bill = b THEN q[i].amount ELSE 0)
  BY <1>1, <1>2 DEF Payments
<1>7. IsFiniteSet(S)
  BY ListIsFinite
<1>7a. i \in S
  OBVIOUS
<1> HIDE DEF e, f, S
<1>8. SumOver(f, S) = SumOver(e, S) + f[i] - e[i]
  BY <1>4, <1>5, <1>7, <1>7a, SumChange
<1>9. SumOver(e, S) \in Int /\ e[i] \in Int
  BY <1>4, <1>7, SumType DEF S
<1>10. SumOver(f, S) = SumOver(e, S) - e[i]
  BY <1>6, <1>8, <1>9
<1> QED
  BY <1>2, <1>3, <1>6, <1>10 DEF PaidFor, e, f, S

LEMMA SuppliersOpened ==
    ASSUME MoneyAssumption, NEW r \in SupplierOpened
    PROVE  SupplierSound(r)
<1> DEFINE bill == [status |-> "POSTED", amount |-> MaxAmount, due |-> MaxAmount]
<1>1. r = [bills |-> <<bill>>, payments |-> <<>>]
  BY DEF SupplierOpened
<1>2. bill \in BillDocument
  BY DEF BillDocument, MoneyAssumption
<1>3. BillAddsUp(bill, 0)
  BY DEF BillAddsUp, MoneyAssumption
<1> HIDE DEF bill
<1>4. r \in SupplierRows /\ DOMAIN r.payments = {} /\ DOMAIN r.bills = {1} /\ r.bills[1] = bill
  BY <1>1, <1>2 DEF SupplierRows
<1>5. \A b : PaidFor(r.payments, b) = 0
  BY <1>4, SumEmpty DEF PaidFor
<1> QED
  BY <1>3, <1>4, <1>5 DEF SupplierSound

LEMMA SuppliersOffered ==
    ASSUME NEW r, NEW u, NEW act \in SupplierButtons(r, u)
    PROVE  SupplierRefers(r, act)
<1>1. CASE act \in SupplierHeader
  BY <1>1 DEF SupplierHeader, On, SupplierRefers, Verbs
<1>2. ASSUME NEW i \in DOMAIN r.bills, act \in BillsTab(r.bills[i], i)
      PROVE  SupplierRefers(r, act)
  BY <1>2 DEF BillsTab, Offer, On, SupplierRefers, Verbs
<1>3. ASSUME NEW i \in DOMAIN r.payments, act \in PaymentsTab(r.payments[i], i)
      PROVE  SupplierRefers(r, act)
  BY <1>3 DEF PaymentsTab, Offer, On, SupplierRefers, Verbs
<1>4. \/ act \in SupplierHeader
      \/ \E i \in DOMAIN r.bills : act \in BillsTab(r.bills[i], i)
      \/ \E i \in DOMAIN r.payments : act \in PaymentsTab(r.payments[i], i)
  BY DEF SupplierButtons
<1> QED
  BY <1>1, <1>2, <1>3, <1>4

\* A bill is received, of which nothing is paid yet.
LEMMA BillReceived ==
    ASSUME MoneyAssumption, NEW r, SupplierSound(r), NEW new \in BillDocument,
           new.due = new.amount, new.status \in {"DRAFT", "POSTED"},
           NEW s, s = [r EXCEPT !.bills = Append(@, new)]
    PROVE  SupplierSound(s) /\ SupplierLater(r, s)
<1> DEFINE n == Len(r.bills)
<1>1. /\ r \in SupplierRows /\ r.bills \in Seq(BillDocument) /\ n \in Nat /\ DOMAIN r.bills = 1..n
      /\ r.payments \in Seq(SupplierPaymentDocument) /\ Len(r.payments) \in Nat
  BY DEF SupplierSound, SupplierRows
<1>2. s = [bills |-> Append(r.bills, new), payments |-> r.payments]
  BY <1>1 DEF SupplierRows
<1>3. /\ s.bills \in Seq(BillDocument) /\ DOMAIN s.bills = 1..(n + 1) /\ s.bills[n + 1] = new
      /\ Len(s.bills) = n + 1 /\ s.payments = r.payments
      /\ \A b \in 1..n : s.bills[b] = r.bills[b]
  BY <1>1, <1>2
<1>4. s \in SupplierRows
  BY <1>1, <1>2, <1>3 DEF SupplierRows
<1>5. \A i \in DOMAIN r.payments : r.payments[i].bill \in 0..n
  BY DEF SupplierSound
<1>6. PaidFor(r.payments, n + 1) = 0
  <2> DEFINE f == Payments(r.payments, n + 1)
  <2>1. \A i \in DOMAIN r.payments : f[i] = 0
    BY <1>1, <1>5 DEF Payments
  <2>2. IsFiniteSet(DOMAIN r.payments)
    BY <1>1, ListIsFinite
  <2> HIDE DEF f
  <2>3. SumOver(f, DOMAIN r.payments) = 0
    BY <2>1, <2>2, SumOfZeros
  <2> QED
    BY <2>3 DEF PaidFor, f
<1>7. BillAddsUp(new, 0)
  BY AmountOfBill DEF BillAddsUp
<1>8. \A b \in DOMAIN s.bills : BillAddsUp(s.bills[b], PaidFor(s.payments, b))
  BY <1>1, <1>3, <1>6, <1>7 DEF SupplierSound
<1>9. \A i \in DOMAIN s.payments : s.payments[i].bill \in 0..Len(s.bills)
  BY <1>1, <1>3, <1>5
<1> QED
  BY <1>1, <1>3, <1>4, <1>8, <1>9 DEF SupplierSound, SupplierLater

\* A draft is posted.
LEMMA BillPosted ==
    ASSUME MoneyAssumption, NEW r, SupplierSound(r), NEW i \in DOMAIN r.bills,
           r.bills[i].status = "DRAFT", NEW s, s = [r EXCEPT !.bills[i].status = "POSTED"]
    PROVE  SupplierSound(s) /\ SupplierLater(r, s)
<1> DEFINE new == [r.bills[i] EXCEPT !.status = "POSTED"]
<1>1. /\ r \in SupplierRows /\ r.bills \in Seq(BillDocument) /\ r.payments \in Seq(SupplierPaymentDocument)
      /\ r.bills[i] \in BillDocument /\ Len(r.bills) \in Nat /\ Len(r.payments) \in Nat
  BY DEF SupplierSound, SupplierRows
<1>2. s = [bills |-> [r.bills EXCEPT ![i] = new], payments |-> r.payments]
  BY <1>1 DEF SupplierRows
<1>3. /\ new \in BillDocument /\ new.status = "POSTED" /\ new.amount = r.bills[i].amount
      /\ new.due = r.bills[i].due
  BY <1>1 DEF BillDocument
<1> HIDE DEF new
<1>4. /\ s.bills \in Seq(BillDocument) /\ DOMAIN s.bills = DOMAIN r.bills /\ s.bills[i] = new
      /\ Len(s.bills) = Len(r.bills) /\ s.payments = r.payments
      /\ \A b \in DOMAIN r.bills : b # i => s.bills[b] = r.bills[b]
  BY <1>1, <1>2, <1>3
<1>5. s \in SupplierRows
  BY <1>1, <1>2, <1>4 DEF SupplierRows
<1>6. BillAddsUp(new, PaidFor(r.payments, i))
  BY <1>3 DEF SupplierSound, BillAddsUp
<1>7. \A b \in DOMAIN s.bills : BillAddsUp(s.bills[b], PaidFor(s.payments, b))
  BY <1>4, <1>6 DEF SupplierSound
<1> QED
  BY <1>1, <1>4, <1>5, <1>7 DEF SupplierSound, SupplierLater

\* A bill, if any, is paid no more than it is due for.
LEMMA BillPaid ==
    ASSUME MoneyAssumption, NEW r, SupplierSound(r), NEW form,
           form.bill \in 0..Len(r.bills), form.amount \in 1..MaxAmount,
           form.bill # 0 => /\ Payable(r.bills[form.bill])
                            /\ form.amount <= r.bills[form.bill].due,
           NEW s, s = recordSupplierPayment(r, form)
    PROVE  SupplierSound(s) /\ SupplierLater(r, s)
<1> DEFINE n == Len(r.payments)
           new == [bill |-> form.bill, amount |-> form.amount, status |-> "COMPLETED"]
           c == form.bill
           bill == r.bills[c]
           after == Paid(bill, form.amount)
<1>1. /\ r \in SupplierRows /\ r.bills \in Seq(BillDocument) /\ r.payments \in Seq(SupplierPaymentDocument)
      /\ Len(r.bills) \in Nat /\ n \in Nat /\ DOMAIN r.payments = 1..n /\ DOMAIN r.bills = 1..Len(r.bills)
  BY DEF SupplierSound, SupplierRows
<1>2. /\ new \in SupplierPaymentDocument /\ new.status = "COMPLETED" /\ new.bill = c
      /\ new.amount = form.amount /\ form.amount \in Nat
  BY <1>1 DEF SupplierPaymentDocument, MoneyAssumption
<1>3. s = [bills |-> IF c = 0 THEN r.bills ELSE [r.bills EXCEPT ![c] = after],
           payments |-> Append(r.payments, new)]
  <2>1. [r EXCEPT !.payments = Append(@, new)] = [bills |-> r.bills, payments |-> Append(r.payments, new)]
    <3> DEFINE x == Append(r.payments, new)
    <3>1. r = [bills |-> r.bills, payments |-> r.payments]
      BY <1>1 DEF SupplierRows
    <3> HIDE DEF x
    <3>2. [r EXCEPT !.payments = x] = [bills |-> r.bills, payments |-> x]
      BY <3>1
    <3> QED
      BY <3>2 DEF x
  <2> HIDE DEF new
  <2>2. s = IF c = 0 THEN [r EXCEPT !.payments = Append(@, new)]
            ELSE [[r EXCEPT !.payments = Append(@, new)] EXCEPT !.bills[c] = Paid(@, form.amount)]
    BY DEF recordSupplierPayment, new
  <2> QED
    BY <2>1, <2>2
<1> HIDE DEF new, after
<1>4. c # 0 => /\ c \in DOMAIN r.bills /\ bill \in BillDocument /\ after \in BillDocument
               /\ after.amount = bill.amount /\ after.due = bill.due - form.amount
               /\ after.status = IF bill.due = form.amount THEN "PAID" ELSE "PARTIALLY_PAID"
  <2> SUFFICES ASSUME c # 0 PROVE /\ c \in DOMAIN r.bills /\ bill \in BillDocument /\ after \in BillDocument
                                  /\ after.amount = bill.amount /\ after.due = bill.due - form.amount
                                  /\ after.status = IF bill.due = form.amount THEN "PAID" ELSE "PARTIALLY_PAID"
    OBVIOUS
  <2>1. c \in DOMAIN r.bills
    BY <1>1
  <2>2. bill \in BillDocument
    BY <1>1, <2>1
  <2>3. bill.due - form.amount \in 0..MaxAmount
    BY <1>2, <2>2, AmountOfBill DEF MoneyAssumption
  <2>4. /\ after.amount = bill.amount /\ after.due = bill.due - form.amount
        /\ after.status = IF bill.due = form.amount THEN "PAID" ELSE "PARTIALLY_PAID"
        /\ after \in BillDocument
    BY <2>2, <2>3 DEF Paid, BillDocument, after
  <2> QED
    BY <2>1, <2>2, <2>4
<1>5. /\ s.payments \in Seq(SupplierPaymentDocument) /\ DOMAIN s.payments = 1..(n + 1)
      /\ s.payments[n + 1] = new /\ Len(s.payments) = n + 1
      /\ \A i \in 1..n : s.payments[i] = r.payments[i]
  BY <1>1, <1>2, <1>3
<1>6. /\ s.bills \in Seq(BillDocument) /\ DOMAIN s.bills = DOMAIN r.bills /\ Len(s.bills) = Len(r.bills)
      /\ \A b \in DOMAIN r.bills : s.bills[b] = IF b = c THEN after ELSE r.bills[b]
  BY <1>1, <1>3, <1>4
<1>7. s \in SupplierRows
  BY <1>3, <1>5, <1>6 DEF SupplierRows
<1>8. \A i \in DOMAIN s.payments : s.payments[i].bill \in 0..Len(s.bills)
  BY <1>1, <1>2, <1>5, <1>6 DEF SupplierSound
<1>9. ASSUME NEW b \in DOMAIN s.bills
      PROVE  BillAddsUp(s.bills[b], PaidFor(s.payments, b))
  <2> DEFINE paid == PaidFor(r.payments, b)
             q == r.payments
  <2>1. PaidFor(s.payments, b) = paid + (IF c = b THEN form.amount ELSE 0)
    <3> HIDE DEF q
    <3>1. q \in Seq(SupplierPaymentDocument) /\ s.payments = Append(q, new)
      BY <1>1, <1>3 DEF q
    <3>2. PaidFor(Append(q, new), b) = PaidFor(q, b) + (IF new.bill = b THEN new.amount ELSE 0)
      BY <1>2, <3>1, PaidMore
    <3> QED
      BY <1>2, <3>1, <3>2 DEF q
  <2>2. paid \in Nat
    BY <1>1, PaidIsNatural
  <2>3. BillAddsUp(r.bills[b], paid)
    BY <1>6 DEF SupplierSound
  <2> HIDE DEF paid
  <2>4. CASE b # c
    BY <1>6, <2>1, <2>2, <2>3, <2>4
  <2>5. CASE b = c
    <3>1. c # 0
      BY <1>1, <1>6, <2>5
    <3>2. bill.amount \in Int /\ bill.due \in Int /\ form.amount >= 1
      BY <1>4, <2>5, <3>1, AmountOfBill DEF MoneyAssumption
    <3>3. s.bills[b] = after /\ PaidFor(s.payments, b) = paid + form.amount
      BY <1>6, <2>1, <2>5
    <3> DEFINE now == paid + form.amount
    <3>4. now \in Nat /\ now # 0
      BY <1>2, <2>2, <3>2
    <3>5. after.due = after.amount - now /\ after.due >= 0
      <4>1. bill.due = bill.amount - paid /\ form.amount <= bill.due
        BY <2>3, <2>5, <3>1 DEF BillAddsUp
      <4>2. after.amount = bill.amount /\ after.due = bill.due - form.amount
        BY <1>4, <3>1
      <4> HIDE DEF bill
      <4> QED
        BY <1>2, <2>2, <3>2, <4>1, <4>2
    <3>6. after.status = "PAID" <=> after.due = 0
      BY <1>2, <1>4, <3>1, <3>2
    <3>7. after.status \in {"DRAFT", "POSTED"} <=> now = 0
      BY <1>4, <3>1, <3>4
    <3> QED
      BY <3>3, <3>5, <3>6, <3>7 DEF BillAddsUp
  <2> QED
    BY <2>4, <2>5
<1> QED
  BY <1>1, <1>5, <1>6, <1>7, <1>8, <1>9 DEF SupplierSound, SupplierLater

\* A payment is reversed, and the bill it paid, if any, is due for that much again.
LEMMA BillUnpaid ==
    ASSUME MoneyAssumption, NEW r, SupplierSound(r), NEW i \in DOMAIN r.payments,
           r.payments[i].status = "COMPLETED",
           NEW s, s = recordPaymentReversal(r, i)
    PROVE  SupplierSound(s) /\ SupplierLater(r, s)
<1> DEFINE q == r.payments
           less == [q EXCEPT ![i].status = "REVERSED"]
           c == q[i].bill
           amount == q[i].amount
           bill == r.bills[c]
           after == Restored(bill, amount)
<1>1. /\ r \in SupplierRows /\ r.bills \in Seq(BillDocument) /\ q \in Seq(SupplierPaymentDocument)
      /\ Len(r.bills) \in Nat /\ Len(q) \in Nat /\ DOMAIN r.bills = 1..Len(r.bills)
      /\ q[i] \in SupplierPaymentDocument /\ c \in 0..Len(r.bills)
  BY DEF SupplierSound, SupplierRows
<1>2. amount \in 1..MaxAmount /\ amount \in Nat
  BY <1>1, AmountOfPayment
<1>3. s = [bills |-> IF c = 0 THEN r.bills ELSE [r.bills EXCEPT ![c] = after], payments |-> less]
  <2>1. [r EXCEPT !.payments[i].status = "REVERSED"] = [bills |-> r.bills, payments |-> less]
    <3>1. r = [bills |-> r.bills, payments |-> q]
      BY <1>1 DEF SupplierRows
    <3> HIDE DEF q
    <3> QED
      BY <3>1
  <2>2. s = IF c = 0 THEN [r EXCEPT !.payments[i].status = "REVERSED"]
            ELSE [[r EXCEPT !.payments[i].status = "REVERSED"] EXCEPT !.bills[c] = Restored(@, amount)]
    BY DEF recordPaymentReversal
  <2> HIDE DEF less
  <2> QED
    BY <2>1, <2>2
<1>4. /\ less \in Seq(SupplierPaymentDocument) /\ DOMAIN less = DOMAIN q /\ Len(less) = Len(q)
      /\ \A j \in DOMAIN q : less[j].bill = q[j].bill
      /\ \A b : PaidFor(less, b) = PaidFor(q, b) - (IF c = b THEN amount ELSE 0)
  <2> HIDE DEF q
  <2>1. q \in Seq(SupplierPaymentDocument) /\ i \in DOMAIN q /\ q[i].status = "COMPLETED"
    BY <1>1 DEF q
  <2> HIDE DEF less
  <2>2. less = ReversedIn(q, i)
    BY DEF less, ReversedIn
  <2> HIDE DEF c, amount
  <2>3. ASSUME NEW b
        PROVE  /\ less \in Seq(SupplierPaymentDocument) /\ DOMAIN less = DOMAIN q /\ Len(less) = Len(q)
               /\ \A j \in DOMAIN q : less[j].bill = q[j].bill
               /\ PaidFor(less, b) = PaidFor(q, b) - (IF c = b THEN amount ELSE 0)
    BY <2>1, <2>2, PaidLess DEF c, amount
  <2> QED
    BY <2>3
<1>5. \A b : PaidFor(q, b) \in Nat /\ PaidFor(less, b) \in Nat
  <2> HIDE DEF less, q
  <2> QED
    BY <1>1, <1>4, PaidIsNatural
<1> HIDE DEF less, after
<1>6. c # 0 => /\ c \in DOMAIN r.bills /\ bill \in BillDocument /\ after \in BillDocument
               /\ BillAddsUp(after, PaidFor(less, c))
  <2> SUFFICES ASSUME c # 0
               PROVE  /\ c \in DOMAIN r.bills /\ bill \in BillDocument /\ after \in BillDocument
                      /\ BillAddsUp(after, PaidFor(less, c))
    OBVIOUS
  <2>1. c \in DOMAIN r.bills
    BY <1>1
  <2>2. bill \in BillDocument /\ BillAddsUp(bill, PaidFor(q, c))
    BY <1>1, <2>1 DEF SupplierSound
  <2>3. /\ bill.amount \in 1..MaxAmount /\ bill.amount \in Int /\ bill.due \in 0..MaxAmount
        /\ bill.due \in Int /\ bill.due >= 0
    BY <2>2, AmountOfBill DEF MoneyAssumption
  <2> DEFINE paid == PaidFor(q, c)
             now == PaidFor(less, c)
  <2>4. /\ paid \in Nat /\ now \in Nat /\ now = paid - amount /\ bill.due = bill.amount - paid
        /\ amount >= 1
    BY <1>2, <1>4, <1>5, <2>2 DEF BillAddsUp, MoneyAssumption
  <2> HIDE DEF paid, now, amount
  <2>5. bill.due + amount = bill.amount - now
    BY <1>2, <2>3, <2>4
  <2>6. bill.due + amount \in 0..MaxAmount /\ bill.due + amount # 0
    BY <1>2, <2>3, <2>4, <2>5 DEF MoneyAssumption
  <2>7. /\ after.amount = bill.amount /\ after.due = bill.due + amount
        /\ after.status = IF bill.due + amount = bill.amount THEN "POSTED" ELSE "PARTIALLY_PAID"
        /\ after \in BillDocument
    BY <2>2, <2>6 DEF Restored, BillDocument, after
  <2>8. BillAddsUp(after, now)
    <3> DEFINE due == bill.due + amount
    <3>1. after.due = after.amount - now /\ after.due >= 0 /\ after.due # 0
      BY <2>5, <2>6, <2>7 DEF MoneyAssumption
    <3>2. after.status \in {"POSTED", "PARTIALLY_PAID"} /\ (after.status = "POSTED" <=> now = 0)
      BY <2>3, <2>4, <2>5, <2>7
    <3> QED
      BY <3>1, <3>2 DEF BillAddsUp
  <2> QED
    BY <2>1, <2>2, <2>7, <2>8 DEF now
<1>7. s.payments = less
  BY <1>3
<1>8. /\ s.bills \in Seq(BillDocument) /\ DOMAIN s.bills = DOMAIN r.bills /\ Len(s.bills) = Len(r.bills)
      /\ \A b \in DOMAIN r.bills : s.bills[b] = IF b = c THEN after ELSE r.bills[b]
  BY <1>1, <1>3, <1>6
<1>9. s \in SupplierRows
  BY <1>3, <1>4, <1>8 DEF SupplierRows
<1>10. \A j \in DOMAIN s.payments : s.payments[j].bill \in 0..Len(s.bills)
  BY <1>4, <1>7, <1>8 DEF SupplierSound
<1>11. ASSUME NEW b \in DOMAIN s.bills
       PROVE  BillAddsUp(s.bills[b], PaidFor(s.payments, b))
  <2>1. CASE b = c
    BY <1>1, <1>6, <1>7, <1>8, <2>1
  <2>2. CASE b # c
    <3>1. PaidFor(s.payments, b) = PaidFor(q, b)
      BY <1>4, <1>5, <1>7, <2>2
    <3>2. s.bills[b] = r.bills[b] /\ BillAddsUp(r.bills[b], PaidFor(q, b))
      BY <1>8, <2>2 DEF SupplierSound
    <3> QED
      BY <3>1, <3>2
  <2> QED
    BY <2>1, <2>2
<1> QED
  BY <1>1, <1>4, <1>7, <1>8, <1>9, <1>10, <1>11 DEF SupplierSound, SupplierLater

LEMMA SuppliersServed ==
    ASSUME MoneyAssumption, NEW r, SupplierSound(r), NEW u, NEW act, SupplierRefers(r, act),
           NEW form, SupplierFits(r, act, form), NEW s, s = SupplierServed(r, u, act, form).row
    PROVE  /\ SupplierSound(s) /\ SupplierLater(r, s)
           /\ s # r => {act, On(act.verb, 0)} \cap SupplierButtons(r, u) # {}
<1> DEFINE i == act.of
<1>1. SupplierSound(r) /\ SupplierLater(r, r)
  BY DEF SupplierLater, SupplierSound, SupplierRows
<1>2. SUFFICES ASSUME s # r
               PROVE  /\ SupplierSound(s) /\ SupplierLater(r, s)
                      /\ \/ act \in SupplierButtons(r, u) \/ On(act.verb, 0) \in SupplierButtons(r, u)
  BY <1>1
<1>3. CASE act.verb = "bill"
  <2> DEFINE new == [status |-> IF form.now THEN "POSTED" ELSE "DRAFT",
                     amount |-> form.total, due |-> form.total]
  <2>1. SupplierServed(r, u, act, form) = Reply([r EXCEPT !.bills = Append(@, new)], "done")
    BY <1>3 DEF SupplierServed
  <2>2. s = [r EXCEPT !.bills = Append(@, new)]
    BY <2>1 DEF Reply
  <2>3. new \in BillDocument /\ new.due = new.amount /\ new.status \in {"DRAFT", "POSTED"}
    BY <1>3 DEF SupplierFits, BillDocument, MoneyAssumption
  <2>4. On(act.verb, 0) \in SupplierButtons(r, u)
    BY <1>3 DEF SupplierButtons, SupplierHeader
  <2> HIDE DEF new
  <2> QED
    BY <2>2, <2>3, <2>4, BillReceived
<1>4. CASE act.verb = "post"
  <2>1. SupplierServed(r, u, act, form) =
           Reply(IF r.bills[i].status = "DRAFT" THEN [r EXCEPT !.bills[i].status = "POSTED"] ELSE r, "done")
    BY <1>4 DEF SupplierServed
  <2>2. s = [r EXCEPT !.bills[i].status = "POSTED"] /\ r.bills[i].status = "DRAFT"
    BY <1>2, <2>1 DEF Reply
  <2>3. i \in DOMAIN r.bills
    BY <1>4 DEF SupplierRefers
  <2>4. act \in BillsTab(r.bills[i], i)
    BY <1>4, <2>2 DEF BillsTab, Offer, SupplierRefers
  <2>5. act \in SupplierButtons(r, u)
    BY <2>3, <2>4 DEF SupplierButtons
  <2> QED
    BY <2>2, <2>3, <2>5, BillPosted
<1>5. CASE act.verb = "pay"
  <2>1. SupplierServed(r, u, act, form) =
           Checked(r, form.bill = 0 \/ /\ Payable(r.bills[form.bill])
                                       /\ form.amount <= r.bills[form.bill].due,
                   TRUE, recordSupplierPayment(r, form))
    BY <1>5 DEF SupplierServed
  <2>2. /\ s = recordSupplierPayment(r, form)
        /\ form.bill # 0 => /\ Payable(r.bills[form.bill])
                            /\ form.amount <= r.bills[form.bill].due
    BY <1>2, <2>1 DEF Checked, Reply
  <2>3. form.bill \in 0..Len(r.bills) /\ form.amount \in 1..MaxAmount
    BY <1>5 DEF SupplierFits
  <2>4. On(act.verb, 0) \in SupplierButtons(r, u)
    BY <1>5 DEF SupplierButtons, SupplierHeader
  <2> QED
    BY <2>2, <2>3, <2>4, BillPaid
<1>6. CASE act.verb = "reverse"
  <2>1. SupplierServed(r, u, act, form) =
           Checked(r, form.reason = "enough" /\ r.payments[i].status = "COMPLETED", TRUE,
                   recordPaymentReversal(r, i))
    BY <1>6 DEF SupplierServed
  <2>2. s = recordPaymentReversal(r, i) /\ r.payments[i].status = "COMPLETED"
    BY <1>2, <2>1 DEF Checked, Reply
  <2>3. i \in DOMAIN r.payments
    BY <1>6 DEF SupplierRefers
  <2>4. act \in PaymentsTab(r.payments[i], i)
    BY <1>6, <2>2 DEF PaymentsTab, Offer, SupplierRefers
  <2>5. act \in SupplierButtons(r, u)
    BY <2>3, <2>4 DEF SupplierButtons
  <2> QED
    BY <2>2, <2>3, <2>5, BillUnpaid
<1> QED
  BY <1>3, <1>4, <1>5, <1>6 DEF SupplierRefers, Verbs

--------------------------------------------------------------------------------
\* The review of an order

OrderRefers(act) == act.verb \in Verbs("order") /\ act = On(act.verb, 1)

LEMMA OrdersOpened == ASSUME NEW r \in OrderOpened PROVE r \in OrderDocument
BY DEF OrderOpened, OrderDocument

LEMMA OrdersOffered ==
    ASSUME NEW r, NEW u, NEW act \in OrderButtons(r, u)
    PROVE  OrderRefers(act)
BY DEF OrderButtons, Offer, On, OrderRefers, Verbs

LEMMA OrdersElsewhere ==
    ASSUME NEW r \in OrderDocument, NEW s \in OrderElsewhere(r)
    PROVE  s \in OrderDocument
BY DEF OrderElsewhere, When, OrderDocument

LEMMA OrdersServed ==
    ASSUME NEW r \in OrderDocument, NEW u, NEW act, OrderRefers(act), OrderAllowed(r, u, act), NEW form,
           NEW s, s = OrderServed(r, u, act, form).row
    PROVE  s \in OrderDocument /\ (s # r => act \in OrderButtons(r, u))
<1>1. CASE act.verb = "approve"
  <2>1. OrderServed(r, u, act, form) =
           Checked(r, ~r.blocked \/ r.status # "SUBMITTED", r.status = "SUBMITTED",
                   [r EXCEPT !.status = "APPROVED"])
    BY <1>1 DEF OrderServed
  <2>2. s = r \/ (s = [r EXCEPT !.status = "APPROVED"] /\ ~r.blocked /\ r.status = "SUBMITTED")
    BY <2>1 DEF Checked, Reply
  <2>3. s \in OrderDocument
    BY <2>2 DEF OrderDocument
  <2>4. s # r => act \in OrderButtons(r, u)
    BY <1>1, <2>2 DEF OrderButtons, Offer, OrderRefers, OrderAllowed
  <2> QED
    BY <2>3, <2>4
<1>2. CASE act.verb = "reject"
  <2>1. OrderServed(r, u, act, form) =
           Checked(r, form.reason = "enough", Rejectable(r), [r EXCEPT !.status = "REJECTED"])
    BY <1>2 DEF OrderServed
  <2>2. s = r \/ (s = [r EXCEPT !.status = "REJECTED"] /\ r.status = "SUBMITTED")
    BY <2>1 DEF Checked, Reply, Rejectable
  <2>3. s \in OrderDocument
    BY <2>2 DEF OrderDocument
  <2>4. s # r => act \in OrderButtons(r, u)
    BY <1>2, <2>2 DEF OrderButtons, Offer, OrderRefers, OrderAllowed
  <2> QED
    BY <2>3, <2>4
<1> QED
  BY <1>1, <1>2 DEF OrderRefers, Verbs

--------------------------------------------------------------------------------
\* A return

ReturnSound(r) == r \in ReturnDocument /\ ByAnother(r)

ReturnRefers(act) == act.verb \in Verbs("return") /\ act = On(act.verb, 1)

ReturnFits(act, form) ==
    /\ act.verb = "inspect" => form.received \in 0..MaxGoods
    /\ act.verb = "approve" => form.good \in 0..MaxGoods /\ form.damaged \in 0..MaxGoods

LEMMA ReturnsOpened ==
    ASSUME FloorAssumption, NEW r \in ReturnOpened
    PROVE  ReturnSound(r)
<1>1. PICK status \in {"REQUESTED", "INSPECTED"}, u \in Staff :
         r = [status |-> status, received |-> IF status = "REQUESTED" THEN 0 ELSE MaxGoods, accepted |-> 0,
              left |-> MaxGoods, maker |-> u, checker |-> "nobody"]
  BY DEF ReturnOpened
<1> QED
  BY <1>1 DEF ReturnSound, ReturnDocument, ByAnother, FloorAssumption

LEMMA ReturnsOffered ==
    ASSUME NEW r, NEW u, NEW act \in ReturnButtons(r, u)
    PROVE  ReturnRefers(act)
BY DEF ReturnButtons, Offer, On, ReturnRefers, Verbs

LEMMA ReturnsElsewhere ==
    ASSUME FloorAssumption, NEW r, ReturnSound(r), NEW s \in ReturnElsewhere(r)
    PROVE  ReturnSound(s)
<1>1. r.left > 0 /\ r.status \in {"REQUESTED", "INSPECTED"} /\ s = [r EXCEPT !.left = @ - 1]
  BY DEF ReturnElsewhere, When
<1>2. r.left - 1 \in 0..MaxGoods
  BY <1>1 DEF ReturnSound, ReturnDocument, FloorAssumption
<1> QED
  BY <1>1, <1>2 DEF ReturnSound, ReturnDocument, ByAnother

LEMMA ReturnsServed ==
    ASSUME RolesAssumption, StaffDeskAssumption, FloorAssumption, NEW r, ReturnSound(r),
           NEW u \in Users, NEW act, ReturnRefers(act), ReturnAllowed(r, u, act),
           NEW form, ReturnFits(act, form), NEW s, s = ReturnServed(r, u, act, form).row
    PROVE  ReturnSound(s) /\ (s # r => act \in ReturnButtons(r, u))
<1>1. SUFFICES ASSUME s # r PROVE ReturnSound(s) /\ act \in ReturnButtons(r, u)
  OBVIOUS
<1>2. r \in ReturnDocument
  BY DEF ReturnSound
<1>3. CASE act.verb = "inspect"
  <2>1. ReturnServed(r, u, act, form) =
           Checked(r, TRUE, r.status = "REQUESTED",
                   [r EXCEPT !.status = "INSPECTED", !.received = form.received])
    BY <1>3 DEF ReturnServed
  <2>2. s = [r EXCEPT !.status = "INSPECTED", !.received = form.received] /\ r.status = "REQUESTED"
    BY <1>1, <2>1 DEF Checked, Reply
  <2>3. ReturnSound(s)
    BY <1>2, <1>3, <2>2 DEF ReturnSound, ReturnDocument, ByAnother, ReturnFits
  <2>4. act \in ReturnButtons(r, u)
    BY <1>3, <2>2 DEF ReturnButtons, Offer, ReturnRefers
  <2> QED
    BY <2>3, <2>4
<1>4. CASE act.verb = "approve"
  <2> DEFINE accepted == form.good + form.damaged
             next == [r EXCEPT !.status = "APPROVED", !.accepted = accepted,
                               !.left = @ - accepted, !.checker = u]
  <2>1. ReturnServed(r, u, act, form) =
           Checked(r, /\ MakerChecker(u, r)
                      /\ r.status = "INSPECTED" =>
                            /\ form.good + form.damaged + form.rejected = r.received
                            /\ accepted <= r.left,
                   r.status = "INSPECTED", next)
    BY <1>4 DEF ReturnServed, approveReturn
  <2> HIDE DEF next
  <2>2. s = next /\ MakerChecker(u, r) /\ r.status = "INSPECTED" /\ accepted <= r.left
    BY <1>1, <2>1 DEF Checked, Reply
  <2>3. u \in Staff /\ u # "nobody"
    BY <1>4, OnlyStaffMay DEF ReturnAllowed, StaffDeskAssumption
  <2>4. accepted \in 0..MaxGoods /\ r.left - accepted \in 0..MaxGoods
    BY <1>2, <1>4, <2>2 DEF ReturnDocument, ReturnFits, FloorAssumption
  <2> HIDE DEF accepted
  <2>5. s \in ReturnDocument /\ s.status = "APPROVED" /\ s.checker = u /\ s.maker = r.maker
    BY <1>2, <2>2, <2>3, <2>4 DEF ReturnDocument, next
  <2>6. ByAnother(s)
    BY <2>2, <2>3, <2>5 DEF ByAnother, MakerChecker
  <2>7. act \in ReturnButtons(r, u)
    BY <1>4, <2>2 DEF ReturnButtons, Offer, ReturnRefers
  <2> QED
    BY <2>5, <2>6, <2>7 DEF ReturnSound
<1>5. CASE act.verb = "reject"
  <2>1. ReturnServed(r, u, act, form) =
           Checked(r, form.reason = "enough" /\ MakerChecker(u, r), Undecided(r),
                   [r EXCEPT !.status = "REJECTED"])
    BY <1>5 DEF ReturnServed
  <2>2. s = [r EXCEPT !.status = "REJECTED"] /\ Undecided(r)
    BY <1>1, <2>1 DEF Checked, Reply
  <2>3. ReturnSound(s)
    BY <1>2, <2>2 DEF ReturnSound, ReturnDocument, ByAnother
  <2>4. act \in ReturnButtons(r, u)
    BY <1>5, <2>2 DEF ReturnButtons, Offer, ReturnRefers
  <2> QED
    BY <2>3, <2>4
<1>6. CASE act.verb = "cancel"
  <2>1. ReturnServed(r, u, act, form) =
           Checked(r, TRUE, r.status = "REQUESTED", [r EXCEPT !.status = "CANCELLED"])
    BY <1>6 DEF ReturnServed
  <2>2. s = [r EXCEPT !.status = "CANCELLED"] /\ r.status = "REQUESTED"
    BY <1>1, <2>1 DEF Checked, Reply
  <2>3. ReturnSound(s)
    BY <1>2, <2>2 DEF ReturnSound, ReturnDocument, ByAnother
  <2>4. act \in ReturnButtons(r, u)
    BY <1>6, <2>2 DEF ReturnButtons, Offer, ReturnRefers
  <2> QED
    BY <2>3, <2>4
<1> QED
  BY <1>3, <1>4, <1>5, <1>6 DEF ReturnRefers, Verbs

--------------------------------------------------------------------------------
\* The exceptions of the stock

ExceptionRefers(act) == act.verb \in Verbs("exception") /\ act = On(act.verb, 1)

LEMMA ExceptionsOffered ==
    ASSUME NEW r, NEW u, NEW act \in ExceptionTable(r, u)
    PROVE  ExceptionRefers(act)
BY DEF ExceptionTable, Offer, On, ExceptionRefers, Verbs

LEMMA ExceptionsServed ==
    ASSUME NEW r \in ExceptionDocument, NEW u, NEW act, ExceptionRefers(act), ExceptionAllowed(r, u, act),
           NEW form, NEW s, s = ExceptionServed(r, u, act, form).row
    PROVE  s \in ExceptionDocument /\ (s # r => act \in ExceptionTable(r, u))
<1> DEFINE status == IF act.verb = "resolve" THEN "RESOLVED" ELSE "DISMISSED"
<1>1. s = r \/ (s = [r EXCEPT !.status = status] /\ r.status = "PENDING_REVIEW")
  BY DEF ExceptionServed, Checked, Reply
<1>2. status \in {"RESOLVED", "DISMISSED"}
  OBVIOUS
<1> HIDE DEF status
<1>3. s \in ExceptionDocument
  BY <1>1, <1>2 DEF ExceptionDocument
<1>4. s # r => act \in ExceptionTable(r, u)
  BY <1>1 DEF ExceptionTable, Offer, ExceptionRefers, ExceptionAllowed, Verbs
<1> QED
  BY <1>3, <1>4

--------------------------------------------------------------------------------
\* A delivery

DeliveryRefers(act) == act.verb \in Verbs("delivery") /\ act = On(act.verb, 1)

\* Whoever was the driver when he was authorised may no longer be.
DeliveryPermitted(u, act) == IF act.verb = "assign" THEN Has(u, "delivery.assign") ELSE u \in Drivers

DeliveryFits(act, form) == act.verb = "assign" => form.driver \in Drivers

LEMMA DeliveriesOpened == ASSUME NEW r \in DeliveryOpened PROVE r \in DeliveryDocument
<1>1. PICK status \in {"ASSIGNED", "OUT_FOR_DELIVERY"}, d \in Drivers :
         r = [status |-> status, driver |-> d, shelf |-> status = "ASSIGNED", open |-> TRUE]
  BY DEF DeliveryOpened
<1> DEFINE b == status = "ASSIGNED"
<1>2. b \in BOOLEAN
  OBVIOUS
<1>3. r = [status |-> status, driver |-> d, shelf |-> b, open |-> TRUE]
  BY <1>1
<1> HIDE DEF b
<1> QED
  BY <1>2, <1>3 DEF DeliveryDocument

LEMMA DeliveriesOffered ==
    ASSUME NEW r, NEW u, NEW act \in DeliveryButtons(r, u)
    PROVE  DeliveryRefers(act)
<1>1. act \in ActionBar(r) \/ act \in DispatchTable(r, u)
  BY DEF DeliveryButtons
<1>2. CASE act \in ActionBar(r)
  <2>1. \/ \E verb \in DriverVerbs : act \in Offer(1, {verb}, r.status \in From(verb))
        \/ act \in Offer(1, {"reschedule"}, r.status \in From("reschedule") /\ r.status # "ASSIGNED")
    BY <1>2 DEF ActionBar
  <2>2. \E verb \in DriverVerbs : act = On(verb, 1)
    BY <2>1 DEF Offer, DriverVerbs
  <2> QED
    BY <2>2 DEF On, DeliveryRefers, Verbs
<1>3. CASE act \in DispatchTable(r, u)
  BY <1>3 DEF DispatchTable, Offer, On, DeliveryRefers, Verbs
<1> QED
  BY <1>1, <1>2, <1>3

LEMMA DeliveriesElsewhere ==
    ASSUME NEW r \in DeliveryDocument, NEW s \in DeliveryElsewhere(r)
    PROVE  s \in DeliveryDocument
BY DEF DeliveryElsewhere, When, DeliveryDocument

LEMMA DeliveriesServed ==
    ASSUME RolesAssumption, NEW r \in DeliveryDocument, NEW u \in Users, NEW act, DeliveryRefers(act),
           DeliveryPermitted(u, act), NEW form, DeliveryFits(act, form),
           NEW s, s = DeliveryServed(r, u, act, form).row
    PROVE  /\ s \in DeliveryDocument
           /\ s # r => \/ act \in DeliveryButtons(r, u)
                       \/ u \in Drivers /\ (act.verb = "reschedule" \/ act \in DeliveryButtons(r, r.driver))
<1>1. CASE act.verb = "assign"
  <2>1. DeliveryServed(r, u, act, form) = assignOrder(r, form)
    BY <1>1 DEF DeliveryServed
  <2>2. s = r \/ s = [r EXCEPT !.status = "ASSIGNED", !.driver = form.driver]
    BY <2>1 DEF assignOrder, Checked, Reply
  <2>3. s \in DeliveryDocument
    BY <1>1, <2>2 DEF DeliveryDocument, DeliveryFits
  <2>4. Has(u, "delivery.assign")
    BY <1>1 DEF DeliveryPermitted
  <2>5. u \notin Drivers
    BY <2>4, OnlyStaffMay DEF Staff, RolesAssumption
  <2>6. act \in DeliveryButtons(r, u)
    BY <1>1, <2>4, <2>5 DEF DeliveryButtons, DispatchTable, Offer, DeliveryRefers
  <2> QED
    BY <2>3, <2>6
<1>2. CASE act.verb # "assign"
  <2>1. act.verb \in DriverVerbs /\ u \in Drivers
    BY <1>2 DEF DeliveryRefers, Verbs, DeliveryPermitted
  <2>2. \/ DeliveryServed(r, u, act, form) = Reply(r, "done")
        \/ DeliveryServed(r, u, act, form) = Checked(r, TRUE, r.status \in From(act.verb), Moved(r, act.verb))
    BY <1>2 DEF DeliveryServed
  <2>3. s = r \/ (s = Moved(r, act.verb) /\ r.status \in From(act.verb))
    BY <2>2 DEF Checked, Reply
  <2>4. s \in DeliveryDocument
    <3> DEFINE verb == act.verb
               to == To(verb)
               shelf == IF verb = "pickup" THEN FALSE ELSE IF verb = "return" THEN TRUE ELSE r.shelf
               open == r.open /\ verb # "complete"
    <3>1. to \in {"PICKED_UP", "OUT_FOR_DELIVERY", "DELIVERED", "FAILED", "RESCHEDULED",
                  "RETURNED_TO_WAREHOUSE"}
      BY <2>1 DEF DriverVerbs, To
    <3>2. shelf \in BOOLEAN /\ open \in BOOLEAN
      BY DEF DeliveryDocument
    <3>3. Moved(r, verb) = [r EXCEPT !.status = to, !.shelf = shelf, !.open = open]
      BY DEF Moved
    <3> HIDE DEF verb, to, shelf, open
    <3>4. [r EXCEPT !.status = to, !.shelf = shelf, !.open = open] \in DeliveryDocument
      BY <3>1, <3>2 DEF DeliveryDocument
    <3> QED
      BY <2>3, <3>3, <3>4 DEF verb
  <2>5. CASE act.verb = "reschedule"
    BY <2>1, <2>4, <2>5
  <2>6. CASE act.verb # "reschedule"
    <3>1. r.driver \in Drivers
      BY DEF DeliveryDocument
    <3>2. s # r => act \in Offer(1, {act.verb}, r.status \in From(act.verb))
      BY <2>3 DEF Offer, DeliveryRefers
    <3>3. s # r => act \in ActionBar(r)
      BY <2>1, <2>6, <3>2 DEF ActionBar
    <3> QED
      BY <2>1, <2>4, <3>1, <3>3 DEF DeliveryButtons
  <2> QED
    BY <2>5, <2>6
<1> QED
  BY <1>1, <1>2

--------------------------------------------------------------------------------
\* An order and its adjustments

AdjustmentRows == [order : OrderRow, adjustments : Seq(AdjustmentDocument)]

OrderFits(o) ==
    /\ o \in OrderRow /\ o.shelf + o.picked <= fulfillableQuantity(o)
    /\ o.status = "SUBMITTED" => o.shelf = 0 /\ o.picked = 0

TakenOff(q) == SumOver(Reductions(q), DOMAIN q)

\* What reversals gave back to the order and did not allocate.
Loose(q) == SumOver(NotAllocatedAgain(q), DOMAIN q)

\* RequestedOnce, of the adjustments of an order.
AllDistinct(q) ==
    \A i, j \in DOMAIN q :
        i # j => /\ q[i].key # q[j].key
                 /\ {q[i].status, q[j].status} # {"SUBMITTED"}

AdjustmentSound(r) ==
    /\ r \in AdjustmentRows /\ OrderFits(r.order)
    /\ r.order.cancelled = TakenOff(r.adjustments)
    /\ AllDistinct(r.adjustments)
    /\ \A i \in DOMAIN r.adjustments : /\ ByAnother(r.adjustments[i])
                                       /\ r.adjustments[i].affected <= r.adjustments[i].reduction
    /\ r.order.status # "SUBMITTED" => unallocatedQuantity(r.order) <= Loose(r.adjustments)

AdjustmentRefers(r, act) ==
    /\ act.verb \in Verbs("adjustment") /\ act = On(act.verb, act.of)
    /\ IF act.verb = "request" THEN act.of = 0 ELSE act.of \in DOMAIN r.adjustments

\* Whoever approves ticks what the page he saw showed him.
AdjustmentFits(r, act, form) ==
    /\ act.verb = "request" => form.reduction \in 1..MaxOrdered /\ form.key \in Nat
    /\ act.verb = "approve" =>
          (form.acknowledged <=> Encroached(r.order, r.adjustments[act.of].reduction) > 0)

AdjustmentLater(r, s) ==
    /\ DOMAIN r.adjustments \subseteq DOMAIN s.adjustments
    /\ \A i \in DOMAIN r.adjustments : /\ s.adjustments[i].maker = r.adjustments[i].maker
                                        /\ s.adjustments[i].reduction = r.adjustments[i].reduction

LEMMA MaxOfTwo ==
    ASSUME NEW a \in Int, NEW b \in Int
    PROVE  Max({a, b}) = IF a >= b THEN a ELSE b
<1>1. CASE a >= b
  <2>1. a \in {a, b} /\ \A y \in {a, b} : a >= y
    BY <1>1
  <2> QED
    BY <1>1, <2>1 DEF Max
<1>2. CASE ~(a >= b)
  <2>1. b \in {a, b} /\ \A y \in {a, b} : b >= y
    BY <1>2
  <2> QED
    BY <1>2, <2>1 DEF Max
<1> QED
  BY <1>1, <1>2

\* An order that fits has all its quantities in their bounds.
LEMMA QuantitiesOfOrder ==
    ASSUME AdjustmentAssumption, NEW o, OrderFits(o)
    PROVE  /\ o.cancelled \in Nat /\ o.shelf \in Nat /\ o.picked \in Nat /\ o.version \in Nat
           /\ o.pending \in BOOLEAN /\ o.status \in {"SUBMITTED", "APPROVED", "COMPLETED"}
           /\ MaxOrdered \in Nat /\ MaxOrdered >= 1
           /\ fulfillableQuantity(o) = MaxOrdered - o.cancelled
           /\ unallocatedQuantity(o) = MaxOrdered - o.cancelled - o.shelf - o.picked
           /\ unallocatedQuantity(o) \in Nat
<1>1. /\ o.cancelled \in 0..MaxOrdered /\ o.shelf \in 0..MaxOrdered /\ o.picked \in 0..MaxOrdered
      /\ o.version \in Nat /\ o.pending \in BOOLEAN
      /\ o.status \in {"SUBMITTED", "APPROVED", "COMPLETED"}
  BY DEF OrderFits, OrderRow
<1> QED
  BY <1>1 DEF AdjustmentAssumption, OrderFits, fulfillableQuantity, unallocatedQuantity

LEMMA EncroachedIs ==
    ASSUME AdjustmentAssumption, NEW o, OrderFits(o), NEW reduction \in 1..MaxOrdered
    PROVE  LET free == unallocatedQuantity(o) IN
           /\ Encroached(o, reduction) = IF reduction <= free THEN 0 ELSE reduction - free
           /\ Encroached(o, reduction) \in 0..MaxOrdered
           /\ Encroached(o, reduction) <= reduction
<1> DEFINE free == unallocatedQuantity(o)
<1>1. free \in Nat /\ MaxOrdered \in Nat /\ reduction \in Nat /\ reduction <= MaxOrdered
  BY QuantitiesOfOrder
<1> HIDE DEF free
<1>2. Max({0, reduction - free}) = IF 0 >= reduction - free THEN 0 ELSE reduction - free
  BY <1>1, MaxOfTwo
<1>3. Encroached(o, reduction) = Max({0, reduction - free})
  BY DEF Encroached, free
<1> QED
  BY <1>1, <1>2, <1>3 DEF free

LEMMA Quantities ==
    ASSUME AdjustmentAssumption, NEW d \in AdjustmentDocument
    PROVE  /\ d.reduction \in 1..MaxOrdered /\ d.reduction \in Nat /\ d.reduction >= 1
           /\ d.affected \in 0..MaxOrdered /\ d.affected \in Nat
<1>1. d.reduction \in 1..MaxOrdered /\ d.affected \in 0..MaxOrdered
  BY DEF AdjustmentDocument
<1> QED
  BY <1>1 DEF AdjustmentAssumption

LEMMA ReductionsAreNatural ==
    ASSUME AdjustmentAssumption, NEW q \in Seq(AdjustmentDocument)
    PROVE  /\ \A i \in DOMAIN q : Reductions(q)[i] \in Nat
           /\ TakenOff(q) \in Nat
<1> DEFINE f == Reductions(q)
<1>1. \A i \in DOMAIN q : f[i] \in Nat
  <2>1. \A i \in DOMAIN q : q[i].reduction \in Nat
    BY Quantities
  <2> QED
    BY <2>1 DEF Reductions
<1>2. IsFiniteSet(DOMAIN q)
  BY ListIsFinite
<1> HIDE DEF f
<1>3. SumOver(f, DOMAIN q) \in Nat
  BY <1>1, <1>2, SumIsNatural
<1> QED
  BY <1>1, <1>3 DEF TakenOff, f

\* What an adjustment takes off, and what its reversal left unallocated.
Taken(d) == IF d.status = "APPLIED" THEN d.reduction ELSE 0
Left(d) == IF d.status = "REVERSED" THEN d.reduction - d.affected ELSE 0

NoneAffectsMore(q) == \A i \in DOMAIN q : q[i].affected <= q[i].reduction

LEMMA LeftIsNatural ==
    ASSUME AdjustmentAssumption, NEW d \in AdjustmentDocument, d.affected <= d.reduction
    PROVE  Left(d) \in Nat
<1>1. d.reduction \in Nat /\ d.affected \in Nat
  BY Quantities
<1> QED
  BY <1>1 DEF Left

LEMMA LooseIsNatural ==
    ASSUME AdjustmentAssumption, NEW q \in Seq(AdjustmentDocument), NoneAffectsMore(q)
    PROVE  /\ \A i \in DOMAIN q : NotAllocatedAgain(q)[i] = Left(q[i]) /\ Left(q[i]) \in Nat
           /\ Loose(q) \in Nat
<1> DEFINE f == NotAllocatedAgain(q)
<1>1. \A i \in DOMAIN q : f[i] = Left(q[i]) /\ Left(q[i]) \in Nat
  <2>1. \A i \in DOMAIN q : Left(q[i]) \in Nat
    BY LeftIsNatural DEF NoneAffectsMore
  <2>2. \A i \in DOMAIN q : f[i] = Left(q[i])
    BY DEF NotAllocatedAgain, Left
  <2> QED
    BY <2>1, <2>2
<1>2. IsFiniteSet(DOMAIN q)
  BY ListIsFinite
<1>3. Loose(q) = SumOver(f, DOMAIN q)
  BY DEF Loose
<1> HIDE DEF f
<1>4. SumOver(f, DOMAIN q) \in Nat
  BY <1>1, <1>2, SumIsNatural
<1> QED
  BY <1>1, <1>3, <1>4 DEF f

\* A request adds nothing to what is loose.
LEMMA LooseAppended ==
    ASSUME AdjustmentAssumption, NEW q \in Seq(AdjustmentDocument), NoneAffectsMore(q),
           NEW new \in AdjustmentDocument, new.status = "SUBMITTED", new.affected <= new.reduction
    PROVE  Loose(Append(q, new)) = Loose(q) /\ NoneAffectsMore(Append(q, new))
<1> DEFINE n == Len(q)
           more == Append(q, new)
           e == NotAllocatedAgain(q)
           f == NotAllocatedAgain(more)
<1>1. n \in Nat /\ DOMAIN q = 1..n
  OBVIOUS
<1>2. /\ more \in Seq(AdjustmentDocument) /\ DOMAIN more = 1..(n + 1) /\ more[n + 1] = new
      /\ \A i \in 1..n : more[i] = q[i]
  BY <1>1
<1> HIDE DEF more, n
<1>3. NoneAffectsMore(more)
  BY <1>1, <1>2 DEF NoneAffectsMore
<1>4. \A i \in 1..n : e[i] = Left(q[i]) /\ e[i] \in Int
  <2> HIDE DEF e
  <2>1. \A i \in DOMAIN q : e[i] = Left(q[i]) /\ Left(q[i]) \in Nat
    BY LooseIsNatural DEF e
  <2> QED
    BY <1>1, <2>1
<1>5. (\A i \in 1..n : f[i] = e[i]) /\ f[n + 1] = 0
  BY <1>1, <1>2 DEF NotAllocatedAgain
<1>6. Loose(more) = SumOver(f, 1..(n + 1)) /\ Loose(q) = SumOver(e, 1..n)
  BY <1>1, <1>2 DEF Loose
<1> HIDE DEF e, f
<1>7. n \in Nat /\ f[n + 1] \in Int /\ \A i \in 1..n : e[i] \in Int /\ f[i] = e[i]
  BY <1>1, <1>4, <1>5
<1>8. SumOver(f, 1..(n + 1)) = SumOver(e, 1..n) + f[n + 1]
  BY <1>7, SumAppend
<1>9. SumOver(e, 1..n) \in Int
  <2>1. IsFiniteSet(1..n)
    BY <1>1, ListIsFinite
  <2> QED
    BY <1>7, <2>1, SumType
<1> QED
  BY <1>3, <1>5, <1>6, <1>8, <1>9 DEF more

\* One adjustment changes what is loose by its own part.
LEMMA LooseChanged ==
    ASSUME AdjustmentAssumption, NEW q \in Seq(AdjustmentDocument), NoneAffectsMore(q), NEW i \in DOMAIN q,
           NEW new \in AdjustmentDocument, new.affected <= new.reduction
    PROVE  /\ Loose([q EXCEPT ![i] = new]) = Loose(q) + Left(new) - Left(q[i])
           /\ NoneAffectsMore([q EXCEPT ![i] = new])
           /\ Loose(q) \in Nat /\ Left(new) \in Nat /\ Left(q[i]) \in Nat
<1> DEFINE S == DOMAIN q
           now == [q EXCEPT ![i] = new]
           e == NotAllocatedAgain(q)
           f == NotAllocatedAgain(now)
<1>1. /\ now \in Seq(AdjustmentDocument) /\ DOMAIN now = S /\ now[i] = new
      /\ \A j \in S : j # i => now[j] = q[j]
  OBVIOUS
<1>2. IsFiniteSet(S) /\ i \in S
  BY ListIsFinite
<1> HIDE DEF now
<1>3. NoneAffectsMore(now)
  BY <1>1 DEF NoneAffectsMore
<1>4. Loose(q) = SumOver(e, S) /\ Loose(now) = SumOver(f, S)
  BY <1>1 DEF Loose
<1>5. \A j \in S \ {i} : f[j] = e[j]
  BY <1>1 DEF NotAllocatedAgain
<1> HIDE DEF e, f
<1>6. (\A j \in S : e[j] = Left(q[j]) /\ Left(q[j]) \in Nat) /\ Loose(q) \in Nat
  BY LooseIsNatural DEF e
<1>7. \A j \in S : f[j] = Left(now[j]) /\ Left(now[j]) \in Nat
  BY <1>1, <1>3, LooseIsNatural DEF f
<1>8. e[i] = Left(q[i]) /\ f[i] = Left(new) /\ Left(q[i]) \in Nat /\ Left(new) \in Nat
  BY <1>1, <1>2, <1>6, <1>7
<1> HIDE DEF S
<1>9. \A j \in S : e[j] \in Int /\ f[j] \in Int
  BY <1>6, <1>7
<1>10. SumOver(f, S) = SumOver(e, S) + f[i] - e[i]
  BY <1>2, <1>5, <1>9, SumChange
<1> QED
  BY <1>3, <1>4, <1>6, <1>8, <1>10 DEF now

\* A request joins the others and takes nothing off.
LEMMA AdjustmentRequested ==
    ASSUME AdjustmentAssumption, NEW r, AdjustmentSound(r), NEW o, OrderFits(o),
           o.cancelled = r.order.cancelled, o.status = r.order.status,
           unallocatedQuantity(o) = unallocatedQuantity(r.order),
           NEW new \in AdjustmentDocument, new.status = "SUBMITTED", new.affected <= new.reduction,
           \A i \in DOMAIN r.adjustments : /\ r.adjustments[i].key # new.key
                                           /\ r.adjustments[i].status # "SUBMITTED",
           NEW s, s = [order |-> o, adjustments |-> Append(r.adjustments, new)]
    PROVE  AdjustmentSound(s) /\ AdjustmentLater(r, s)
<1> DEFINE q == r.adjustments
           n == Len(q)
           more == Append(q, new)
           e == Reductions(q)
           f == Reductions(more)
<1>1. q \in Seq(AdjustmentDocument) /\ n \in Nat /\ DOMAIN q = 1..n
  BY DEF AdjustmentSound, AdjustmentRows
<1>2. /\ more \in Seq(AdjustmentDocument) /\ DOMAIN more = 1..(n + 1) /\ more[n + 1] = new
      /\ \A i \in 1..n : more[i] = q[i]
  BY <1>1
<1>3. TakenOff(more) = TakenOff(q)
  <2>1. \A i \in 1..n : e[i] \in Int
    <3> HIDE DEF e, n, q
    <3>1. \A i \in DOMAIN q : e[i] \in Nat
      BY <1>1, ReductionsAreNatural DEF e
    <3> QED
      BY <1>1, <3>1
  <2>2. \A i \in 1..n : f[i] = e[i]
    BY <1>1, <1>2 DEF Reductions
  <2>3. f[n + 1] = 0
    BY <1>2 DEF Reductions
  <2> HIDE DEF e, f, n, q
  <2>3a. n \in Nat /\ f[n + 1] \in Int /\ \A i \in 1..n : e[i] \in Int /\ f[i] = e[i]
    BY <1>1, <2>1, <2>2, <2>3
  <2>4. SumOver(f, 1..(n + 1)) = SumOver(e, 1..n) + f[n + 1]
    BY <2>3a, SumAppend
  <2>5. SumOver(e, 1..n) \in Int
    BY <1>1, <2>1, SumType, ListIsFinite
  <2>6. SumOver(f, 1..(n + 1)) = SumOver(e, 1..n)
    BY <2>3, <2>4, <2>5
  <2> HIDE DEF more
  <2> QED
    BY <1>1, <1>2, <2>6 DEF TakenOff, e, f
<1> HIDE DEF more
<1>4. s.order = o /\ s.adjustments = more
  BY DEF more
<1>5. s \in AdjustmentRows
  BY <1>2, <1>4 DEF AdjustmentRows, OrderFits, more
<1>6. AllDistinct(more)
  <2> HIDE DEF q, n
  <2>1. AllDistinct(q) /\ \A i \in 1..n : q[i].key # new.key /\ q[i].status # "SUBMITTED"
    BY <1>1 DEF AdjustmentSound, q
  <2>2. SUFFICES ASSUME NEW i \in 1..(n + 1), NEW j \in 1..(n + 1), i # j
                 PROVE  more[i].key # more[j].key /\ {more[i].status, more[j].status} # {"SUBMITTED"}
    BY <1>2 DEF AllDistinct
  <2>3. CASE i \in 1..n /\ j \in 1..n
    <3>1. more[i] = q[i] /\ more[j] = q[j]
      BY <1>2, <2>3
    <3> QED
      BY <1>1, <2>1, <2>2, <2>3, <3>1 DEF AllDistinct
  <2>4. CASE i \in 1..n /\ j = n + 1
    BY <1>2, <2>1, <2>4
  <2>5. CASE i = n + 1 /\ j \in 1..n
    BY <1>2, <2>1, <2>5
  <2>6. (i \in 1..n \/ i = n + 1) /\ (j \in 1..n \/ j = n + 1)
    BY <1>1
  <2> QED
    BY <2>2, <2>3, <2>4, <2>5, <2>6
<1>7. \A i \in DOMAIN more : ByAnother(more[i])
  BY <1>1, <1>2 DEF AdjustmentSound, ByAnother
<1>8. AdjustmentLater(r, s)
  BY <1>1, <1>2, <1>4 DEF AdjustmentLater
<1>9. NoneAffectsMore(q) /\ (o.status # "SUBMITTED" => unallocatedQuantity(o) <= Loose(q))
  BY DEF AdjustmentSound, NoneAffectsMore
<1> HIDE DEF q
<1>10. Loose(more) = Loose(q) /\ NoneAffectsMore(more)
  BY <1>1, <1>9, LooseAppended DEF more
<1>11. o.status # "SUBMITTED" => unallocatedQuantity(o) <= Loose(more)
  BY <1>9, <1>10
<1> QED
  BY <1>3, <1>4, <1>5, <1>6, <1>7, <1>8, <1>10, <1>11 DEF AdjustmentSound, NoneAffectsMore, q

\* One adjustment becomes what it is now, and the order is reduced accordingly.
LEMMA AdjustmentBecomes ==
    ASSUME AdjustmentAssumption, NEW r, AdjustmentSound(r), NEW i \in DOMAIN r.adjustments,
           NEW new \in AdjustmentDocument, ByAnother(new), new.status # "SUBMITTED",
           new.maker = r.adjustments[i].maker, new.reduction = r.adjustments[i].reduction,
           new.key = r.adjustments[i].key, new.affected = r.adjustments[i].affected,
           NEW o, OrderFits(o), o.cancelled = r.order.cancelled + Taken(new) - Taken(r.adjustments[i]),
           o.status # "SUBMITTED" =>
              /\ r.order.status # "SUBMITTED"
              /\ unallocatedQuantity(o) <= unallocatedQuantity(r.order) + Left(new) - Left(r.adjustments[i]),
           NEW s, s = [order |-> o, adjustments |-> [r.adjustments EXCEPT ![i] = new]]
    PROVE  AdjustmentSound(s) /\ AdjustmentLater(r, s)
<1> DEFINE q == r.adjustments
           S == DOMAIN q
           now == [q EXCEPT ![i] = new]
           e == Reductions(q)
           f == Reductions(now)
<1>1. q \in Seq(AdjustmentDocument) /\ S = 1..Len(q) /\ Len(q) \in Nat
  BY DEF AdjustmentSound, AdjustmentRows
<1>2. /\ now \in Seq(AdjustmentDocument) /\ DOMAIN now = S /\ now[i] = new
      /\ \A j \in S : j # i => now[j] = q[j]
  BY <1>1
<1>3. TakenOff(now) = TakenOff(q) + Taken(new) - Taken(q[i]) /\ TakenOff(q) \in Nat
  <2>1. (\A j \in S : e[j] \in Nat) /\ TakenOff(q) \in Nat
    BY <1>1, ReductionsAreNatural
  <2>2. \A j \in S : f[j] \in Nat
    BY <1>2, ReductionsAreNatural
  <2>3. \A j \in S \ {i} : f[j] = e[j]
    BY <1>2 DEF Reductions
  <2>4. f[i] = Taken(new) /\ e[i] = Taken(q[i])
    BY <1>2 DEF Reductions, Taken
  <2>5. IsFiniteSet(S) /\ i \in S
    BY <1>1, ListIsFinite
  <2>6. TakenOff(now) = SumOver(f, S) /\ TakenOff(q) = SumOver(e, S)
    BY <1>2 DEF TakenOff
  <2> HIDE DEF e, f, S, now, q
  <2>7. \A j \in S : e[j] \in Int /\ f[j] \in Int
    BY <2>1, <2>2
  <2>8. SumOver(f, S) = SumOver(e, S) + f[i] - e[i]
    BY <2>3, <2>5, <2>7, SumChange
  <2> QED
    BY <2>1, <2>4, <2>6, <2>8
<1> HIDE DEF now
<1>4. s.order = o /\ s.adjustments = now
  BY DEF now
<1>5. s \in AdjustmentRows
  BY <1>2, <1>4 DEF AdjustmentRows, OrderFits, now
<1>6. AllDistinct(now)
  <2>1. AllDistinct(q)
    BY DEF AdjustmentSound
  <2>2. now[i].status # "SUBMITTED" /\ \A j \in S : now[j].key = q[j].key
    BY <1>2
  <2>3. \A j \in S : now[j].status # "SUBMITTED" \/ now[j].status = q[j].status
    BY <1>2
  <2>4. DOMAIN now = S /\ S = DOMAIN q
    BY <1>2
  <2> HIDE DEF q, S, e, f
  <2>5. ASSUME NEW a \in S, NEW b \in S, a # b
        PROVE  now[a].key # now[b].key /\ {now[a].status, now[b].status} # {"SUBMITTED"}
    <3>1. q[a].key # q[b].key /\ {q[a].status, q[b].status} # {"SUBMITTED"}
      BY <2>1, <2>4, <2>5 DEF AllDistinct
    <3>2. now[a].status # "SUBMITTED" \/ now[b].status # "SUBMITTED"
      BY <2>3, <3>1
    <3> QED
      BY <2>2, <3>1, <3>2
  <2> QED
    BY <2>4, <2>5 DEF AllDistinct
<1>7. \A j \in DOMAIN now : ByAnother(now[j])
  BY <1>2 DEF AdjustmentSound
<1>8. AdjustmentLater(r, s)
  BY <1>2, <1>4 DEF AdjustmentLater
<1>9. s.order.cancelled = TakenOff(s.adjustments)
  BY <1>3, <1>4 DEF AdjustmentSound
<1>10. NoneAffectsMore(q) /\ new.affected <= new.reduction
  BY DEF AdjustmentSound, NoneAffectsMore
<1>11. r.order.status # "SUBMITTED" => unallocatedQuantity(r.order) <= Loose(q)
  BY DEF AdjustmentSound
<1>12. unallocatedQuantity(o) \in Nat /\ unallocatedQuantity(r.order) \in Nat
  BY QuantitiesOfOrder DEF AdjustmentSound
<1> HIDE DEF q
<1>13. /\ Loose(now) = Loose(q) + Left(new) - Left(q[i]) /\ NoneAffectsMore(now)
       /\ Loose(q) \in Nat /\ Left(new) \in Nat /\ Left(q[i]) \in Nat
  BY <1>1, <1>10, LooseChanged DEF now, q
<1>14. o.status # "SUBMITTED" => unallocatedQuantity(o) <= Loose(now)
  <2>1. SUFFICES ASSUME o.status # "SUBMITTED" PROVE unallocatedQuantity(o) <= Loose(now)
    OBVIOUS
  <2>2. unallocatedQuantity(o) <= unallocatedQuantity(r.order) + Left(new) - Left(q[i])
    BY <2>1 DEF q
  <2>3. unallocatedQuantity(r.order) <= Loose(q)
    BY <1>11, <2>1
  <2> QED
    BY <1>12, <1>13, <2>2, <2>3
<1> QED
  BY <1>4, <1>5, <1>6, <1>7, <1>8, <1>9, <1>13, <1>14 DEF AdjustmentSound, NoneAffectsMore

LEMMA AdjustmentsOpened ==
    ASSUME RolesAssumption, StaffDeskAssumption, AdjustmentAssumption, NEW r \in AdjustmentOpened
    PROVE  AdjustmentSound(r)
<1>1. CASE r = NewOrderRow
  <2>1. r.order = NewOrder /\ r.adjustments = <<>> /\ DOMAIN r.adjustments = {}
    BY <1>1 DEF NewOrderRow
  <2>2. OrderFits(NewOrder) /\ NewOrder.cancelled = 0
    BY DEF OrderFits, NewOrder, OrderRow, fulfillableQuantity, AdjustmentAssumption
  <2>3. r \in AdjustmentRows
    <3>1. NewOrder \in OrderRow
      BY <2>2 DEF OrderFits
    <3> QED
      BY <1>1, <3>1 DEF AdjustmentRows, NewOrderRow
  <2>4. TakenOff(r.adjustments) = 0
    BY <2>1, SumEmpty DEF TakenOff
  <2>5. NewOrder.status = "SUBMITTED"
    BY DEF NewOrder
  <2> QED
    BY <2>1, <2>2, <2>3, <2>4, <2>5 DEF AdjustmentSound, AllDistinct
<1>2. CASE r # NewOrderRow
  <2>1. PICK u \in Supers \cup Admins, v \in Supers \cup Admins, affected \in 0..1 :
           u # v /\ r = ReducedRow(u, v, affected)
    <3>1. PICK d \in (Supers \cup Admins) \X (Supers \cup Admins) \X (0..1) :
             d[1] # d[2] /\ r = ReducedRow(d[1], d[2], d[3])
      BY <1>2 DEF AdjustmentOpened
    <3>2. d[1] \in Supers \cup Admins /\ d[2] \in Supers \cup Admins /\ d[3] \in 0..1
      OBVIOUS
    <3> QED
      BY <3>1, <3>2
  <2> DEFINE d == AppliedAdjustment(u, v, affected)
             e == ApprovedAdjustment(u, v)
             q == <<d, e>>
             f == Reductions(q)
  <2>2. u \in Staff /\ v \in Staff /\ v # "nobody"
    BY DEF Staff, Users, StaffDeskAssumption
  <2>3. 1 \in 1..MaxOrdered /\ 1 \in 0..MaxOrdered /\ MaxOrdered - 1 \in 0..MaxOrdered /\ 0 \in 0..MaxOrdered
        /\ affected \in 0..MaxOrdered /\ affected <= 1
    BY DEF AdjustmentAssumption
  <2>4. /\ d \in AdjustmentDocument /\ d.status = "APPLIED" /\ d.reduction = 1 /\ d.key = 1
        /\ d.maker = u /\ d.checker = v /\ d.affected = affected
    BY <2>1, <2>2, <2>3 DEF AdjustmentDocument, AppliedAdjustment
  <2>5. /\ e \in AdjustmentDocument /\ e.status = "APPROVED" /\ e.reduction = 1 /\ e.key = 2
        /\ e.maker = u /\ e.checker = v /\ e.affected = 1
    BY <2>1, <2>2, <2>3 DEF AdjustmentDocument, ApprovedAdjustment
  <2>6. r = [order |-> ReducedOrder, adjustments |-> q]
    BY <2>1 DEF ReducedRow
  <2> HIDE DEF d, e
  <2>7. q \in Seq(AdjustmentDocument) /\ DOMAIN q = 1..2 /\ q[1] = d /\ q[2] = e
    BY <2>4, <2>5
  <2>8. OrderFits(ReducedOrder) /\ ReducedOrder.cancelled = 1
    BY <2>3 DEF OrderFits, ReducedOrder, OrderRow, fulfillableQuantity, AdjustmentAssumption
  <2>9. TakenOff(q) = 1
    <3>1. f[1] = 1 /\ f[1 + 1] = 0
      BY <2>4, <2>5, <2>7 DEF Reductions
    <3> HIDE DEF f
    <3>2. SumOver(f, 1..(1 + 1)) = SumOver(f, 1..1) + f[1 + 1]
      <4>1. 1 \in Nat /\ f[1 + 1] \in Int /\ \A i \in 1..1 : f[i] \in Int /\ f[i] = f[i]
        BY <3>1
      <4> QED
        BY <4>1, SumAppend
    <3>3. SumOver(f, {1}) = 1
      BY <3>1, SumOfOne
    <3>4. 1..1 = {1} /\ 1 + 1 = 2
      OBVIOUS
    <3>5. SumOver(f, 1..2) = 1
      BY <3>1, <3>2, <3>3, <3>4
    <3> QED
      BY <2>7, <3>5 DEF TakenOff, f
  <2>13. NoneAffectsMore(q)
    BY <2>3, <2>4, <2>5, <2>7 DEF NoneAffectsMore
  <2>14. unallocatedQuantity(r.order) = 0
    BY <2>6 DEF ReducedOrder, unallocatedQuantity, fulfillableQuantity, AdjustmentAssumption
  <2> HIDE DEF q
  <2>15. Loose(q) \in Nat
    BY <2>7, <2>13, LooseIsNatural
  <2>16. r.order.status # "SUBMITTED" => unallocatedQuantity(r.order) <= Loose(q)
    BY <2>14, <2>15
  <2>10. r.order = ReducedOrder /\ r.adjustments = q /\ r \in AdjustmentRows
    BY <2>6, <2>7, <2>8 DEF AdjustmentRows, OrderFits
  <2>11. AllDistinct(q)
    <3>1. \A i \in 1..2 : q[i].key = i /\ q[i].status # "SUBMITTED"
      BY <2>4, <2>5, <2>7
    <3> QED
      BY <2>7, <3>1 DEF AllDistinct
  <2>12. \A i \in DOMAIN q : ByAnother(q[i])
    BY <2>1, <2>2, <2>4, <2>5, <2>7 DEF ByAnother
  <2> QED
    BY <2>8, <2>9, <2>10, <2>11, <2>12, <2>13, <2>16 DEF AdjustmentSound, NoneAffectsMore
<1> QED
  BY <1>1, <1>2

LEMMA AdjustmentsOffered ==
    ASSUME NEW r, NEW u, NEW act \in AdjustmentButtons(r, u)
    PROVE  AdjustmentRefers(r, act)
<1>1. CASE act \in OrderHeader(r, u)
  BY <1>1 DEF OrderHeader, Offer, On, AdjustmentRefers, Verbs
<1>2. ASSUME NEW i \in DOMAIN r.adjustments,
             \/ act \in PendingAdjustmentBanner(r.adjustments[i], i, u)
             \/ act \in HeaderActions(r.order, r.adjustments[i], i, u)
      PROVE  AdjustmentRefers(r, act)
  <2>1. \E verb \in {"withdraw", "approve", "reject", "apply", "reverse"} : act = On(verb, i)
    BY <1>2 DEF PendingAdjustmentBanner, HeaderActions, Offer
  <2> QED
    BY <2>1 DEF On, AdjustmentRefers, Verbs
<1>3. \/ act \in OrderHeader(r, u)
      \/ \E i \in DOMAIN r.adjustments : \/ act \in PendingAdjustmentBanner(r.adjustments[i], i, u)
                                         \/ act \in HeaderActions(r.order, r.adjustments[i], i, u)
  BY DEF AdjustmentButtons
<1> QED
  BY <1>1, <1>2, <1>3

LEMMA AdjustmentsElsewhere ==
    ASSUME AdjustmentAssumption, NEW r, AdjustmentSound(r), NEW s \in AdjustmentElsewhere(r)
    PROVE  AdjustmentSound(s) /\ AdjustmentLater(r, s)
<1> DEFINE o == r.order
           q == r.adjustments
           p == s.order
<1>1. /\ OrderFits(o) /\ q \in Seq(AdjustmentDocument) /\ r = [order |-> o, adjustments |-> q]
      /\ o \in OrderRow
  BY DEF AdjustmentSound, AdjustmentRows, OrderFits
<1>2. \/ /\ o.status = "SUBMITTED"
         /\ s = [r EXCEPT !.order.status = "APPROVED", !.order.shelf = fulfillableQuantity(o)]
      \/ /\ o.shelf > 0
         /\ s = [r EXCEPT !.order.picked = @ + o.shelf, !.order.shelf = 0]
      \/ /\ o.status = "APPROVED" /\ o.shelf = 0
         /\ s = [r EXCEPT !.order.status = "COMPLETED"]
  BY DEF AdjustmentElsewhere, When
<1>3. s.adjustments = q /\ s = [order |-> p, adjustments |-> q]
  BY <1>1, <1>2
<1>4. /\ OrderFits(p) /\ p.cancelled = o.cancelled
      /\ \/ unallocatedQuantity(p) = 0
         \/ o.status # "SUBMITTED" /\ unallocatedQuantity(p) = unallocatedQuantity(o)
  <2>1. CASE /\ o.status = "SUBMITTED"
             /\ s = [r EXCEPT !.order.status = "APPROVED", !.order.shelf = fulfillableQuantity(o)]
    <3>1. p = [o EXCEPT !.status = "APPROVED", !.shelf = fulfillableQuantity(o)]
      BY <1>1, <2>1
    <3>2. fulfillableQuantity(o) \in 0..MaxOrdered /\ o.picked = 0
      <4>1. o.picked = 0
        BY <1>1, <2>1 DEF OrderFits
      <4> HIDE DEF o
      <4>2. o.cancelled \in 0..MaxOrdered /\ MaxOrdered \in Nat /\ fulfillableQuantity(o) = MaxOrdered - o.cancelled
        BY <1>1, QuantitiesOfOrder DEF OrderRow
      <4> QED
        BY <4>1, <4>2
    <3>3. p \in OrderRow /\ p.status = "APPROVED" /\ p.shelf = fulfillableQuantity(o) /\ p.picked = 0
          /\ p.cancelled = o.cancelled
      BY <1>1, <3>1, <3>2 DEF OrderRow
    <3>4. fulfillableQuantity(p) = fulfillableQuantity(o)
      BY <3>3 DEF fulfillableQuantity
    <3>5. MaxOrdered \in Nat
      BY DEF AdjustmentAssumption
    <3>6. unallocatedQuantity(p) = 0
      BY <3>2, <3>3, <3>4, <3>5 DEF unallocatedQuantity
    <3> QED
      BY <3>2, <3>3, <3>6 DEF OrderFits, fulfillableQuantity
  <2>2. CASE /\ o.shelf > 0
             /\ s = [r EXCEPT !.order.picked = @ + o.shelf, !.order.shelf = 0]
    <3>1. p = [o EXCEPT !.picked = @ + o.shelf, !.shelf = 0]
      BY <1>1, <2>2
    <3>2. o.picked + o.shelf \in 0..MaxOrdered /\ o.picked + o.shelf <= fulfillableQuantity(o)
          /\ o.status # "SUBMITTED"
      BY <1>1, <2>2, QuantitiesOfOrder DEF OrderFits
    <3> HIDE DEF o, p
    <3>3. p \in OrderRow /\ p.status = o.status /\ p.shelf = 0 /\ p.picked = o.picked + o.shelf
          /\ p.cancelled = o.cancelled
      <4> DEFINE picked == o.picked + o.shelf
      <4>1. p = [o EXCEPT !.picked = picked, !.shelf = 0] /\ picked \in 0..MaxOrdered
        BY <3>1, <3>2
      <4>2. 0 \in 0..MaxOrdered
        BY DEF AdjustmentAssumption
      <4> HIDE DEF picked
      <4>3. p \in OrderRow /\ p.status = o.status /\ p.shelf = 0 /\ p.picked = picked
            /\ p.cancelled = o.cancelled
        BY <1>1, <4>1, <4>2 DEF OrderRow
      <4> QED
        BY <4>3 DEF picked
    <3>4. OrderFits(p)
      BY <1>1, <3>2, <3>3, QuantitiesOfOrder DEF OrderFits, fulfillableQuantity
    <3>5. unallocatedQuantity(p) = unallocatedQuantity(o)
      BY <1>1, <3>3, <3>4, QuantitiesOfOrder
    <3> QED
      BY <3>2, <3>3, <3>4, <3>5
  <2>3. CASE /\ o.status = "APPROVED" /\ o.shelf = 0
             /\ s = [r EXCEPT !.order.status = "COMPLETED"]
    <3>1. p = [o EXCEPT !.status = "COMPLETED"]
      BY <1>1, <2>3
    <3>2. p \in OrderRow /\ p.status = "COMPLETED" /\ p.shelf = o.shelf /\ p.picked = o.picked
          /\ p.cancelled = o.cancelled
      BY <1>1, <3>1 DEF OrderRow
    <3>3. OrderFits(p)
      BY <1>1, <3>2 DEF OrderFits, fulfillableQuantity
    <3>4. unallocatedQuantity(p) = unallocatedQuantity(o)
      BY <3>2 DEF unallocatedQuantity, fulfillableQuantity
    <3> QED
      BY <2>3, <3>2, <3>3, <3>4
  <2> QED
    BY <1>2, <2>1, <2>2, <2>3
<1> HIDE DEF p
<1>5. s \in AdjustmentRows
  BY <1>1, <1>3, <1>4 DEF AdjustmentRows, OrderFits
<1>6. NoneAffectsMore(q) /\ (o.status # "SUBMITTED" => unallocatedQuantity(o) <= Loose(q))
  BY DEF AdjustmentSound, NoneAffectsMore
<1>7. p.status # "SUBMITTED" => unallocatedQuantity(p) <= Loose(q)
  <2> HIDE DEF q, o
  <2>1. Loose(q) \in Nat
    BY <1>1, <1>6, LooseIsNatural
  <2> QED
    BY <1>4, <1>6, <2>1
<1> QED
  BY <1>3, <1>4, <1>5, <1>7 DEF AdjustmentSound, AdjustmentLater, p

\* A row with another order, and with another adjustment in place of one.
WithBoth(r, o, i, new) == [order |-> o, adjustments |-> [r.adjustments EXCEPT ![i] = new]]

LEMMA StatusChanged ==
    ASSUME NEW r \in AdjustmentRows, NEW i \in DOMAIN r.adjustments, NEW status
    PROVE  Becomes(r, i, status) = WithBoth(r, r.order, i, [r.adjustments[i] EXCEPT !.status = status])
<1>1. r = [order |-> r.order, adjustments |-> r.adjustments]
  BY DEF AdjustmentRows
<1> QED
  BY <1>1 DEF Becomes, WithBoth

MarkedAs(o, b) == [o EXCEPT !.pending = b]
SignedBy(d, u) == [d EXCEPT !.checker = u]
Marked(x, b) == [x EXCEPT !.order.pending = b]
Signed(x, i, u, b) == [x EXCEPT !.adjustments[i].checker = u, !.order.pending = b]

\* The order and the adjustment of such a row change once more.
LEMMA PendingChanged ==
    ASSUME NEW r \in AdjustmentRows, NEW i \in DOMAIN r.adjustments, NEW o \in OrderRow, NEW new, NEW b
    PROVE  Marked(WithBoth(r, o, i, new), b) = WithBoth(r, MarkedAs(o, b), i, new)
BY DEF WithBoth, Marked, MarkedAs

LEMMA CheckerChanged ==
    ASSUME NEW r \in AdjustmentRows, NEW i \in DOMAIN r.adjustments, NEW o, NEW new, NEW u, NEW b
    PROVE  Signed(WithBoth(r, o, i, new), i, u, b) = WithBoth(r, MarkedAs(o, b), i, SignedBy(new, u))
<1> DEFINE x == WithBoth(r, o, i, new)
           y == [x EXCEPT !.adjustments[i].checker = u]
<1>1. x = [order |-> o, adjustments |-> [r.adjustments EXCEPT ![i] = new]]
  BY DEF WithBoth
<1>2. y = [order |-> o, adjustments |-> [r.adjustments EXCEPT ![i] = [new EXCEPT !.checker = u]]]
  <2> DEFINE q == [r.adjustments EXCEPT ![i] = new]
             z == [new EXCEPT !.checker = u]
  <2>1. q[i] = new /\ i \in DOMAIN q /\ q = [j \in DOMAIN q |-> q[j]]
        /\ r.adjustments = [j \in DOMAIN r.adjustments |-> r.adjustments[j]]
    BY DEF AdjustmentRows
  <2>2. [q EXCEPT ![i] = z] = [r.adjustments EXCEPT ![i] = z]
    BY <2>1
  <2> HIDE DEF q
  <2>3. y = [order |-> o, adjustments |-> [q EXCEPT ![i].checker = u]]
    BY <1>1 DEF q
  <2>4. [q EXCEPT ![i].checker = u] = [q EXCEPT ![i] = z]
    BY <2>1
  <2> QED
    BY <2>2, <2>3, <2>4
<1>3. [y EXCEPT !.order.pending = b] = WithBoth(r, MarkedAs(o, b), i, SignedBy(new, u))
  <2> DEFINE z == [new EXCEPT !.checker = u]
  <2> HIDE DEF y, z
  <2>1. y = [order |-> o, adjustments |-> [r.adjustments EXCEPT ![i] = z]]
    BY <1>2 DEF z
  <2>2. [y EXCEPT !.order.pending = b] = WithBoth(r, MarkedAs(o, b), i, z)
    BY <2>1 DEF WithBoth, MarkedAs
  <2> QED
    BY <2>2 DEF z, SignedBy
<1>4. Signed(x, i, u, b) = [y EXCEPT !.order.pending = b]
  <2> HIDE DEF x
  <2> QED
    BY DEF Signed
<1> QED
  BY <1>3, <1>4

LEMMA AdjustmentChanged ==
    ASSUME AdjustmentAssumption, NEW r, AdjustmentSound(r), NEW i \in DOMAIN r.adjustments,
           NEW new \in AdjustmentDocument, ByAnother(new), new.status # "SUBMITTED",
           new.maker = r.adjustments[i].maker, new.reduction = r.adjustments[i].reduction,
           new.key = r.adjustments[i].key, new.affected = r.adjustments[i].affected,
           NEW o, OrderFits(o), o.cancelled = r.order.cancelled + Taken(new) - Taken(r.adjustments[i]),
           o.status # "SUBMITTED" =>
              /\ r.order.status # "SUBMITTED"
              /\ unallocatedQuantity(o) <= unallocatedQuantity(r.order) + Left(new) - Left(r.adjustments[i]),
           NEW s, s = WithBoth(r, o, i, new)
    PROVE  AdjustmentSound(s) /\ AdjustmentLater(r, s)
BY AdjustmentBecomes DEF WithBoth

\* The mark on an order says nothing about its quantities.
LEMMA MarkedFits ==
    ASSUME NEW o, OrderFits(o), NEW b \in BOOLEAN
    PROVE  /\ OrderFits([o EXCEPT !.pending = b]) /\ [o EXCEPT !.pending = b].cancelled = o.cancelled
           /\ [o EXCEPT !.pending = b].status = o.status
           /\ unallocatedQuantity([o EXCEPT !.pending = b]) = unallocatedQuantity(o)
BY DEF OrderFits, OrderRow, fulfillableQuantity, unallocatedQuantity

LEMMA Verdict ==
    ASSUME NEW o, Eligible(o), NEW d
    PROVE  evaluate(o, d) # "INELIGIBLE_LIFECYCLE"
BY DEF evaluate

\* A decision that takes nothing off or back.
LEMMA AdjustmentDecided ==
    ASSUME AdjustmentAssumption, NEW r, AdjustmentSound(r), NEW i \in DOMAIN r.adjustments,
           r.adjustments[i].status = "SUBMITTED",
           NEW status \in {"APPROVED", "REJECTED", "CANCELLED"}, NEW c \in Staff \cup {"nobody"},
           status = "APPROVED" => MakerChecker(c, r.adjustments[i]) /\ c # "nobody",
           NEW b \in BOOLEAN,
           NEW s, s = WithBoth(r, [r.order EXCEPT !.pending = b], i,
                               [[r.adjustments[i] EXCEPT !.status = status] EXCEPT !.checker = c])
    PROVE  AdjustmentSound(s) /\ AdjustmentLater(r, s)
<1> DEFINE d == r.adjustments[i]
           new == [[d EXCEPT !.status = status] EXCEPT !.checker = c]
           o == [r.order EXCEPT !.pending = b]
<1>1. d \in AdjustmentDocument /\ OrderFits(r.order)
  BY DEF AdjustmentSound, AdjustmentRows
<1>2. /\ new \in AdjustmentDocument /\ new.status = status /\ new.maker = d.maker
      /\ new.reduction = d.reduction /\ new.key = d.key /\ new.checker = c /\ new.affected = d.affected
  BY <1>1 DEF AdjustmentDocument
<1> HIDE DEF new
<1>3. ByAnother(new)
  BY <1>2 DEF ByAnother, MakerChecker
<1>4. /\ OrderFits(o) /\ o.cancelled = r.order.cancelled /\ r.order.cancelled \in Nat
      /\ o.status = r.order.status
      /\ unallocatedQuantity(o) = unallocatedQuantity(r.order) /\ unallocatedQuantity(r.order) \in Nat
  BY <1>1, MarkedFits, QuantitiesOfOrder
<1> HIDE DEF o
<1>5. Taken(new) = 0 /\ Taken(d) = 0 /\ Left(new) = 0 /\ Left(d) = 0
  BY <1>2 DEF Taken, Left
<1>6. o.cancelled = r.order.cancelled + Taken(new) - Taken(d)
  BY <1>4, <1>5
<1>7. s = WithBoth(r, o, i, new)
  BY DEF o, new
<1>8. unallocatedQuantity(o) <= unallocatedQuantity(r.order) + Left(new) - Left(d)
  BY <1>4, <1>5
<1> QED
  BY <1>2, <1>3, <1>4, <1>6, <1>7, <1>8, AdjustmentChanged

LEMMA AdjustmentApplied ==
    ASSUME AdjustmentAssumption, NEW r, AdjustmentSound(r), NEW i \in DOMAIN r.adjustments,
           NEW s, s # r, s = applyAdjustment(r, i).row
    PROVE  /\ AdjustmentSound(s) /\ AdjustmentLater(r, s)
           /\ r.adjustments[i].status = "APPROVED" /\ Eligible(r.order)
<1> DEFINE d == r.adjustments[i]
           o == r.order
           released == Encroached(o, d.reduction)
           at == o.version + 1
           c == o.cancelled + d.reduction
           h == o.shelf - released
           p == [o EXCEPT !.cancelled = c, !.shelf = h, !.version = at, !.pending = FALSE]
           mid == [d EXCEPT !.status = "APPLIED"]
           new == [mid EXCEPT !.at = at]
<1>1. /\ r \in AdjustmentRows /\ d \in AdjustmentDocument /\ OrderFits(o) /\ o \in OrderRow /\ ByAnother(d)
      /\ r = [order |-> o, adjustments |-> r.adjustments]
      /\ r.adjustments = [j \in DOMAIN r.adjustments |-> r.adjustments[j]]
  BY DEF AdjustmentSound, AdjustmentRows, OrderFits
<1>2. /\ s = [Becomes(r, i, "APPLIED") EXCEPT
                  !.adjustments[i].at = o.version + 1,
                  !.order.cancelled = @ + d.reduction, !.order.shelf = @ - released,
                  !.order.version = @ + 1, !.order.pending = FALSE]
      /\ d.status = "APPROVED" /\ Eligible(o) /\ d.reduction <= fulfillableQuantity(o) /\ released <= o.shelf
  BY DEF applyAdjustment, Checked, Reply
<1>3. Becomes(r, i, "APPLIED") = [order |-> o, adjustments |-> [r.adjustments EXCEPT ![i] = mid]]
  BY <1>1, StatusChanged DEF WithBoth
<1>4. s = WithBoth(r, p, i, new)
  <2> DEFINE q == [r.adjustments EXCEPT ![i] = mid]
             x == [order |-> o, adjustments |-> q]
             y == [x EXCEPT !.adjustments[i].at = at]
             now == [r.adjustments EXCEPT ![i] = new]
  <2>1. q[i] = mid /\ i \in DOMAIN q
    BY <1>1
  <2>2. [q EXCEPT ![i] = new] = now
    BY <1>1
  <2> HIDE DEF new, mid, q, at, released, p
  <2>3. y = [order |-> o, adjustments |-> [q EXCEPT ![i].at = at]]
    OBVIOUS
  <2>4. [q EXCEPT ![i].at = at] = [q EXCEPT ![i] = new]
    BY <2>1 DEF new
  <2>5. y = [order |-> o, adjustments |-> now]
    BY <2>2, <2>3, <2>4
  <2>6. s = [y EXCEPT !.order.cancelled = @ + d.reduction, !.order.shelf = @ - released,
                      !.order.version = @ + 1, !.order.pending = FALSE]
    BY <1>2, <1>3 DEF q, at
  <2> HIDE DEF y, now, d, o
  <2>7. s = [order |-> [o EXCEPT !.cancelled = @ + d.reduction, !.shelf = @ - released,
                                 !.version = @ + 1, !.pending = FALSE], adjustments |-> now]
    BY <2>5, <2>6
  <2>8. [o EXCEPT !.cancelled = @ + d.reduction, !.shelf = @ - released,
                  !.version = @ + 1, !.pending = FALSE] = p
    BY <1>1 DEF p, at, OrderRow
  <2> QED
    BY <2>7, <2>8 DEF WithBoth, now
<1>5. /\ new \in AdjustmentDocument /\ new.status = "APPLIED" /\ new.maker = d.maker
      /\ new.reduction = d.reduction /\ new.key = d.key /\ new.checker = d.checker
      /\ new.affected = d.affected
  <2>1. at \in Nat
    BY <1>1, QuantitiesOfOrder
  <2> HIDE DEF at
  <2> QED
    BY <1>1, <2>1 DEF AdjustmentDocument
<1>6. ByAnother(new)
  BY <1>1, <1>2, <1>5 DEF ByAnother
<1>7. /\ o.cancelled \in Nat /\ o.shelf \in Nat /\ o.picked \in Nat /\ o.version \in Nat
      /\ o.status \in {"SUBMITTED", "APPROVED", "COMPLETED"}
      /\ MaxOrdered \in Nat /\ d.reduction \in Nat /\ d.reduction >= 1
      /\ fulfillableQuantity(o) = MaxOrdered - o.cancelled
      /\ unallocatedQuantity(o) = MaxOrdered - o.cancelled - o.shelf - o.picked
      /\ unallocatedQuantity(o) \in Nat /\ d.reduction \in 1..MaxOrdered
  BY <1>1, QuantitiesOfOrder, Quantities
<1>8. /\ released = IF d.reduction <= unallocatedQuantity(o) THEN 0 ELSE d.reduction - unallocatedQuantity(o)
      /\ released \in Nat
  <2> HIDE DEF o, d
  <2> QED
    BY <1>1, <1>7, EncroachedIs
<1>9. /\ OrderFits(p) /\ p.cancelled = c /\ p.status = o.status
      /\ unallocatedQuantity(p) <= unallocatedQuantity(o) /\ unallocatedQuantity(p) \in Nat
  <2> HIDE DEF released, o, d
  <2>1. c \in 0..MaxOrdered /\ h \in 0..MaxOrdered /\ at \in Nat
    BY <1>2, <1>7, <1>8
  <2>2. h + o.picked <= MaxOrdered - c
    BY <1>2, <1>7, <1>8
  <2>3. o.status = "SUBMITTED" => h = 0 /\ o.picked = 0
    BY <1>1, <1>2, <1>7, <1>8 DEF OrderFits
  <2>5. MaxOrdered - c - h - o.picked <= unallocatedQuantity(o)
    BY <1>2, <1>7, <1>8
  <2> HIDE DEF c, h, at
  <2>4. /\ p \in OrderRow /\ p.cancelled = c /\ p.shelf = h /\ p.picked = o.picked /\ p.status = o.status
    BY <1>1, <2>1 DEF OrderRow
  <2>6. OrderFits(p)
    BY <2>2, <2>3, <2>4 DEF OrderFits, fulfillableQuantity
  <2>7. unallocatedQuantity(p) = MaxOrdered - c - h - o.picked /\ unallocatedQuantity(p) \in Nat
    BY <2>4, <2>6, QuantitiesOfOrder
  <2> QED
    BY <2>4, <2>5, <2>6, <2>7
<1>10. p.cancelled = o.cancelled + Taken(new) - Taken(d)
  <2> HIDE DEF p, new, o, d
  <2>1. Taken(new) = d.reduction /\ Taken(d) = 0
    BY <1>2, <1>5 DEF Taken
  <2> QED
    BY <1>7, <1>9, <2>1
<1>11. unallocatedQuantity(p) <= unallocatedQuantity(o) + Left(new) - Left(d)
  <2> HIDE DEF p, new, o, d
  <2>1. Left(new) = 0 /\ Left(d) = 0
    BY <1>2, <1>5 DEF Left
  <2> QED
    BY <1>7, <1>9, <2>1
<1> HIDE DEF p, new
<1> QED
  BY <1>2, <1>4, <1>5, <1>6, <1>9, <1>10, <1>11, AdjustmentChanged

LEMMA AdjustmentReversed ==
    ASSUME AdjustmentAssumption, NEW r, AdjustmentSound(r), NEW i \in DOMAIN r.adjustments, NEW form,
           NEW s, s # r, s = reverseAdjustment(r, i, form).row
    PROVE  /\ AdjustmentSound(s) /\ AdjustmentLater(r, s)
           /\ r.adjustments[i].status = "APPLIED" /\ Eligible(r.order)
<1> DEFINE d == r.adjustments[i]
           o == r.order
           c == o.cancelled - d.reduction
           h == o.shelf + d.affected
           v == o.version + 1
           p == [o EXCEPT !.cancelled = c, !.shelf = h, !.version = v, !.pending = FALSE]
           new == [d EXCEPT !.status = "REVERSED"]
<1>1. /\ r \in AdjustmentRows /\ d \in AdjustmentDocument /\ OrderFits(o) /\ o \in OrderRow /\ ByAnother(d)
  BY DEF AdjustmentSound, AdjustmentRows, OrderFits
<1>2. /\ s = [Becomes(r, i, "REVERSED") EXCEPT
                  !.order.cancelled = @ - d.reduction, !.order.shelf = @ + d.affected,
                  !.order.version = @ + 1, !.order.pending = FALSE]
      /\ Reversible(r, i)
  BY DEF reverseAdjustment, Checked, Reply
<1>3. /\ d.status = "APPLIED" /\ o.status = "APPROVED" /\ o.cancelled >= d.reduction
      /\ d.affected > 0 => o.shelf + o.picked + d.affected <= fulfillableQuantity(o) + d.reduction
  BY <1>2 DEF Reversible
<1>4. Becomes(r, i, "REVERSED") = [order |-> o, adjustments |-> [r.adjustments EXCEPT ![i] = new]]
  BY <1>1, StatusChanged DEF WithBoth
<1>5. s = WithBoth(r, p, i, new)
  <2> DEFINE now == [r.adjustments EXCEPT ![i] = new]
             x == Becomes(r, i, "REVERSED")
  <2> HIDE DEF new, now, p, d, o, x
  <2>0. /\ x = [order |-> o, adjustments |-> now]
        /\ s = [x EXCEPT !.order.cancelled = @ - d.reduction, !.order.shelf = @ + d.affected,
                         !.order.version = @ + 1, !.order.pending = FALSE]
    BY <1>2, <1>4 DEF now, x
  <2>1. s = [order |-> [o EXCEPT !.cancelled = @ - d.reduction, !.shelf = @ + d.affected,
                                 !.version = @ + 1, !.pending = FALSE], adjustments |-> now]
    BY <2>0
  <2>2. [o EXCEPT !.cancelled = @ - d.reduction, !.shelf = @ + d.affected,
                  !.version = @ + 1, !.pending = FALSE] = p
    BY <1>1 DEF p, OrderRow
  <2> QED
    BY <2>1, <2>2 DEF WithBoth, now
<1>6. /\ new \in AdjustmentDocument /\ new.status = "REVERSED" /\ new.maker = d.maker
      /\ new.reduction = d.reduction /\ new.key = d.key /\ new.checker = d.checker
      /\ new.affected = d.affected
  BY <1>1 DEF AdjustmentDocument
<1>7. ByAnother(new)
  BY <1>1, <1>3, <1>6 DEF ByAnother
<1>8. /\ o.cancelled \in Nat /\ o.shelf \in Nat /\ o.picked \in Nat /\ o.version \in Nat
      /\ MaxOrdered \in Nat /\ d.reduction \in Nat /\ d.reduction >= 1
      /\ fulfillableQuantity(o) = MaxOrdered - o.cancelled
      /\ o.shelf + o.picked <= fulfillableQuantity(o)
      /\ d.affected \in Nat
      /\ unallocatedQuantity(o) = MaxOrdered - o.cancelled - o.shelf - o.picked
  <2> HIDE DEF o, d
  <2>1. o.shelf + o.picked <= fulfillableQuantity(o)
    BY <1>1 DEF OrderFits
  <2> QED
    BY <1>1, <2>1, QuantitiesOfOrder, Quantities
<1>9. /\ OrderFits(p) /\ p.cancelled = c
      /\ unallocatedQuantity(p) = MaxOrdered - c - h - o.picked
  <2> HIDE DEF o, d
  <2>1. h + o.picked <= MaxOrdered - c
    <3>1. CASE d.affected = 0
      BY <1>8, <3>1
    <3>2. CASE d.affected # 0
      BY <1>3, <1>8, <3>2
    <3> QED
      BY <3>1, <3>2
  <2>2. c \in Nat /\ h \in Nat /\ v \in Nat
    BY <1>3, <1>8
  <2>3. c \in 0..MaxOrdered /\ h \in 0..MaxOrdered
    BY <1>8, <2>1, <2>2
  <2> HIDE DEF c, h, v
  <2>4. /\ p \in OrderRow /\ p.cancelled = c /\ p.shelf = h /\ p.picked = o.picked /\ p.status = "APPROVED"
    BY <1>1, <1>3, <2>2, <2>3 DEF OrderRow
  <2>5. OrderFits(p)
    BY <2>1, <2>4 DEF OrderFits, fulfillableQuantity
  <2> QED
    BY <2>4, <2>5, QuantitiesOfOrder
<1>10. p.cancelled = o.cancelled + Taken(new) - Taken(d)
  <2> HIDE DEF p, new, o, d
  <2>1. Taken(d) = d.reduction /\ Taken(new) = 0
    BY <1>3, <1>6 DEF Taken
  <2> QED
    BY <1>8, <1>9, <2>1
<1>11. Eligible(o)
  BY <1>3 DEF Eligible
<1>12. unallocatedQuantity(p) <= unallocatedQuantity(o) + Left(new) - Left(d)
  <2> HIDE DEF p, new, o, d
  <2>1. Left(new) = d.reduction - d.affected /\ Left(d) = 0
    BY <1>3, <1>6 DEF Left
  <2> QED
    BY <1>8, <1>9, <2>1
<1> HIDE DEF p, new
<1> QED
  BY <1>3, <1>5, <1>6, <1>7, <1>9, <1>10, <1>11, <1>12, AdjustmentChanged

\* What an approval must have shown, as the server sees it.
AdjustmentTicked(r, act, form) ==
    act.verb = "approve" => (MustAcknowledge(r.order, r.adjustments[act.of]) => form.acknowledged)

LEMMA AdjustmentsServed ==
    ASSUME RolesAssumption, StaffDeskAssumption, AdjustmentAssumption, NEW r, AdjustmentSound(r),
           NEW u \in Users, NEW act, AdjustmentRefers(r, act), AdjustmentAllowed(r, u, act), NEW form,
           act.verb = "request" => form.reduction \in 1..MaxOrdered /\ form.key \in Nat,
           NEW s, s = AdjustmentServed(r, u, act, form).row
    PROVE  /\ AdjustmentSound(s) /\ AdjustmentLater(r, s)
           /\ s # r => act \in AdjustmentButtons(r, u) /\ AdjustmentTicked(r, act, form)
<1> DEFINE i == act.of
           d == r.adjustments[i]
           o == r.order
<1>1. SUFFICES ASSUME s # r
               PROVE  /\ AdjustmentSound(s) /\ AdjustmentLater(r, s)
                      /\ act \in AdjustmentButtons(r, u) /\ AdjustmentTicked(r, act, form)
  BY DEF AdjustmentLater
<1>2. /\ r \in AdjustmentRows /\ OrderFits(o) /\ o \in OrderRow /\ u # "nobody"
      /\ r = [order |-> o, adjustments |-> r.adjustments]
  BY DEF AdjustmentSound, AdjustmentRows, OrderFits, StaffDeskAssumption
<1>3. CASE act.verb = "request"
  <2> DEFINE made == NewAdjustment(u, form.reduction, Encroached(o, form.reduction), o.version, form.key)
             p == [o EXCEPT !.pending = TRUE]
  <2>1. /\ \A j \in DOMAIN r.adjustments : r.adjustments[j].key # form.key
        /\ Eligible(o) /\ ~OneWaits(r)
        /\ s = [r EXCEPT !.adjustments = Append(@, made), !.order.pending = TRUE]
    <3> DEFINE same == {j \in DOMAIN r.adjustments : r.adjustments[j].key = form.key}
               next == [r EXCEPT !.adjustments = Append(@, made), !.order.pending = TRUE]
    <3>1. AdjustmentServed(r, u, act, form) =
             IF same # {}
             THEN Checked(r, TRUE, \A j \in same : /\ r.adjustments[j].maker = u
                                                   /\ r.adjustments[j].reduction = form.reduction, r)
             ELSE IF ~Eligible(o) \/ OneWaits(r) THEN Reply(r, "conflict")
             ELSE Checked(r, form.reduction <= fulfillableQuantity(o), TRUE, next)
      BY <1>3 DEF AdjustmentServed, createAdjustmentRequest
    <3> HIDE DEF same, next
    <3>2. same = {} /\ Eligible(o) /\ ~OneWaits(r) /\ s = next
      BY <1>1, <3>1 DEF Checked, Reply
    <3> QED
      BY <3>2 DEF same, next
  <2>2. Has(u, "order.adjust.request") /\ u \in Supers \cup Admins
    BY <1>3, AdjustersAre DEF AdjustmentAllowed
  <2>3. made \in AdjustmentDocument /\ made.status = "SUBMITTED" /\ made.key = form.key
    <3>1. form.reduction \in 1..MaxOrdered /\ form.key \in Nat
      BY <1>3
    <3> DEFINE reduction == form.reduction
    <3> HIDE DEF o, reduction
    <3>2. Encroached(o, reduction) \in 0..MaxOrdered /\ o.version \in Nat
      BY <1>2, <3>1, EncroachedIs, QuantitiesOfOrder DEF reduction
    <3> QED
      BY <2>2, <3>1, <3>2 DEF NewAdjustment, AdjustmentDocument, reduction
  <2>9. made.affected <= made.reduction
    <3> DEFINE reduction == form.reduction
    <3>1. made.affected = Encroached(o, reduction) /\ made.reduction = reduction /\ reduction \in 1..MaxOrdered
      BY <1>3, <2>2 DEF NewAdjustment
    <3> HIDE DEF o, reduction, made
    <3> QED
      BY <1>2, <3>1, EncroachedIs
  <2> HIDE DEF made
  <2>4. s = [order |-> p, adjustments |-> Append(r.adjustments, made)]
    <3> DEFINE q == Append(r.adjustments, made)
    <3> HIDE DEF q
    <3>1. s = [r EXCEPT !.adjustments = q, !.order.pending = TRUE]
      BY <2>1 DEF q
    <3> QED
      BY <1>2, <3>1 DEF q
  <2>5. /\ OrderFits(p) /\ p.cancelled = o.cancelled /\ p.status = o.status
        /\ unallocatedQuantity(p) = unallocatedQuantity(o)
    BY <1>2, MarkedFits
  <2>6. \A j \in DOMAIN r.adjustments : /\ r.adjustments[j].key # made.key
                                        /\ r.adjustments[j].status # "SUBMITTED"
    BY <2>1, <2>3 DEF OneWaits
  <2>7. act \in OrderHeader(r, u)
    BY <1>3, <2>1, <2>2 DEF OrderHeader, Offer, AdjustmentRefers, OneWaits
  <2>8. act \in AdjustmentButtons(r, u) /\ AdjustmentTicked(r, act, form)
    BY <1>3, <2>7 DEF AdjustmentButtons, AdjustmentTicked
  <2> HIDE DEF p
  <2> QED
    BY <2>3, <2>4, <2>5, <2>6, <2>8, <2>9, AdjustmentRequested
<1>4. CASE act.verb # "request"
  <2>1. i \in DOMAIN r.adjustments /\ d \in AdjustmentDocument
    BY <1>2, <1>4 DEF AdjustmentRefers, AdjustmentRows
  <2>2. \/ act \in PendingAdjustmentBanner(d, i, u)
        \/ act \in HeaderActions(o, d, i, u)
        => act \in AdjustmentButtons(r, u)
    BY <2>1 DEF AdjustmentButtons
  <2>3. ASSUME act.verb \in {"approve", "reject", "reverse", "apply"}
        PROVE  u \in Staff
    BY <2>3, OnlyStaffMay DEF AdjustmentAllowed
  <2>4. CASE act.verb = "withdraw"
    <3>1. AdjustmentServed(r, u, act, form) =
             Checked(r, TRUE, d.status = "SUBMITTED", [Becomes(r, i, "CANCELLED") EXCEPT !.order.pending = FALSE])
      BY <2>4 DEF AdjustmentServed, withdrawAdjustmentRequest
    <3>2. d.status = "SUBMITTED" /\ s = [Becomes(r, i, "CANCELLED") EXCEPT !.order.pending = FALSE]
      BY <1>1, <3>1 DEF Checked, Reply
    <3> DEFINE mid == [d EXCEPT !.status = "CANCELLED"]
               c == d.checker
    <3>3. s = WithBoth(r, [o EXCEPT !.pending = FALSE], i, mid)
      <4>1. Becomes(r, i, "CANCELLED") = WithBoth(r, o, i, mid)
        BY <1>2, <2>1, StatusChanged
      <4>0. r \in AdjustmentRows /\ i \in DOMAIN r.adjustments /\ o \in OrderRow
        BY <1>2, <2>1
      <4> DEFINE mark == FALSE
      <4> HIDE DEF mid, o, i, mark
      <4>2. Marked(WithBoth(r, o, i, mid), mark) = WithBoth(r, MarkedAs(o, mark), i, mid)
        BY <4>0, PendingChanged
      <4> QED
        BY <3>2, <4>1, <4>2 DEF mark, Marked, MarkedAs
    <3>4. mid = [mid EXCEPT !.checker = c] /\ c \in Staff \cup {"nobody"}
      BY <2>1 DEF AdjustmentDocument
    <3>5. s = WithBoth(r, [o EXCEPT !.pending = FALSE], i, [mid EXCEPT !.checker = c])
      BY <3>3, <3>4
    <3>6. AdjustmentSound(s) /\ AdjustmentLater(r, s)
      <4> HIDE DEF i, c
      <4> QED
        BY <2>1, <3>2, <3>4, <3>5, AdjustmentDecided
    <3>7. u \in Supers \cup Admins
      BY <2>4, AdjustersAre DEF AdjustmentAllowed
    <3>8. act \in PendingAdjustmentBanner(d, i, u)
      BY <2>4, <3>2, <3>7 DEF PendingAdjustmentBanner, Offer, AdjustmentRefers
    <3> QED
      BY <2>2, <2>4, <3>6, <3>8 DEF AdjustmentTicked
  <2>5. CASE act.verb = "approve"
    <3> DEFINE next == [Becomes(r, i, "APPROVED") EXCEPT !.adjustments[i].checker = u, !.order.pending = TRUE]
               ready == /\ d.status = "SUBMITTED"
                        /\ d.version = o.version
                        /\ evaluate(o, d) \in {"READY", "WARNING_ALLOCATION"}
    <3>1. AdjustmentServed(r, u, act, form) =
             IF ~ready THEN Reply(r, "conflict")
             ELSE Checked(r, MustAcknowledge(o, d) => form.acknowledged, TRUE, next)
      BY <2>5 DEF AdjustmentServed, approveAdjustment
    <3> HIDE DEF next, ready
    <3>2. ready /\ s = next /\ (MustAcknowledge(o, d) => form.acknowledged)
      BY <1>1, <3>1 DEF Checked, Reply
    <3> DEFINE mid == [d EXCEPT !.status = "APPROVED"]
    <3>3. s = WithBoth(r, [o EXCEPT !.pending = TRUE], i, [mid EXCEPT !.checker = u])
      <4>1. Becomes(r, i, "APPROVED") = WithBoth(r, o, i, mid)
        BY <1>2, <2>1, StatusChanged
      <4>0. r \in AdjustmentRows /\ i \in DOMAIN r.adjustments
        BY <1>2, <2>1
      <4> DEFINE mark == TRUE
      <4> HIDE DEF mid, o, i, mark
      <4>2. Signed(WithBoth(r, o, i, mid), i, u, mark) = WithBoth(r, MarkedAs(o, mark), i, SignedBy(mid, u))
        BY <4>0, CheckerChanged
      <4> QED
        BY <3>2, <4>1, <4>2 DEF mark, next, Signed, MarkedAs, SignedBy
    <3>4. Has(u, "order.adjust.approve") /\ MakerChecker(u, d) /\ u \in Staff
      BY <2>3, <2>5 DEF AdjustmentAllowed
    <3>5. d.status = "SUBMITTED"
      BY <3>2 DEF ready
    <3>6. AdjustmentSound(s) /\ AdjustmentLater(r, s)
      <4> HIDE DEF i
      <4> QED
        BY <1>2, <2>1, <3>3, <3>4, <3>5, AdjustmentDecided
    <3>7. act \in HeaderActions(o, d, i, u)
      BY <2>5, <3>2, <3>4 DEF HeaderActions, Offer, AdjustmentRefers, ready
    <3> QED
      BY <2>2, <2>5, <3>2, <3>6, <3>7 DEF AdjustmentTicked
  <2>6. CASE act.verb = "reject"
    <3> DEFINE next == [Becomes(r, i, "REJECTED") EXCEPT !.adjustments[i].checker = u, !.order.pending = FALSE]
    <3>1. AdjustmentServed(r, u, act, form) =
             Checked(r, form.reason = "enough", d.status = "SUBMITTED", next)
      BY <2>6 DEF AdjustmentServed, rejectAdjustment
    <3> HIDE DEF next
    <3>2. d.status = "SUBMITTED" /\ s = next
      BY <1>1, <3>1 DEF Checked, Reply
    <3> DEFINE mid == [d EXCEPT !.status = "REJECTED"]
    <3>3. s = WithBoth(r, [o EXCEPT !.pending = FALSE], i, [mid EXCEPT !.checker = u])
      <4>1. Becomes(r, i, "REJECTED") = WithBoth(r, o, i, mid)
        BY <1>2, <2>1, StatusChanged
      <4>0. r \in AdjustmentRows /\ i \in DOMAIN r.adjustments
        BY <1>2, <2>1
      <4> DEFINE mark == FALSE
      <4> HIDE DEF mid, o, i, mark
      <4>2. Signed(WithBoth(r, o, i, mid), i, u, mark) = WithBoth(r, MarkedAs(o, mark), i, SignedBy(mid, u))
        BY <4>0, CheckerChanged
      <4> QED
        BY <3>2, <4>1, <4>2 DEF mark, next, Signed, MarkedAs, SignedBy
    <3>4. Has(u, "order.adjust.approve") /\ MakerChecker(u, d) /\ u \in Staff
      BY <2>3, <2>6 DEF AdjustmentAllowed
    <3>5. AdjustmentSound(s) /\ AdjustmentLater(r, s)
      <4> HIDE DEF i
      <4> QED
        BY <1>2, <2>1, <3>2, <3>3, <3>4, AdjustmentDecided
    <3>6. act \in HeaderActions(o, d, i, u)
      BY <2>6, <3>2, <3>4 DEF HeaderActions, Offer, AdjustmentRefers
    <3> QED
      BY <2>2, <2>6, <3>5, <3>6 DEF AdjustmentTicked
  <2>7. CASE act.verb = "apply"
    <3>1. AdjustmentServed(r, u, act, form) = applyAdjustment(r, i)
      BY <2>7 DEF AdjustmentServed
    <3>2. Has(u, "order.adjust.apply")
      BY <2>7 DEF AdjustmentAllowed
    <3>3. /\ AdjustmentSound(s) /\ AdjustmentLater(r, s) /\ d.status = "APPROVED" /\ Eligible(o)
      <4> HIDE DEF i
      <4> QED
        BY <1>1, <2>1, <3>1, AdjustmentApplied
    <3>4. act \in HeaderActions(o, d, i, u)
      BY <2>7, <3>2, <3>3, Verdict DEF HeaderActions, Offer, AdjustmentRefers
    <3> QED
      BY <2>2, <2>7, <3>3, <3>4 DEF AdjustmentTicked
  <2>8. CASE act.verb = "reverse"
    <3>1. AdjustmentServed(r, u, act, form) = reverseAdjustment(r, i, form)
      BY <2>8 DEF AdjustmentServed
    <3>2. Has(u, "order.adjust.reverse") /\ MakerChecker(u, d)
      BY <2>8 DEF AdjustmentAllowed
    <3>3. /\ AdjustmentSound(s) /\ AdjustmentLater(r, s) /\ d.status = "APPLIED" /\ Eligible(o)
      <4> HIDE DEF i
      <4> QED
        BY <1>1, <2>1, <3>1, AdjustmentReversed
    <3>4. act \in HeaderActions(o, d, i, u)
      BY <2>8, <3>2, <3>3, Verdict DEF HeaderActions, Offer, AdjustmentRefers
    <3> QED
      BY <2>2, <2>8, <3>3, <3>4 DEF AdjustmentTicked
  <2> QED
    BY <1>4, <2>4, <2>5, <2>6, <2>7, <2>8 DEF AdjustmentRefers, Verbs
<1> QED
  BY <1>3, <1>4

--------------------------------------------------------------------------------
\* The pages of all kinds

AllKinds == {"payment", "refund", "supplier", "order", "return", "exception", "delivery", "adjustment"}

\* What every row of a kind satisfies.
Sound(k, r) ==
    /\ k = "payment"    => PaymentSound(r)
    /\ k = "refund"     => RefundSound(r)
    /\ k = "supplier"   => SupplierSound(r)
    /\ k = "order"      => r \in OrderDocument
    /\ k = "return"     => ReturnSound(r)
    /\ k = "exception"  => r \in ExceptionDocument
    /\ k = "delivery"   => r \in DeliveryDocument
    /\ k = "adjustment" => AdjustmentSound(r)

\* A button is one of a page that shows the row.
Refers(k, r, act) ==
    /\ k = "payment"    => PaymentRefers(r, act)
    /\ k = "refund"     => RefundRefers(r, act)
    /\ k = "supplier"   => SupplierRefers(r, act)
    /\ k = "order"      => OrderRefers(act)
    /\ k = "return"     => ReturnRefers(act)
    /\ k = "exception"  => ExceptionRefers(act)
    /\ k = "delivery"   => DeliveryRefers(act)
    /\ k = "adjustment" => AdjustmentRefers(r, act)

\* The dialog of Dialog, on the page of kind k.
DialogAt(k, r, act, n) ==
    CASE k = "payment"    -> PaymentDialog(act)
      [] k = "refund"     -> RefundDialog(r, act)
      [] k = "supplier"   -> SupplierDialog(r, act)
      [] k = "order"      -> IF act.verb = "approve" THEN ApproveOrderModal ELSE RejectOrderModal
      [] k = "return"     -> ReturnDialog(r, act)
      [] k = "exception"  -> IF act.verb = "resolve" THEN ResolveDialog ELSE DismissDialog
      [] k = "delivery"   -> DeliveryDialog(act)
      [] k = "adjustment" -> AdjustmentDialog(r, act, n)

LEMMA DialogIs ==
    ASSUME NEW r, NEW act, NEW n
    PROVE  Dialog(r, act, n) = DialogAt(kind, r, act, n)
BY DEF Dialog, DialogAt

\* A form is one that the dialog of the button sends from a page that shows the row.
Fits(k, r, act, form) ==
    /\ \E n : form \in DialogAt(k, r, act, n)
    /\ k = "payment"    => PaymentFits(act, form)
    /\ k = "refund"     => RefundFits(act, form)
    /\ k = "supplier"   => SupplierFits(r, act, form)
    /\ k = "return"     => ReturnFits(act, form)
    /\ k = "delivery"   => DeliveryFits(act, form)
    /\ k = "adjustment" => AdjustmentFits(r, act, form)

\* What remains true of a user once his request was authorised.
Permitted(k, r, u, act) ==
    /\ k = "payment"    => PaymentAllowed(r, u, act)
    /\ k = "refund"     => RefundAllowed(r, u, act)
    /\ k = "order"      => OrderAllowed(r, u, act)
    /\ k = "return"     => ReturnAllowed(r, u, act)
    /\ k = "exception"  => ExceptionAllowed(r, u, act)
    /\ k = "delivery"   => DeliveryPermitted(u, act)
    /\ k = "adjustment" => AdjustmentAllowed(r, u, act)

\* The row r may have become s: documents are added, and keep who made them.
Later(k, r, s) ==
    /\ k = "payment"    => PaymentLater(r, s)
    /\ k = "refund"     => RefundLater(r, s)
    /\ k = "supplier"   => SupplierLater(r, s)
    /\ k = "adjustment" => AdjustmentLater(r, s)

LEMMA RowsOpened ==
    ASSUME NEW k \in AllKinds, NEW r \in Opened(k)
    PROVE  Sound(k, r)
<1>1. CASE k = "payment"
  <2>1. r \in PaymentOpened
    BY <1>1 DEF Opened
  <2> QED
    BY <1>1, <2>1, PaymentsOpened DEF Sound
<1>2. CASE k = "refund"
  <2>1. r \in CreditOpened
    BY <1>2 DEF Opened
  <2> QED
    BY <1>2, <2>1, CreditsOpened, RolesAssumption, StaffDeskAssumption, MoneyAssumption DEF Sound
<1>3. CASE k = "supplier"
  <2>1. r \in SupplierOpened
    BY <1>3 DEF Opened
  <2> QED
    BY <1>3, <2>1, SuppliersOpened, MoneyAssumption DEF Sound
<1>4. CASE k = "order"
  <2>1. r \in OrderOpened
    BY <1>4 DEF Opened
  <2> QED
    BY <1>4, <2>1, OrdersOpened DEF Sound
<1>5. CASE k = "return"
  <2>1. r \in ReturnOpened
    BY <1>5 DEF Opened
  <2> QED
    BY <1>5, <2>1, ReturnsOpened, FloorAssumption DEF Sound
<1>6. CASE k = "exception"
  <2>1. r \in ExceptionOpened
    BY <1>6 DEF Opened
  <2> QED
    BY <1>6, <2>1 DEF Sound, ExceptionOpened, ExceptionDocument
<1>7. CASE k = "delivery"
  <2>1. r \in DeliveryOpened
    BY <1>7 DEF Opened
  <2> QED
    BY <1>7, <2>1, DeliveriesOpened DEF Sound
<1>8. CASE k = "adjustment"
  <2>1. r \in AdjustmentOpened
    BY <1>8 DEF Opened
  <2> QED
    BY <1>8, <2>1, AdjustmentsOpened, RolesAssumption, StaffDeskAssumption, AdjustmentAssumption DEF Sound
<1> QED
  BY <1>1, <1>2, <1>3, <1>4, <1>5, <1>6, <1>7, <1>8 DEF AllKinds

LEMMA RowsOffered ==
    ASSUME kind \in AllKinds, NEW r, NEW u, NEW act \in Buttons(r, u)
    PROVE  Refers(kind, r, act)
<1>1. CASE kind = "payment"
  <2>1. act \in PaymentButtons(r, u)
    BY <1>1 DEF Buttons
  <2> QED
    BY <1>1, <2>1, PaymentsOffered DEF Refers
<1>2. CASE kind = "refund"
  <2>1. act \in CreditButtons(r, u)
    BY <1>2 DEF Buttons
  <2> QED
    BY <1>2, <2>1, RefundsOffered DEF Refers
<1>3. CASE kind = "supplier"
  <2>1. act \in SupplierButtons(r, u)
    BY <1>3 DEF Buttons
  <2> QED
    BY <1>3, <2>1, SuppliersOffered DEF Refers
<1>4. CASE kind = "order"
  <2>1. act \in OrderButtons(r, u)
    BY <1>4 DEF Buttons
  <2> QED
    BY <1>4, <2>1, OrdersOffered DEF Refers
<1>5. CASE kind = "return"
  <2>1. act \in ReturnButtons(r, u)
    BY <1>5 DEF Buttons
  <2> QED
    BY <1>5, <2>1, ReturnsOffered DEF Refers
<1>6. CASE kind = "exception"
  <2>1. act \in ExceptionTable(r, u)
    BY <1>6 DEF Buttons
  <2> QED
    BY <1>6, <2>1, ExceptionsOffered DEF Refers
<1>7. CASE kind = "delivery"
  <2>1. act \in DeliveryButtons(r, u)
    BY <1>7 DEF Buttons
  <2> QED
    BY <1>7, <2>1, DeliveriesOffered DEF Refers
<1>8. CASE kind = "adjustment"
  <2>1. act \in AdjustmentButtons(r, u)
    BY <1>8 DEF Buttons
  <2> QED
    BY <1>8, <2>1, AdjustmentsOffered DEF Refers
<1> QED
  BY <1>1, <1>2, <1>3, <1>4, <1>5, <1>6, <1>7, <1>8 DEF AllKinds

LEMMA LaterIsReflexive ==
    ASSUME NEW k, NEW r
    PROVE  Later(k, r, r)
BY DEF Later, PaymentLater, RefundLater, SupplierLater, AdjustmentLater

LEMMA RowsElsewhere ==
    ASSUME kind \in AllKinds, NEW r, Sound(kind, r), NEW s \in Elsewhere(r)
    PROVE  Sound(kind, s) /\ Later(kind, r, s)
<1>1. CASE kind = "order"
  <2>1. s \in OrderElsewhere(r) /\ r \in OrderDocument
    BY <1>1 DEF Elsewhere, Sound
  <2> QED
    BY <1>1, <2>1, OrdersElsewhere DEF Sound, Later
<1>2. CASE kind = "return"
  <2>1. s \in ReturnElsewhere(r) /\ ReturnSound(r)
    BY <1>2 DEF Elsewhere, Sound
  <2> QED
    BY <1>2, <2>1, ReturnsElsewhere, FloorAssumption DEF Sound, Later
<1>3. CASE kind = "delivery"
  <2>1. s \in DeliveryElsewhere(r) /\ r \in DeliveryDocument
    BY <1>3 DEF Elsewhere, Sound
  <2> QED
    BY <1>3, <2>1, DeliveriesElsewhere DEF Sound, Later
<1>4. CASE kind = "adjustment"
  <2>1. s \in AdjustmentElsewhere(r) /\ AdjustmentSound(r)
    BY <1>4 DEF Elsewhere, Sound
  <2> QED
    BY <1>4, <2>1, AdjustmentsElsewhere, AdjustmentAssumption DEF Sound, Later
<1>5. CASE kind \notin {"order", "return", "delivery", "adjustment"}
  BY <1>5 DEF Elsewhere
<1> QED
  BY <1>1, <1>2, <1>3, <1>4, <1>5

LEMMA LaterIsTransitive ==
    ASSUME NEW k, NEW r, NEW s, NEW t, Sound(k, r), Sound(k, s), Sound(k, t), Later(k, r, s), Later(k, s, t)
    PROVE  Later(k, r, t)
<1>1. CASE k = "payment"
  BY <1>1 DEF Later, PaymentLater
<1>2. CASE k = "refund"
  BY <1>2 DEF Later, RefundLater
<1>3. CASE k = "supplier"
  <2>1. /\ Len(r.bills) \in Nat /\ Len(s.bills) \in Nat /\ Len(t.bills) \in Nat
        /\ Len(r.payments) \in Nat /\ Len(s.payments) \in Nat /\ Len(t.payments) \in Nat
    BY <1>3 DEF Sound, SupplierSound, SupplierRows
  <2> QED
    BY <1>3, <2>1 DEF Later, SupplierLater
<1>4. CASE k = "adjustment"
  BY <1>4 DEF Later, AdjustmentLater
<1>5. CASE k \notin {"payment", "refund", "supplier", "adjustment"}
  BY <1>5 DEF Later
<1> QED
  BY <1>1, <1>2, <1>3, <1>4, <1>5

\* What a button refers to is still there in a later row.
LEMMA ReferredRemains ==
    ASSUME NEW k \in AllKinds, NEW r, NEW s, Sound(k, r), Sound(k, s), Later(k, r, s), NEW act, Refers(k, r, act)
    PROVE  Refers(k, s, act)
<1>1. CASE k = "payment"
  BY <1>1 DEF Later, PaymentLater, Refers, PaymentRefers
<1>2. CASE k = "refund"
  BY <1>2 DEF Later, RefundLater, Refers, RefundRefers
<1>3. CASE k = "supplier"
  <2>1. /\ DOMAIN r.bills = 1..Len(r.bills) /\ DOMAIN s.bills = 1..Len(s.bills)
        /\ DOMAIN r.payments = 1..Len(r.payments) /\ DOMAIN s.payments = 1..Len(s.payments)
        /\ Len(r.bills) \in Nat /\ Len(s.bills) \in Nat
        /\ Len(r.payments) \in Nat /\ Len(s.payments) \in Nat
    BY <1>3 DEF Sound, SupplierSound, SupplierRows
  <2>2. Len(r.bills) <= Len(s.bills) /\ Len(r.payments) <= Len(s.payments)
    BY <1>3 DEF Later, SupplierLater
  <2>3. DOMAIN r.bills \subseteq DOMAIN s.bills /\ DOMAIN r.payments \subseteq DOMAIN s.payments
    BY <2>1, <2>2
  <2>4. SupplierRefers(s, act)
    BY <1>3, <2>3 DEF Refers, SupplierRefers
  <2> QED
    BY <1>3, <2>4 DEF Refers
<1>4. CASE k = "adjustment"
  BY <1>4 DEF Later, AdjustmentLater, Refers, AdjustmentRefers
<1>5. CASE k \notin {"payment", "refund", "supplier", "adjustment"}
  BY <1>5 DEF Refers
<1> QED
  BY <1>1, <1>2, <1>3, <1>4, <1>5

\* Whom a request was permitted to is permitted it on a later row.
LEMMA PermissionRemains ==
    ASSUME NEW k \in AllKinds, NEW r, NEW s, Later(k, r, s), NEW u, NEW act, Refers(k, r, act), Permitted(k, r, u, act)
    PROVE  Permitted(k, s, u, act)
<1>1. CASE k = "payment"
  BY <1>1 DEF Permitted, PaymentAllowed
<1>2. CASE k = "refund"
  <2>1. act.verb # "request" => s.refunds[act.of].maker = r.refunds[act.of].maker
    BY <1>2 DEF Later, RefundLater, Refers, RefundRefers
  <2>2. RefundAllowed(r, u, act)
    BY <1>2 DEF Permitted
  <2>3. act.verb = "request" \/ RefundAllowed(s, u, act) = RefundAllowed(r, u, act)
    BY <2>1 DEF RefundAllowed, MakerChecker
  <2>4. act.verb = "request" => RefundAllowed(s, u, act)
    BY <2>2 DEF RefundAllowed
  <2> QED
    BY <1>2, <2>2, <2>3, <2>4 DEF Permitted
<1>3. CASE k = "adjustment"
  <2>1. act.verb # "request" => s.adjustments[act.of].maker = r.adjustments[act.of].maker
    BY <1>3 DEF Later, AdjustmentLater, Refers, AdjustmentRefers
  <2>2. AdjustmentAllowed(r, u, act)
    BY <1>3 DEF Permitted
  <2>3. act.verb = "request" \/ AdjustmentAllowed(s, u, act) = AdjustmentAllowed(r, u, act)
    BY <2>1 DEF AdjustmentAllowed, MakerChecker
  <2>4. act.verb = "request" => AdjustmentAllowed(s, u, act)
    BY <2>2 DEF AdjustmentAllowed
  <2> QED
    BY <1>3, <2>2, <2>3, <2>4 DEF Permitted
<1>4. CASE k \in {"order", "return", "exception"}
  BY <1>4 DEF Permitted, OrderAllowed, ReturnAllowed, ExceptionAllowed
<1>5. CASE k \in {"supplier", "delivery"}
  BY <1>5 DEF Permitted
<1> QED
  BY <1>1, <1>2, <1>3, <1>4, <1>5 DEF AllKinds

\* The server permits a request only to whom it is permitted.
LEMMA RowsAllowed ==
    ASSUME kind \in AllKinds, Sound(kind, row), NEW u \in Users, NEW act, Refers(kind, row, act), Allowed(u, act)
    PROVE  Permitted(kind, row, u, act)
<1>1. CASE kind = "payment"
  <2>1. PaymentAllowed(row, u, act)
    BY <1>1 DEF Allowed
  <2> QED
    BY <1>1, <2>1 DEF Permitted
<1>2. CASE kind = "refund"
  <2>1. RefundAllowed(row, u, act)
    BY <1>2 DEF Allowed
  <2> QED
    BY <1>2, <2>1 DEF Permitted
<1>3. CASE kind = "supplier"
  BY <1>3 DEF Permitted
<1>4. CASE kind = "order"
  <2>1. OrderAllowed(row, u, act)
    BY <1>4 DEF Allowed
  <2> QED
    BY <1>4, <2>1 DEF Permitted
<1>5. CASE kind = "return"
  <2>1. ReturnAllowed(row, u, act)
    BY <1>5 DEF Allowed
  <2> QED
    BY <1>5, <2>1 DEF Permitted
<1>6. CASE kind = "exception"
  <2>1. ExceptionAllowed(row, u, act)
    BY <1>6 DEF Allowed
  <2> QED
    BY <1>6, <2>1 DEF Permitted
<1>7. CASE kind = "delivery"
  <2>1. DeliveryAllowed(row, u, act) /\ row \in DeliveryDocument
    BY <1>7 DEF Allowed, Sound
  <2>2. DeliveryPermitted(u, act)
    BY <2>1 DEF DeliveryAllowed, DeliveryPermitted, DeliveryDocument
  <2> QED
    BY <1>7, <2>2 DEF Permitted
<1>8. CASE kind = "adjustment"
  <2>1. AdjustmentAllowed(row, u, act)
    BY <1>8 DEF Allowed
  <2> QED
    BY <1>8, <2>1 DEF Permitted
<1> QED
  BY <1>1, <1>2, <1>3, <1>4, <1>5, <1>6, <1>7, <1>8 DEF AllKinds

LEMMA ProcessedIsNatural ==
    ASSUME NEW q \in Seq(RefundDocument)
    PROVE  SumOf(q, "PROCESSED") \in Nat
<1> DEFINE f == Amounts(q, "PROCESSED")
<1>1. \A i \in DOMAIN q : f[i] \in Nat
  <2>1. \A i \in DOMAIN q : q[i].amount \in Nat
    BY AmountOfRefund, MoneyAssumption
  <2> QED
    BY <2>1 DEF Amounts
<1>2. IsFiniteSet(DOMAIN q)
  BY ListIsFinite
<1> HIDE DEF f
<1>3. SumOver(f, DOMAIN q) \in Nat
  BY <1>1, <1>2, SumIsNatural
<1> QED
  BY <1>3 DEF SumOf, f

\* What the dialog of a button sends fits the row the page shows.
LEMMA RowsTyped ==
    ASSUME kind \in AllKinds, NEW r, Sound(kind, r), NEW act, Refers(kind, r, act),
           NEW key \in Nat, NEW form \in Dialog(r, act, key)
    PROVE  Fits(kind, r, act, form)
<1>0. \E n : form \in DialogAt(kind, r, act, n)
  BY DialogIs
<1>1. CASE kind = "payment"
  <2>1. form \in PaymentDialog(act)
    BY <1>1 DEF Dialog
  <2>2. act.verb = "record" => form \in InstrumentFields
    BY <2>1 DEF PaymentDialog, RecordPaymentDialog
  <2> QED
    BY <1>0, <1>1, <2>2 DEF Fits, PaymentFits, InstrumentFields
<1>2. CASE kind = "refund"
  <2>1. form \in RefundDialog(r, act)
    BY <1>2 DEF Dialog
  <2>2. act.verb = "request" => form \in RequestRefundDialog(r)
    BY <2>1 DEF RefundDialog
  <2>3. r.remaining \in Nat /\ r.remaining <= MaxAmount
    <3>1. RefundSound(r)
      BY <1>2 DEF Sound
    <3>2. r.remaining \in Nat /\ MaxAmount \in Nat /\ r.remaining + SumOf(r.refunds, "PROCESSED") = MaxAmount
      BY <3>1, MoneyAssumption DEF RefundSound, CreditRows
    <3>3. SumOf(r.refunds, "PROCESSED") \in Nat
      BY <3>1, ProcessedIsNatural DEF RefundSound, CreditRows
    <3> QED
      BY <3>2, <3>3
  <2>4. ASSUME act.verb = "request"
        PROVE  form.amount \in 1..MaxAmount
    <3>1. PICK a \in 1..r.remaining : form = [amount |-> a]
      BY <2>2, <2>4 DEF RequestRefundDialog
    <3> QED
      BY <2>3, <3>1, MoneyAssumption
  <2> QED
    BY <1>0, <1>2, <2>4 DEF Fits, RefundFits
<1>3. CASE kind = "supplier"
  <2>1. form \in SupplierDialog(r, act)
    BY <1>3 DEF Dialog
  <2>2. ASSUME act.verb = "bill"
        PROVE  form.total = MaxAmount
    <3>1. form \in CreateBillDialog
      BY <2>1, <2>2 DEF SupplierDialog
    <3>2. form.total = MaxAmount + 0
      BY <3>1 DEF CreateBillDialog, SumOfBill
    <3> QED
      BY <3>2, MoneyAssumption
  <2>3. ASSUME act.verb = "pay"
        PROVE  form.bill \in 0..Len(r.bills) /\ form.amount \in 1..MaxAmount
    <3>1. form \in PaySupplierDialog(r)
      BY <2>1, <2>3 DEF SupplierDialog
    <3>2. DOMAIN r.bills = 1..Len(r.bills) /\ Len(r.bills) \in Nat
      BY <1>3 DEF Sound, SupplierSound, SupplierRows
    <3>3. CASE form = [bill |-> 0, amount |-> 1]
      BY <3>2, <3>3, MoneyAssumption
    <3>4. CASE form # [bill |-> 0, amount |-> 1]
      <4>1. form.bill \in DOMAIN r.bills /\ form.amount \in 1..MaxAmount
        BY <3>1, <3>4 DEF PaySupplierDialog
      <4> QED
        BY <3>2, <4>1
    <3> QED
      BY <3>3, <3>4
  <2> QED
    BY <1>0, <1>3, <2>2, <2>3 DEF Fits, SupplierFits
<1>4. CASE kind = "return"
  <2>1. form \in ReturnDialog(r, act)
    BY <1>4 DEF Dialog
  <2>2. act.verb = "inspect" => form \in InspectReturnModal
    BY <2>1 DEF ReturnDialog
  <2>3. act.verb = "approve" => form \in ApproveReturnModal(r)
    BY <2>1 DEF ReturnDialog
  <2> QED
    BY <1>0, <1>4, <2>2, <2>3 DEF Fits, ReturnFits, InspectReturnModal, ApproveReturnModal
<1>5. CASE kind = "delivery"
  <2>1. form \in DeliveryDialog(act)
    BY <1>5 DEF Dialog
  <2>2. act.verb = "assign" => form \in AssignDeliveryModal
    BY <2>1 DEF DeliveryDialog
  <2> QED
    BY <1>0, <1>5, <2>2 DEF Fits, DeliveryFits, AssignDeliveryModal
<1>6. CASE kind = "adjustment"
  <2>1. form \in AdjustmentDialog(r, act, key)
    BY <1>6 DEF Dialog
  <2>2. ASSUME act.verb = "request"
        PROVE  form.reduction \in 1..MaxOrdered /\ form.key \in Nat
    <3>1. form \in RequestAdjustmentModal(r, key)
      BY <2>1, <2>2 DEF AdjustmentDialog
    <3>2. PICK q \in 1..fulfillableQuantity(r.order) : form = [key |-> key, reduction |-> q]
      BY <3>1 DEF RequestAdjustmentModal
    <3>3. OrderFits(r.order)
      BY <1>6 DEF Sound, AdjustmentSound
    <3>4. /\ r.order.cancelled \in Nat /\ MaxOrdered \in Nat
          /\ fulfillableQuantity(r.order) = MaxOrdered - r.order.cancelled
      BY <3>3, QuantitiesOfOrder, AdjustmentAssumption
    <3>5. q \in Int /\ 1 <= q /\ q <= MaxOrdered
      BY <3>2, <3>4
    <3> QED
      BY <3>2, <3>4, <3>5
  <2>3. ASSUME act.verb = "approve"
        PROVE  form.acknowledged <=> Encroached(r.order, r.adjustments[act.of].reduction) > 0
    <3> DEFINE touched == Encroached(r.order, r.adjustments[act.of].reduction) > 0
    <3>1. form \in ApproveAdjustmentModal(r, act.of)
      BY <2>1, <2>3 DEF AdjustmentDialog
    <3>2. form = [acknowledged |-> touched]
      BY <3>1, Zenon DEF ApproveAdjustmentModal
    <3> HIDE DEF touched
    <3>3. form.acknowledged = touched
      BY <3>2
    <3> QED
      BY <3>3, Zenon DEF touched
  <2> QED
    BY <1>0, <1>6, <2>2, <2>3 DEF Fits, AdjustmentFits
<1>7. CASE kind \in {"order", "exception"}
  BY <1>0, <1>7 DEF Fits
<1> QED
  BY <1>1, <1>2, <1>3, <1>4, <1>5, <1>6, <1>7 DEF AllKinds

\* The buttons that would have invited a request, were the page of the user loaded now.
Invited(k, r, u, act) ==
    \/ {act, On(act.verb, 0)} \cap Buttons(r, u) # {}
    \/ /\ k = "delivery" /\ u \in Drivers
       /\ act.verb = "reschedule" \/ act \in Buttons(r, r.driver)

\* What the server makes of a row for a request that fits an earlier row.
LEMMA RowsServed ==
    ASSUME kind \in AllKinds, Sound(kind, row), NEW u \in Users, NEW act, Refers(kind, row, act),
           Permitted(kind, row, u, act), NEW seen, Sound(kind, seen), Later(kind, seen, row),
           NEW form, Fits(kind, seen, act, form),
           NEW s, s = Handled(u, act, form).row
    PROVE  /\ Sound(kind, s) /\ Later(kind, row, s)
           /\ s # row => /\ Invited(kind, row, u, act)
                         /\ kind = "adjustment" => AdjustmentTicked(row, act, form)
<1>1. CASE kind = "payment"
  <2>1. /\ s = PaymentServed(row, u, act, form).row /\ PaymentSound(row) /\ PaymentRefers(row, act)
        /\ PaymentAllowed(row, u, act) /\ PaymentFits(act, form)
    BY <1>1 DEF Handled, Sound, Refers, Permitted, Fits
  <2>2. PaymentSound(s) /\ PaymentLater(row, s) /\ (s # row => act \in PaymentButtons(row, u))
    BY <2>1, PaymentsServed, RolesAssumption
  <2>3. PaymentButtons(row, u) = Buttons(row, u)
    BY <1>1 DEF Buttons
  <2> QED
    BY <1>1, <2>2, <2>3 DEF Sound, Later, Invited
<1>2. CASE kind = "refund"
  <2>1. /\ s = RefundServed(row, u, act, form).row /\ RefundSound(row) /\ RefundRefers(row, act)
        /\ RefundAllowed(row, u, act) /\ RefundFits(act, form)
    BY <1>2 DEF Handled, Sound, Refers, Permitted, Fits
  <2>2. RefundSound(s) /\ RefundLater(row, s) /\ (s # row => act \in CreditButtons(row, u))
    BY <2>1, RefundsServed, RolesAssumption, StaffDeskAssumption, MoneyAssumption
  <2>3. CreditButtons(row, u) = Buttons(row, u)
    BY <1>2 DEF Buttons
  <2> QED
    BY <1>2, <2>2, <2>3 DEF Sound, Later, Invited
<1>3. CASE kind = "supplier"
  <2>1. /\ s = SupplierServed(row, u, act, form).row /\ SupplierSound(row) /\ SupplierRefers(row, act)
        /\ SupplierFits(seen, act, form) /\ SupplierLater(seen, row) /\ SupplierSound(seen)
    BY <1>3 DEF Handled, Sound, Refers, Fits, Later
  <2>2. SupplierFits(row, act, form)
    <3>1. Len(seen.bills) \in Nat /\ Len(row.bills) \in Nat /\ Len(seen.bills) <= Len(row.bills)
      BY <2>1 DEF SupplierSound, SupplierRows, SupplierLater
    <3> QED
      BY <2>1, <3>1 DEF SupplierFits
  <2>3. /\ SupplierSound(s) /\ SupplierLater(row, s)
        /\ s # row => {act, On(act.verb, 0)} \cap SupplierButtons(row, u) # {}
    BY <2>1, <2>2, SuppliersServed, MoneyAssumption
  <2>4. SupplierButtons(row, u) = Buttons(row, u)
    BY <1>3 DEF Buttons
  <2> QED
    BY <1>3, <2>3, <2>4 DEF Sound, Later, Invited
<1>4. CASE kind = "order"
  <2>1. /\ s = OrderServed(row, u, act, form).row /\ row \in OrderDocument /\ OrderRefers(act)
        /\ OrderAllowed(row, u, act)
    BY <1>4 DEF Handled, Sound, Refers, Permitted
  <2>2. s \in OrderDocument /\ (s # row => act \in OrderButtons(row, u))
    BY <2>1, OrdersServed
  <2>3. OrderButtons(row, u) = Buttons(row, u)
    BY <1>4 DEF Buttons
  <2> QED
    BY <1>4, <2>2, <2>3 DEF Sound, Later, Invited
<1>5. CASE kind = "return"
  <2>1. /\ s = ReturnServed(row, u, act, form).row /\ ReturnSound(row) /\ ReturnRefers(act)
        /\ ReturnAllowed(row, u, act) /\ ReturnFits(act, form)
    BY <1>5 DEF Handled, Sound, Refers, Permitted, Fits
  <2>2. ReturnSound(s) /\ (s # row => act \in ReturnButtons(row, u))
    BY <2>1, ReturnsServed, RolesAssumption, StaffDeskAssumption, FloorAssumption
  <2>3. ReturnButtons(row, u) = Buttons(row, u)
    BY <1>5 DEF Buttons
  <2> QED
    BY <1>5, <2>2, <2>3 DEF Sound, Later, Invited
<1>6. CASE kind = "exception"
  <2>1. /\ s = ExceptionServed(row, u, act, form).row /\ row \in ExceptionDocument /\ ExceptionRefers(act)
        /\ ExceptionAllowed(row, u, act)
    BY <1>6 DEF Handled, Sound, Refers, Permitted
  <2>2. s \in ExceptionDocument /\ (s # row => act \in ExceptionTable(row, u))
    BY <2>1, ExceptionsServed
  <2>3. ExceptionTable(row, u) = Buttons(row, u)
    BY <1>6 DEF Buttons
  <2> QED
    BY <1>6, <2>2, <2>3 DEF Sound, Later, Invited
<1>7. CASE kind = "delivery"
  <2>1. /\ s = DeliveryServed(row, u, act, form).row /\ row \in DeliveryDocument /\ DeliveryRefers(act)
        /\ DeliveryPermitted(u, act) /\ DeliveryFits(act, form)
    BY <1>7 DEF Handled, Sound, Refers, Permitted, Fits
  <2>2. /\ s \in DeliveryDocument
        /\ s # row => \/ act \in DeliveryButtons(row, u)
                      \/ u \in Drivers /\ (act.verb = "reschedule" \/ act \in DeliveryButtons(row, row.driver))
    BY <2>1, DeliveriesServed, RolesAssumption
  <2>3. DeliveryButtons(row, u) = Buttons(row, u) /\ DeliveryButtons(row, row.driver) = Buttons(row, row.driver)
    BY <1>7 DEF Buttons
  <2> QED
    BY <1>7, <2>2, <2>3 DEF Sound, Later, Invited
<1>8. CASE kind = "adjustment"
  <2>1. /\ s = AdjustmentServed(row, u, act, form).row /\ AdjustmentSound(row) /\ AdjustmentRefers(row, act)
        /\ AdjustmentAllowed(row, u, act)
        /\ act.verb = "request" => form.reduction \in 1..MaxOrdered /\ form.key \in Nat
    BY <1>8 DEF Handled, Sound, Refers, Permitted, Fits, AdjustmentFits
  <2>2. /\ AdjustmentSound(s) /\ AdjustmentLater(row, s)
        /\ s # row => act \in AdjustmentButtons(row, u) /\ AdjustmentTicked(row, act, form)
    BY <2>1, AdjustmentsServed, RolesAssumption, StaffDeskAssumption, AdjustmentAssumption
  <2>3. AdjustmentButtons(row, u) = Buttons(row, u)
    BY <1>8 DEF Buttons
  <2> QED
    BY <1>8, <2>2, <2>3 DEF Sound, Later, Invited
<1> QED
  BY <1>1, <1>2, <1>3, <1>4, <1>5, <1>6, <1>7, <1>8 DEF AllKinds

--------------------------------------------------------------------------------
\* Keys

LEMMA ImageIsFinite ==
    ASSUME NEW S, IsFiniteSet(S), NEW f
    PROVE  IsFiniteSet({f[x] : x \in S})
<1> DEFINE T == {f[x] : x \in S}
           g == [x \in S |-> f[x]]
<1>1. g \in Surjection(S, T)
  BY DEF Surjection
<1> HIDE DEF g, T
<1>2. IsFiniteSet(T)
  BY <1>1, FS_Surjection
<1> QED
  BY <1>2 DEF T

\* Among one more numbers than there are keys one is no key.
LEMMA NewKeyExists ==
    ASSUME NEW S, IsFiniteSet(S)
    PROVE  (CHOOSE k \in 1..(Cardinality(S) + 1) : k \notin S) \in Nat
<1> DEFINE c == Cardinality(S)
<1>1. c \in Nat
  BY FS_CardinalityType
<1>2. \E k \in 1..(c + 1) : k \notin S
  <2> SUFFICES ASSUME 1..(c + 1) \subseteq S PROVE FALSE
    OBVIOUS
  <2>1. Cardinality(1..(c + 1)) <= c
    BY FS_Subset
  <2> HIDE DEF c
  <2>2. 1 \in Int /\ c + 1 \in Int /\ ~(1 > c + 1)
    BY <1>1
  <2>3. Cardinality(1..(c + 1)) = (c + 1) - 1 + 1
    BY <2>2, FS_Interval
  <2> QED
    BY <1>1, <2>1, <2>3
<1> DEFINE k == CHOOSE k \in 1..(c + 1) : k \notin S
<1>3. k \in 1..(c + 1)
  BY <1>2
<1> HIDE DEF k, c
<1>4. k \in Nat
  BY <1>1, <1>3
<1> QED
  BY <1>4 DEF k, c

\* A list of anything.
IsList(q) == q \in Seq({q[i] : i \in DOMAIN q})

LEMMA SequenceIsList ==
    ASSUME NEW S, NEW q \in Seq(S)
    PROVE  IsList(q)
<1> DEFINE T == {q[i] : i \in DOMAIN q}
<1>1. \A i \in 1..Len(q) : q[i] \in T
  OBVIOUS
<1> HIDE DEF T
<1>2. q \in Seq(T)
  BY <1>1
<1> QED
  BY <1>2 DEF IsList, T

LEMMA ListIsUpTo ==
    ASSUME NEW q, IsList(q)
    PROVE  Len(q) \in Nat /\ DOMAIN q = 1..Len(q) /\ IsFiniteSet(DOMAIN q)
<1>1. Len(q) \in Nat /\ DOMAIN q = 1..Len(q)
  BY DEF IsList
<1> QED
  BY <1>1, FS_Interval

LEMMA ListAppended ==
    ASSUME NEW q, IsList(q), NEW x
    PROVE  /\ IsList(Append(q, x)) /\ DOMAIN Append(q, x) = 1..(Len(q) + 1)
           /\ Append(q, x)[Len(q) + 1] = x
           /\ \A i \in DOMAIN q : Append(q, x)[i] = q[i] /\ i \in DOMAIN Append(q, x) /\ i # Len(q) + 1
<1> DEFINE S == {q[i] : i \in DOMAIN q} \cup {x}
           p == Append(q, x)
           n == Len(q)
<1>1. q \in Seq(S) /\ x \in S
  BY DEF IsList
<1>2. n \in Nat /\ DOMAIN q = 1..n
  BY ListIsUpTo
<1> HIDE DEF S
<1>3. /\ p \in Seq(S) /\ DOMAIN p = 1..(n + 1) /\ p[n + 1] = x
      /\ \A i \in 1..n : p[i] = q[i]
  BY <1>1
<1>4. p = [i \in 1..(n + 1) |-> p[i]]
  <2> HIDE DEF p, n
  <2>1. p \in Seq(S) => p = [i \in DOMAIN p |-> p[i]]
    OBVIOUS
  <2> QED
    BY <1>3, <2>1
<1>6. Len(p) = n + 1
  BY <1>1, <1>2
<1> DEFINE T == {p[i] : i \in DOMAIN p}
<1>5. p \in Seq(T)
  <2> HIDE DEF p
  <2>1. \A i \in 1..(n + 1) : p[i] \in T
    BY <1>3
  <2> HIDE DEF T
  <2> QED
    BY <1>2, <1>3, <1>4, <1>6, <2>1
<1> QED
  BY <1>2, <1>3, <1>5 DEF IsList

LEMMA ListChanged ==
    ASSUME NEW q, IsList(q), NEW i \in DOMAIN q, NEW x
    PROVE  /\ IsList([q EXCEPT ![i] = x]) /\ DOMAIN [q EXCEPT ![i] = x] = DOMAIN q
           /\ [q EXCEPT ![i] = x][i] = x
           /\ \A j \in DOMAIN q : j # i => [q EXCEPT ![i] = x][j] = q[j]
<1> DEFINE p == [q EXCEPT ![i] = x]
           n == Len(q)
           T == {p[j] : j \in DOMAIN p}
<1>1. n \in Nat /\ DOMAIN q = 1..n
  BY ListIsUpTo
<1>2. DOMAIN p = 1..n /\ p[i] = x /\ \A j \in 1..n : j # i => p[j] = q[j]
  BY <1>1
<1>3. p = [j \in 1..n |-> p[j]]
  BY <1>1
<1>4. p \in Seq(T)
  <2> HIDE DEF p, n
  <2>1. \A j \in 1..n : p[j] \in T
    BY <1>2
  <2> HIDE DEF T
  <2> QED
    BY <1>1, <1>3, <2>1
<1> QED
  BY <1>1, <1>2, <1>4 DEF IsList

LEMMA KeysAreFinite ==
    ASSUME IsList(calls), kind = "adjustment" => IsList(row.adjustments)
    PROVE  IsFiniteSet(KeysUsed)
<1> DEFINE f == [u \in Users |-> page[u].key]
           g == [i \in DOMAIN calls |-> calls[i].form.key]
           h == [i \in IF kind = "adjustment" THEN DOMAIN row.adjustments ELSE {} |-> row.adjustments[i].key]
           I == {j \in DOMAIN calls : "key" \in DOMAIN calls[j].form}
           J == IF kind = "adjustment" THEN DOMAIN row.adjustments ELSE {}
           A == {f[u] : u \in Users}
           B == {g[i] : i \in I}
           C == {h[i] : i \in J}
<1>1. IsFiniteSet(Users) /\ IsFiniteSet(I) /\ IsFiniteSet(J)
  <2>1. IsFiniteSet(I)
    <3>1. I \in SUBSET DOMAIN calls /\ IsFiniteSet(DOMAIN calls)
      BY ListIsUpTo
    <3> HIDE DEF I
    <3> QED
      BY <3>1, FS_Subset
  <2>2. IsFiniteSet(J)
    BY ListIsUpTo, FS_EmptySet
  <2> QED
    BY <2>1, <2>2, StaffDeskAssumption
<1>2. KeysUsed = A \cup B \cup C
  BY DEF KeysUsed
<1>3. IsFiniteSet(A) /\ IsFiniteSet(B) /\ IsFiniteSet(C)
  <2> HIDE DEF f, g, h, I, J
  <2> QED
    BY <1>1, ImageIsFinite
<1> HIDE DEF A, B, C
<1>4. IsFiniteSet(A \cup B)
  BY <1>3, FS_Union
<1>5. IsFiniteSet((A \cup B) \cup C)
  BY <1>3, <1>4, FS_Union
<1> QED
  BY <1>2, <1>5

--------------------------------------------------------------------------------
\* The invariant

PageShape(p) ==
    p = [open |-> p.open, shows |-> p.shows, dialog |-> p.dialog, key |-> p.key,
         waits |-> p.waits, held |-> p.held]

\* What a user has before him: a page shows a row as it once was, and its dialog is that of
\* one of its buttons.
PageFits(k, r, p) ==
    /\ PageShape(p)
    /\ p.key \in Nat
    /\ p.open => Sound(k, p.shows) /\ Later(k, p.shows, r)
    /\ p.dialog # Nothing => p.open /\ Refers(k, p.shows, p.dialog)

\* A request on its way was sent from a page that showed a row as it once was.  Whom it was
\* permitted to it still is.
CallFits(k, r, c) ==
    /\ c = [by |-> c.by, act |-> c.act, form |-> c.form, seen |-> c.seen, stage |-> c.stage,
            answer |-> c.answer]
    /\ c.stage # "over" =>
          /\ c.by \in Users /\ Sound(k, c.seen) /\ Later(k, c.seen, r)
          /\ Refers(k, c.seen, c.act) /\ Fits(k, c.seen, c.act, c.form)
          /\ c.stage = "admitted" => Permitted(k, r, c.by, c.act)

AllPages(pages) == pages = [u \in Users |-> pages[u]]

PagesFit(k, r, pages) ==
    /\ AllPages(pages)
    /\ \A u \in Users : PageFits(k, r, pages[u])

CallsFit(k, r, sent) == IsList(sent) /\ \A i \in DOMAIN sent : CallFits(k, r, sent[i])

DeskInv ==
    /\ kind \in AllKinds /\ Sound(kind, row)
    /\ PagesFit(kind, row, page) /\ CallsFit(kind, row, calls)

\* The row becomes another; pages and requests fit it as they are.
LEMMA FitsRemain ==
    ASSUME NEW k \in AllKinds, NEW r, NEW s, Sound(k, r), Sound(k, s), Later(k, r, s)
    PROVE  /\ \A p : PageFits(k, r, p) => PageFits(k, s, p)
           /\ \A c : CallFits(k, r, c) => CallFits(k, s, c)
<1>1. ASSUME NEW p, PageFits(k, r, p)
      PROVE  PageFits(k, s, p)
  <2>1. p.open => Later(k, p.shows, s)
    BY <1>1, LaterIsTransitive DEF PageFits
  <2> QED
    BY <1>1, <2>1 DEF PageFits
<1>2. ASSUME NEW c, CallFits(k, r, c)
      PROVE  CallFits(k, s, c)
  <2>1. CASE c.stage = "over"
    BY <1>2, <2>1 DEF CallFits
  <2>2. CASE c.stage # "over"
    <3>1. /\ c.by \in Users /\ Sound(k, c.seen) /\ Later(k, c.seen, r)
          /\ Refers(k, c.seen, c.act) /\ Fits(k, c.seen, c.act, c.form)
          /\ c.stage = "admitted" => Permitted(k, r, c.by, c.act)
      BY <1>2, <2>2 DEF CallFits
    <3>2. Later(k, c.seen, s)
      BY <3>1, LaterIsTransitive
    <3>3. c.stage = "admitted" => Permitted(k, s, c.by, c.act)
      <4>1. Refers(k, r, c.act)
        BY <3>1, ReferredRemains
      <4> QED
        BY <3>1, <4>1, PermissionRemains
    <3> QED
      BY <1>2, <3>1, <3>2, <3>3 DEF CallFits
  <2> QED
    BY <2>1, <2>2
<1> QED
  BY <1>1, <1>2

LEMMA OnePageChanges ==
    ASSUME NEW k, NEW r, NEW pages, PagesFit(k, r, pages), NEW u \in Users, NEW p, PageFits(k, r, p)
    PROVE  PagesFit(k, r, [pages EXCEPT ![u] = p])
BY DEF PagesFit, AllPages

LEMMA OneCallChanges ==
    ASSUME NEW k, NEW r, NEW sent, CallsFit(k, r, sent), NEW i \in DOMAIN sent, NEW c, CallFits(k, r, c)
    PROVE  CallsFit(k, r, [sent EXCEPT ![i] = c])
<1> DEFINE q == [sent EXCEPT ![i] = c]
<1>1. IsList(q) /\ DOMAIN q = DOMAIN sent /\ q[i] = c /\ \A j \in DOMAIN sent : j # i => q[j] = sent[j]
  BY ListChanged DEF CallsFit
<1> HIDE DEF q
<1>2. CallsFit(k, r, q)
  BY <1>1 DEF CallsFit
<1> QED
  BY <1>2 DEF q

LEMMA SpentFits ==
    ASSUME NEW k, NEW r
    PROVE  CallFits(k, r, Spent) /\ PageFits(k, r, Closed)
BY DEF CallFits, PageFits, PageShape, Spent, Closed

\* An answer is written to the request it answers, or nobody waits for it.
LEMMA AnswerFits ==
    ASSUME NEW k, NEW r, CallsFit(k, r, calls), NEW i \in DOMAIN calls, calls[i].stage # "over",
           NEW answer, Answer(i, answer)
    PROVE  CallsFit(k, r, calls')
<1> DEFINE c == calls[i]
           e == [c EXCEPT !.stage = "answered", !.answer = answer]
<1>1. CallFits(k, r, c)
  BY DEF CallsFit
<1>2. CallFits(k, r, e)
  <2>1. e = [by |-> c.by, act |-> c.act, form |-> c.form, seen |-> c.seen, stage |-> "answered", answer |-> answer]
    <3> HIDE DEF c
    <3>1. c = [by |-> c.by, act |-> c.act, form |-> c.form, seen |-> c.seen, stage |-> c.stage, answer |-> c.answer]
      BY <1>1 DEF CallFits
    <3>2. PICK by, act, form, seen, stage, old :
             c = [by |-> by, act |-> act, form |-> form, seen |-> seen, stage |-> stage, answer |-> old]
      BY <3>1, Zenon
    <3> DEFINE m == [c EXCEPT !.stage = "answered"]
    <3>3. m = [by |-> by, act |-> act, form |-> form, seen |-> seen, stage |-> "answered", answer |-> old]
      BY <3>2
    <3>4. e = [m EXCEPT !.answer = answer]
      OBVIOUS
    <3> HIDE DEF m, e
    <3>5. e = [by |-> by, act |-> act, form |-> form, seen |-> seen, stage |-> "answered", answer |-> answer]
      BY <3>3, <3>4
    <3>6. c.by = by /\ c.act = act /\ c.form = form /\ c.seen = seen
      BY <3>2
    <3> QED
      BY <3>5, <3>6, Zenon
  <2> HIDE DEF e, c
  <2>2. /\ e.by = c.by /\ e.act = c.act /\ e.form = c.form /\ e.seen = c.seen
        /\ e.stage = "answered" /\ e.answer = answer
    BY <2>1
  <2>3. c.stage # "over"
    BY DEF c
  <2> QED
    BY <1>1, <2>1, <2>2, <2>3 DEF CallFits
<1>3. CASE Awaited(i)
  <2>1. calls' = [calls EXCEPT ![i] = e]
    BY <1>3 DEF Answer
  <2> HIDE DEF e
  <2> QED
    BY <1>2, <2>1, OneCallChanges
<1>4. CASE ~Awaited(i)
  <2>1. calls' = [calls EXCEPT ![i] = Spent]
    BY <1>4 DEF Answer
  <2> QED
    BY <2>1, OneCallChanges, SpentFits
<1> QED
  BY <1>3, <1>4

\* The pages once one of them has become p, and once some of it has changed.
WithPage(pages, u, p) == [pages EXCEPT ![u] = p]
WithDialog(pages, u, d, n) == [pages EXCEPT ![u].dialog = d, ![u].key = n]
WithHeld(pages, u, h) == [pages EXCEPT ![u].held = h]
WithVisit(pages, u, w, h) == [pages EXCEPT ![u].waits = w, ![u].held = h]
Over(p, h) == [p EXCEPT !.waits = 0, !.held = h]
Showing(p, r) == [p EXCEPT !.shows = r]
ShowingClosed(p, r) == [p EXCEPT !.shows = r, !.dialog = Nothing, !.key = 0]

LEMMA DialogChanged ==
    ASSUME NEW pages, AllPages(pages), NEW u \in Users, PageShape(pages[u]), NEW d, NEW n
    PROVE  \E q : /\ WithDialog(pages, u, d, n) = WithPage(pages, u, q) /\ PageShape(q)
                  /\ q.open = pages[u].open /\ q.shows = pages[u].shows /\ q.dialog = d /\ q.key = n
                  /\ q.waits = pages[u].waits /\ q.held = pages[u].held
<1> DEFINE p == pages[u]
           m == [p EXCEPT !.dialog = d]
           q == [m EXCEPT !.key = n]
           x == [pages EXCEPT ![u].dialog = d]
           after == [pages EXCEPT ![u].dialog = d, ![u].key = n]
<1>1. x = [v \in Users |-> IF v = u THEN m ELSE pages[v]]
  BY DEF AllPages
<1>2. after = [x EXCEPT ![u].key = n]
  OBVIOUS
<1>3. after = [v \in Users |-> IF v = u THEN q ELSE pages[v]]
  <2>1. x[u] = m
    BY <1>1
  <2>2. after = [v \in Users |-> IF v = u THEN [x[u] EXCEPT !.key = n] ELSE x[v]]
    <3> HIDE DEF x
    <3> QED
      BY <1>1, <1>2
  <2> HIDE DEF x, m
  <2> QED
    BY <1>1, <2>1, <2>2
<1>4. after = [pages EXCEPT ![u] = q]
  <2> HIDE DEF q
  <2> QED
    BY <1>3 DEF AllPages
<1>5. PICK open, shows, dialog, key, waits, held :
         p = [open |-> open, shows |-> shows, dialog |-> dialog, key |-> key, waits |-> waits, held |-> held]
  BY Zenon DEF PageShape
<1> HIDE DEF p
<1>6. m = [open |-> open, shows |-> shows, dialog |-> d, key |-> key, waits |-> waits, held |-> held]
  BY <1>5
<1> HIDE DEF m
<1>7. q = [open |-> open, shows |-> shows, dialog |-> d, key |-> n, waits |-> waits, held |-> held]
  BY <1>6
<1> HIDE DEF q
<1>8. /\ PageShape(q) /\ q.open = p.open /\ q.shows = p.shows /\ q.dialog = d /\ q.key = n
      /\ q.waits = p.waits /\ q.held = p.held
  BY <1>5, <1>7 DEF PageShape
<1> QED
  BY <1>4, <1>8 DEF p, WithDialog, WithPage

LEMMA HeldChanged ==
    ASSUME NEW pages, AllPages(pages), NEW u \in Users, PageShape(pages[u]), NEW h
    PROVE  \E q : /\ WithHeld(pages, u, h) = WithPage(pages, u, q) /\ PageShape(q)
                  /\ q.open = pages[u].open /\ q.shows = pages[u].shows /\ q.dialog = pages[u].dialog
                  /\ q.key = pages[u].key /\ q.waits = pages[u].waits /\ q.held = h
<1> DEFINE p == pages[u]
           q == [p EXCEPT !.held = h]
           after == [pages EXCEPT ![u].held = h]
<1>1. after = [v \in Users |-> IF v = u THEN q ELSE pages[v]]
  BY DEF AllPages
<1>2. after = [pages EXCEPT ![u] = q]
  <2> HIDE DEF q
  <2> QED
    BY <1>1 DEF AllPages
<1>3. PICK open, shows, dialog, key, waits, held :
         p = [open |-> open, shows |-> shows, dialog |-> dialog, key |-> key, waits |-> waits, held |-> held]
  BY Zenon DEF PageShape
<1> HIDE DEF p
<1>4. q = [open |-> open, shows |-> shows, dialog |-> dialog, key |-> key, waits |-> waits, held |-> h]
  BY <1>3
<1> HIDE DEF q
<1>5. /\ PageShape(q) /\ q.open = p.open /\ q.shows = p.shows /\ q.dialog = p.dialog /\ q.key = p.key
      /\ q.waits = p.waits /\ q.held = h
  BY <1>3, <1>4 DEF PageShape
<1> QED
  BY <1>2, <1>5 DEF p, WithHeld, WithPage

LEMMA VisitChanged ==
    ASSUME NEW pages, AllPages(pages), NEW u \in Users, PageShape(pages[u]), NEW w, NEW h
    PROVE  \E q : /\ WithVisit(pages, u, w, h) = WithPage(pages, u, q) /\ PageShape(q)
                  /\ q.open = pages[u].open /\ q.shows = pages[u].shows /\ q.dialog = pages[u].dialog
                  /\ q.key = pages[u].key /\ q.waits = w /\ q.held = h
<1> DEFINE p == pages[u]
           m == [p EXCEPT !.waits = w]
           q == [m EXCEPT !.held = h]
           x == [pages EXCEPT ![u].waits = w]
           after == [pages EXCEPT ![u].waits = w, ![u].held = h]
<1>1. x = [v \in Users |-> IF v = u THEN m ELSE pages[v]]
  BY DEF AllPages
<1>2. after = [x EXCEPT ![u].held = h]
  OBVIOUS
<1>3. after = [v \in Users |-> IF v = u THEN q ELSE pages[v]]
  <2>1. x[u] = m
    BY <1>1
  <2>2. after = [v \in Users |-> IF v = u THEN [x[u] EXCEPT !.held = h] ELSE x[v]]
    <3> HIDE DEF x
    <3> QED
      BY <1>1, <1>2
  <2> HIDE DEF x, m
  <2> QED
    BY <1>1, <2>1, <2>2
<1>4. after = [pages EXCEPT ![u] = q]
  <2> HIDE DEF q
  <2> QED
    BY <1>3 DEF AllPages
<1>5. PICK open, shows, dialog, key, waits, held :
         p = [open |-> open, shows |-> shows, dialog |-> dialog, key |-> key, waits |-> waits, held |-> held]
  BY Zenon DEF PageShape
<1> HIDE DEF p
<1>6. m = [open |-> open, shows |-> shows, dialog |-> dialog, key |-> key, waits |-> w, held |-> held]
  BY <1>5
<1> HIDE DEF m
<1>7. q = [open |-> open, shows |-> shows, dialog |-> dialog, key |-> key, waits |-> w, held |-> h]
  BY <1>6
<1> HIDE DEF q
<1>8. /\ PageShape(q) /\ q.open = p.open /\ q.shows = p.shows /\ q.dialog = p.dialog /\ q.key = p.key
      /\ q.waits = w /\ q.held = h
  BY <1>5, <1>7 DEF PageShape
<1> QED
  BY <1>4, <1>8 DEF p, WithVisit, WithPage

LEMMA VisitOver ==
    ASSUME NEW p, PageShape(p), NEW h
    PROVE  LET q == Over(p, h) IN
           /\ PageShape(q) /\ q.open = p.open /\ q.shows = p.shows /\ q.dialog = p.dialog
           /\ q.key = p.key /\ q.waits = 0 /\ q.held = h
<1> DEFINE m == [p EXCEPT !.waits = 0]
           q == [m EXCEPT !.held = h]
<1>1. Over(p, h) = q
  BY DEF Over
<1>2. PICK open, shows, dialog, key, waits, held :
         p = [open |-> open, shows |-> shows, dialog |-> dialog, key |-> key, waits |-> waits, held |-> held]
  BY Zenon DEF PageShape
<1>3. m = [open |-> open, shows |-> shows, dialog |-> dialog, key |-> key, waits |-> 0, held |-> held]
  BY <1>2
<1> HIDE DEF m
<1>4. q = [open |-> open, shows |-> shows, dialog |-> dialog, key |-> key, waits |-> 0, held |-> h]
  BY <1>3
<1> HIDE DEF q
<1> QED
  BY <1>1, <1>2, <1>4 DEF PageShape

\* The page shows the row, and its dialog closes or stays.
LEMMA RowShown ==
    ASSUME NEW p, PageShape(p), NEW r
    PROVE  /\ LET q == Showing(p, r) IN
              /\ PageShape(q) /\ q.open = p.open /\ q.shows = r /\ q.dialog = p.dialog
              /\ q.key = p.key /\ q.waits = p.waits /\ q.held = p.held
           /\ LET q == ShowingClosed(p, r) IN
              /\ PageShape(q) /\ q.open = p.open /\ q.shows = r /\ q.dialog = Nothing
              /\ q.key = 0 /\ q.waits = p.waits /\ q.held = p.held
<1> DEFINE m == [p EXCEPT !.shows = r]
           n == [m EXCEPT !.dialog = Nothing]
           q == [n EXCEPT !.key = 0]
<1>1. [p EXCEPT !.shows = r, !.dialog = Nothing, !.key = 0] = q
  OBVIOUS
<1>2. PICK open, shows, dialog, key, waits, held :
         p = [open |-> open, shows |-> shows, dialog |-> dialog, key |-> key, waits |-> waits, held |-> held]
  BY Zenon DEF PageShape
<1>3. m = [open |-> open, shows |-> r, dialog |-> dialog, key |-> key, waits |-> waits, held |-> held]
  BY <1>2
<1> HIDE DEF m
<1>4. n = [open |-> open, shows |-> r, dialog |-> Nothing, key |-> key, waits |-> waits, held |-> held]
  BY <1>3
<1> HIDE DEF n
<1>5. q = [open |-> open, shows |-> r, dialog |-> Nothing, key |-> 0, waits |-> waits, held |-> held]
  BY <1>4
<1> HIDE DEF q
<1>6. /\ PageShape(m) /\ m.open = p.open /\ m.shows = r /\ m.dialog = p.dialog
      /\ m.key = p.key /\ m.waits = p.waits /\ m.held = p.held
  BY <1>2, <1>3 DEF PageShape
<1>7. /\ PageShape(q) /\ q.open = p.open /\ q.shows = r /\ q.dialog = Nothing
      /\ q.key = 0 /\ q.waits = p.waits /\ q.held = p.held
  BY <1>2, <1>5 DEF PageShape
<1> QED
  BY <1>1, <1>6, <1>7 DEF m, Showing, ShowingClosed

LEMMA DeskStarts == Init => DeskInv
<1> SUFFICES ASSUME Init PROVE DeskInv
  OBVIOUS
<1>1. kind \in AllKinds
  BY StaffDeskAssumption DEF Init, AllKinds
<1>2. Sound(kind, row)
  BY <1>1, RowsOpened DEF Init
<1>3. PagesFit(kind, row, page)
  <2>1. page = [u \in Users |-> Closed]
    BY DEF Init
  <2>2. PageFits(kind, row, Closed)
    BY SpentFits
  <2> QED
    BY <2>1, <2>2 DEF PagesFit, AllPages
<1>4. CallsFit(kind, row, calls)
  BY DEF Init, CallsFit, IsList
<1> QED
  BY <1>1, <1>2, <1>3, <1>4 DEF DeskInv

\* One user's page becomes p, and the row and the requests stay.
LEMMA PageStep ==
    ASSUME DeskInv, NEW u \in Users, NEW p, PageFits(kind, row, p), page' = WithPage(page, u, p),
           UNCHANGED <<kind, row, calls>>
    PROVE  DeskInv'
<1>1. PagesFit(kind, row, page')
  <2> DEFINE after == [page EXCEPT ![u] = p]
  <2>1. PagesFit(kind, row, after)
    BY OnePageChanges DEF DeskInv
  <2>2. page' = after
    BY DEF WithPage
  <2> HIDE DEF after
  <2> QED
    BY <2>1, <2>2
<1> QED
  BY <1>1 DEF DeskInv

LEMMA UserFacts ==
    ASSUME DeskInv, NEW u \in Users
    PROVE  /\ PageFits(kind, row, page[u]) /\ PageShape(page[u]) /\ AllPages(page)
           /\ page[u].dialog # Nothing => page[u].open
BY DEF DeskInv, PagesFit, PageFits

LEMMA ShownFits ==
    ASSUME DeskInv
    PROVE  PageFits(kind, row, Shown)
<1> DEFINE m == [Closed EXCEPT !.open = TRUE]
<1>1. Shown = [open |-> TRUE, shows |-> row, dialog |-> Nothing, key |-> 0, waits |-> 0, held |-> {}]
  <2>1. m = [open |-> TRUE, shows |-> NoRow, dialog |-> Nothing, key |-> 0, waits |-> 0, held |-> {}]
    <3> DEFINE no == FALSE
               yes == TRUE
    <3>1. Closed = [open |-> no, shows |-> NoRow, dialog |-> Nothing, key |-> 0, waits |-> 0, held |-> {}]
      BY DEF Closed
    <3>2. m = [Closed EXCEPT !.open = yes]
      OBVIOUS
    <3> HIDE DEF no, yes, m
    <3>3. m = [open |-> yes, shows |-> NoRow, dialog |-> Nothing, key |-> 0, waits |-> 0, held |-> {}]
      BY <3>1, <3>2
    <3> QED
      BY <3>3 DEF yes
  <2>2. Shown = [m EXCEPT !.shows = row]
    BY DEF Shown
  <2> HIDE DEF m
  <2> QED
    BY <2>1, <2>2
<1>2. Sound(kind, row) /\ Later(kind, row, row)
  BY LaterIsReflexive DEF DeskInv
<1> DEFINE s == Shown
<1>3. PageShape(s) /\ s.key = 0 /\ s.shows = row /\ s.dialog = Nothing
  BY <1>1 DEF PageShape
<1> HIDE DEF s
<1>4. PageFits(kind, row, s)
  BY <1>2, <1>3 DEF PageFits
<1> QED
  BY <1>4 DEF s

LEMMA LoadStep ==
    ASSUME DeskInv, NEW u \in Users, Load(u)
    PROVE  DeskInv'
<1>1. page' = WithPage(page, u, Shown) /\ UNCHANGED <<kind, row, calls>>
  BY DEF Load, WithPage
<1> QED
  BY <1>1, ShownFits, PageStep

LEMMA OpenStep ==
    ASSUME DeskInv, NEW u \in Users, NEW act, Open(u, act)
    PROVE  DeskInv'
<1> DEFINE fresh == CHOOSE k \in 1..(Cardinality(KeysUsed) + 1) : k \notin KeysUsed
           n == IF kind = "adjustment" /\ act.verb = "request" THEN fresh ELSE 0
           p == page[u]
<1>1. /\ p.open /\ act \in Buttons(p.shows, u) /\ page' = WithDialog(page, u, act, n)
      /\ UNCHANGED <<kind, row, calls>>
  BY DEF Open, Offered, WithDialog
<1>2. n \in Nat
  <2>1. IsList(calls) /\ (kind = "adjustment" => IsList(row.adjustments))
    <3>1. kind = "adjustment" => row.adjustments \in Seq(AdjustmentDocument)
      BY DEF DeskInv, Sound, AdjustmentSound, AdjustmentRows
    <3>2. kind = "adjustment" => IsList(row.adjustments)
      BY <3>1, SequenceIsList
    <3> QED
      BY <3>2 DEF DeskInv, CallsFit
  <2>2. fresh \in Nat
    BY <2>1, KeysAreFinite, NewKeyExists
  <2> HIDE DEF fresh
  <2> QED
    BY <2>2
<1> HIDE DEF n
<1>3. PageFits(kind, row, p) /\ PageShape(p) /\ AllPages(page)
  BY UserFacts
<1>4. PICK q : /\ WithDialog(page, u, act, n) = WithPage(page, u, q) /\ PageShape(q)
               /\ q.open = p.open /\ q.shows = p.shows /\ q.dialog = act /\ q.key = n
  BY <1>3, DialogChanged
<1>5. Refers(kind, p.shows, act)
  BY <1>1, RowsOffered DEF DeskInv
<1> HIDE DEF p
<1>6. PageFits(kind, row, q)
  BY <1>1, <1>2, <1>3, <1>4, <1>5 DEF PageFits
<1> QED
  BY <1>1, <1>4, <1>6, PageStep

LEMMA DismissStep ==
    ASSUME DeskInv, NEW u \in Users, Dismiss(u)
    PROVE  DeskInv'
<1> DEFINE p == page[u]
           h == p.held \ (IF p.dialog.verb = "assign" THEN {FlagOf(p.dialog)} ELSE {})
           mid == WithDialog(page, u, Nothing, 0)
<1>1. PageFits(kind, row, p) /\ PageShape(p) /\ AllPages(page)
  BY UserFacts
<1>2. PICK q : /\ mid = WithPage(page, u, q) /\ PageShape(q)
               /\ q.open = p.open /\ q.shows = p.shows /\ q.dialog = Nothing /\ q.key = 0
               /\ q.waits = p.waits /\ q.held = p.held
  BY <1>1, DialogChanged
<1>3. AllPages(mid) /\ mid[u] = q
  BY <1>1, <1>2 DEF WithPage, AllPages
<1>4. page' = WithHeld(mid, u, h) /\ UNCHANGED <<kind, row, calls>>
  <2>1. page' = [mid EXCEPT ![u].held = mid[u].held \ (IF p.dialog.verb = "assign" THEN {FlagOf(p.dialog)} ELSE {})]
    BY DEF Dismiss, WithDialog
  <2>2. mid[u].held = p.held
    BY <1>2, <1>3
  <2> QED
    BY <2>1, <2>2 DEF WithHeld, Dismiss
<1> HIDE DEF mid, h
<1>5. PICK z : /\ page' = WithPage(mid, u, z) /\ PageShape(z)
               /\ z.open = q.open /\ z.shows = q.shows /\ z.dialog = q.dialog /\ z.key = q.key
  BY <1>2, <1>3, <1>4, HeldChanged
<1>6. page' = WithPage(page, u, z)
  BY <1>1, <1>2, <1>5 DEF WithPage, AllPages
<1> HIDE DEF p
<1>7. PageFits(kind, row, z)
  BY <1>1, <1>2, <1>5 DEF PageFits
<1> QED
  BY <1>4, <1>6, <1>7, PageStep

NewCall(u, act, form, seen) ==
    [by |-> u, act |-> act, form |-> form, seen |-> seen, stage |-> "sent", answer |-> "none"]

LEMMA NewCallIs ==
    ASSUME NEW u, NEW act, NEW form, NEW seen
    PROVE  LET c == NewCall(u, act, form, seen) IN
           /\ c = [by |-> c.by, act |-> c.act, form |-> c.form, seen |-> c.seen, stage |-> c.stage,
                   answer |-> c.answer]
           /\ c.by = u /\ c.act = act /\ c.form = form /\ c.seen = seen /\ c.stage = "sent"
BY DEF NewCall

IsOpen(p) == p.open

\* The page once a request was sent from it.
LEMMA SentPage ==
    ASSUME AllPages(page), NEW u \in Users, PageShape(page[u]), NEW act, NEW form, Send(u, act, form)
    PROVE  LET p == page[u]
               dropped == IF p.waits = 0 THEN {} ELSE Cleared(calls[p.waits].act, "none")
           IN  page' = WithVisit(page, u, Len(calls) + 1, (p.held \ dropped) \cup ({FlagOf(act)} \ {NoFlag}))
<1> DEFINE p == page[u]
           dropped == IF p.waits = 0 THEN {} ELSE Cleared(calls[p.waits].act, "none")
           h == (p.held \ dropped) \cup ({FlagOf(act)} \ {NoFlag})
           w == Len(calls) + 1
<1>1. page' = [page EXCEPT ![u].waits = w, ![u].held = (@ \ dropped) \cup ({FlagOf(act)} \ {NoFlag})]
  BY DEF Send
<1> DEFINE x == [page EXCEPT ![u].waits = w]
<1>2. x[u].held = p.held
  <2>1. x[u] = [p EXCEPT !.waits = w]
    BY DEF AllPages
  <2>2. PICK open, shows, dialog, key, waits, held :
           p = [open |-> open, shows |-> shows, dialog |-> dialog, key |-> key, waits |-> waits, held |-> held]
    BY Zenon DEF PageShape
  <2> HIDE DEF p, x
  <2>3. [p EXCEPT !.waits = w].held = p.held
    BY <2>2
  <2> QED
    BY <2>1, <2>3
<1>3. page' = [x EXCEPT ![u].held = (x[u].held \ dropped) \cup ({FlagOf(act)} \ {NoFlag})]
  BY <1>1
<1>4. page' = [x EXCEPT ![u].held = h]
  <2> HIDE DEF x, p, dropped
  <2> QED
    BY <1>2, <1>3
<1> QED
  BY <1>4 DEF WithVisit

LEMMA SendStep ==
    ASSUME DeskInv, NEW u \in Users, NEW act, NEW form, IsOpen(page[u]),
           Refers(kind, page[u].shows, act), Fits(kind, page[u].shows, act, form), Send(u, act, form)
    PROVE  DeskInv'
<1> DEFINE p == page[u]
           dropped == IF p.waits = 0 THEN {} ELSE Cleared(calls[p.waits].act, "none")
           h == (p.held \ dropped) \cup ({FlagOf(act)} \ {NoFlag})
           c == NewCall(u, act, form, p.shows)
           w == Len(calls) + 1
           sent == Append(calls, c)
<1>1. PageFits(kind, row, p) /\ PageShape(p) /\ AllPages(page)
  BY UserFacts
<1>2. calls' = sent /\ UNCHANGED <<kind, row>>
  BY DEF Send, NewCall
<1>3. page' = WithVisit(page, u, w, h)
  BY <1>1, SentPage
<1> HIDE DEF h, w
<1>4. PICK q : /\ WithVisit(page, u, w, h) = WithPage(page, u, q) /\ PageShape(q)
               /\ q.open = p.open /\ q.shows = p.shows /\ q.dialog = p.dialog /\ q.key = p.key
               /\ q.waits = w /\ q.held = h
  BY <1>1, VisitChanged
<1>5. IsOpen(p) /\ Refers(kind, p.shows, act) /\ Fits(kind, p.shows, act, form)
  OBVIOUS
<1> HIDE DEF p, c
<1>6. PageFits(kind, row, q)
  BY <1>1, <1>4 DEF PageFits
<1>7. PagesFit(kind, row, page')
  <2> DEFINE after == [page EXCEPT ![u] = q]
  <2>1. PagesFit(kind, row, after)
    BY <1>6, OnePageChanges DEF DeskInv
  <2>2. page' = after
    BY <1>3, <1>4 DEF WithPage
  <2> HIDE DEF after
  <2> QED
    BY <2>1, <2>2
<1>8. CallFits(kind, row, c)
  <2>1. /\ c.by = u /\ c.act = act /\ c.form = form /\ c.seen = p.shows /\ c.stage = "sent"
        /\ c = [by |-> c.by, act |-> c.act, form |-> c.form, seen |-> c.seen, stage |-> c.stage,
                answer |-> c.answer]
    BY NewCallIs DEF c
  <2>2. Sound(kind, p.shows) /\ Later(kind, p.shows, row)
    BY <1>1, <1>5 DEF PageFits, IsOpen
  <2> QED
    BY <1>5, <2>1, <2>2 DEF CallFits
<1>9. CallsFit(kind, row, sent)
  <2>1. IsList(calls) /\ \A i \in DOMAIN calls : CallFits(kind, row, calls[i])
    BY DEF DeskInv, CallsFit
  <2>2. /\ IsList(sent) /\ DOMAIN sent = 1..(Len(calls) + 1) /\ sent[Len(calls) + 1] = c
        /\ \A i \in DOMAIN calls : sent[i] = calls[i]
    BY <2>1, ListAppended
  <2>3. Len(calls) \in Nat /\ DOMAIN calls = 1..Len(calls)
    BY <2>1, ListIsUpTo
  <2> HIDE DEF sent
  <2>4. \A i \in DOMAIN sent : i \in DOMAIN calls \/ i = Len(calls) + 1
    BY <2>2, <2>3
  <2> QED
    BY <1>8, <2>1, <2>2, <2>4 DEF CallsFit
<1> QED
  BY <1>2, <1>7, <1>9 DEF DeskInv

LEMMA PressStep ==
    ASSUME DeskInv, NEW u \in Users, NEW act, Press(u, act)
    PROVE  DeskInv'
<1>1. PICK form \in AtOnce : Send(u, act, form)
  BY DEF Press
<1>2. /\ page[u].open /\ act \in Buttons(page[u].shows, u)
      /\ form \in Dialog(page[u].shows, act, 0)
  BY <1>1 DEF Press, Offered
<1>3. kind \in AllKinds /\ Sound(kind, page[u].shows)
  BY <1>2, UserFacts DEF PageFits, DeskInv
<1>4. Refers(kind, page[u].shows, act)
  BY <1>2, <1>3, RowsOffered
<1>5. Fits(kind, page[u].shows, act, form)
  BY <1>2, <1>3, <1>4, RowsTyped
<1> QED
  BY <1>1, <1>2, <1>4, <1>5, SendStep DEF IsOpen

LEMMA ConfirmStep ==
    ASSUME DeskInv, NEW u \in Users, NEW form \in Dialog(page[u].shows, page[u].dialog, page[u].key),
           Confirm(u, form)
    PROVE  DeskInv'
<1>1. page[u].dialog # Nothing /\ Send(u, page[u].dialog, form)
  BY DEF Confirm
<1>2. /\ page[u].open /\ Refers(kind, page[u].shows, page[u].dialog) /\ kind \in AllKinds
      /\ Sound(kind, page[u].shows) /\ page[u].key \in Nat
  BY <1>1, UserFacts DEF PageFits, DeskInv
<1>3. Fits(kind, page[u].shows, page[u].dialog, form)
  BY <1>2, RowsTyped
<1> QED
  BY <1>1, <1>2, <1>3, SendStep DEF IsOpen

LEMMA CallFacts ==
    ASSUME DeskInv, NEW i \in DOMAIN calls, calls[i].stage # "over"
    PROVE  LET c == calls[i] IN
           /\ CallFits(kind, row, c) /\ c.by \in Users /\ Sound(kind, c.seen) /\ Later(kind, c.seen, row)
           /\ Refers(kind, c.seen, c.act) /\ Refers(kind, row, c.act) /\ Fits(kind, c.seen, c.act, c.form)
           /\ c.stage = "admitted" => Permitted(kind, row, c.by, c.act)
<1>1. CallFits(kind, row, calls[i]) /\ kind \in AllKinds /\ Sound(kind, row)
  BY DEF DeskInv, CallsFit
<1> QED
  BY <1>1, ReferredRemains DEF CallFits

LEMMA AdmitStep ==
    ASSUME DeskInv, NEW i \in DOMAIN calls, Admit(i)
    PROVE  DeskInv'
<1> DEFINE c == calls[i]
<1>1. c.stage = "sent" /\ UNCHANGED <<kind, row, page>>
  BY DEF Admit
<1>2. /\ CallFits(kind, row, c) /\ c.by \in Users /\ Sound(kind, c.seen) /\ Later(kind, c.seen, row)
      /\ Refers(kind, c.seen, c.act) /\ Refers(kind, row, c.act) /\ Fits(kind, c.seen, c.act, c.form)
  BY <1>1, CallFacts
<1>3. CASE Allowed(c.by, c.act)
  <2> DEFINE e == [c EXCEPT !.stage = "admitted"]
  <2>1. calls' = [calls EXCEPT ![i] = e]
    BY <1>3 DEF Admit
  <2>2. /\ e = [by |-> e.by, act |-> e.act, form |-> e.form, seen |-> e.seen, stage |-> e.stage, answer |-> e.answer]
        /\ e.by = c.by /\ e.act = c.act /\ e.form = c.form /\ e.seen = c.seen /\ e.stage = "admitted"
    <3>0. c = [by |-> c.by, act |-> c.act, form |-> c.form, seen |-> c.seen, stage |-> c.stage, answer |-> c.answer]
      BY <1>2 DEF CallFits
    <3>1. PICK by, act, form, seen, stage, old :
             c = [by |-> by, act |-> act, form |-> form, seen |-> seen, stage |-> stage, answer |-> old]
      BY <3>0, Zenon
    <3> HIDE DEF c
    <3>2. e = [by |-> by, act |-> act, form |-> form, seen |-> seen, stage |-> "admitted", answer |-> old]
      BY <3>1
    <3> HIDE DEF e
    <3> QED
      BY <3>1, <3>2
  <2>3. Permitted(kind, row, c.by, c.act)
    BY <1>2, <1>3, RowsAllowed DEF DeskInv
  <2> HIDE DEF c, e
  <2>4. CallFits(kind, row, e)
    BY <1>2, <2>2, <2>3 DEF CallFits
  <2>5. CallsFit(kind, row, calls')
    BY <2>1, <2>4, OneCallChanges DEF DeskInv
  <2> QED
    BY <1>1, <2>5 DEF DeskInv
<1>4. CASE ~Allowed(c.by, c.act)
  <2>1. Answer(i, "denied") /\ c.stage # "over"
    BY <1>1, <1>4 DEF Admit
  <2>2. CallsFit(kind, row, calls')
    BY <2>1, AnswerFits DEF DeskInv
  <2> QED
    BY <1>1, <2>2 DEF DeskInv
<1> QED
  BY <1>3, <1>4

\* The row becomes a later one.
LEMMA RowStep ==
    ASSUME DeskInv, Sound(kind, row'), Later(kind, row, row')
    PROVE  PagesFit(kind, row', page) /\ CallsFit(kind, row', calls)
<1>1. kind \in AllKinds /\ Sound(kind, row) /\ PagesFit(kind, row, page) /\ CallsFit(kind, row, calls)
  BY DEF DeskInv
<1> DEFINE s == row'
<1>2. Sound(kind, s) /\ Later(kind, row, s)
  OBVIOUS
<1> HIDE DEF s
<1>3. /\ \A p : PageFits(kind, row, p) => PageFits(kind, s, p)
      /\ \A c : CallFits(kind, row, c) => CallFits(kind, s, c)
  BY <1>1, <1>2, FitsRemain
<1>4. PagesFit(kind, s, page) /\ CallsFit(kind, s, calls)
  BY <1>1, <1>3 DEF PagesFit, CallsFit
<1> QED
  BY <1>4 DEF s

\* What serving a request does to the row.
LEMMA RowAfter ==
    ASSUME DeskInv, NEW i \in DOMAIN calls, Serve(i)
    PROVE  /\ Sound(kind, row') /\ Later(kind, row, row')
           /\ row' # row => /\ Invited(kind, row, calls[i].by, calls[i].act)
                            /\ kind = "adjustment" => AdjustmentTicked(row, calls[i].act, calls[i].form)
<1> DEFINE c == calls[i]
           s == Handled(c.by, c.act, c.form).row
<1>1. c.stage = "admitted" /\ row' = s
  BY DEF Serve
<1>2. /\ c.by \in Users /\ Sound(kind, c.seen) /\ Later(kind, c.seen, row)
      /\ Refers(kind, row, c.act) /\ Fits(kind, c.seen, c.act, c.form)
      /\ Permitted(kind, row, c.by, c.act) /\ kind \in AllKinds /\ Sound(kind, row)
  BY <1>1, CallFacts DEF DeskInv
<1> HIDE DEF c
<1>3. /\ Sound(kind, s) /\ Later(kind, row, s)
      /\ s # row => /\ Invited(kind, row, c.by, c.act)
                    /\ kind = "adjustment" => AdjustmentTicked(row, c.act, c.form)
  BY <1>2, RowsServed
<1> HIDE DEF s
<1> QED
  BY <1>1, <1>3 DEF c

LEMMA ServeStep ==
    ASSUME DeskInv, NEW i \in DOMAIN calls, Serve(i)
    PROVE  DeskInv'
<1>1. Sound(kind, row') /\ Later(kind, row, row')
  BY RowAfter
<1>2. PagesFit(kind, row', page) /\ CallsFit(kind, row', calls)
  BY <1>1, RowStep
<1> DEFINE answer == Handled(calls[i].by, calls[i].act, calls[i].form).answer
<1>3. calls[i].stage = "admitted" /\ Answer(i, answer) /\ UNCHANGED <<kind, page>>
  BY DEF Serve
<1> HIDE DEF answer
<1>4. CallsFit(kind, row', calls')
  <2> DEFINE s == row'
  <2>1. CallsFit(kind, s, calls) /\ calls[i].stage # "over"
    BY <1>2, <1>3
  <2> HIDE DEF s
  <2>2. CallsFit(kind, s, calls')
    BY <1>3, <2>1, AnswerFits
  <2> QED
    BY <2>2 DEF s
<1> QED
  BY <1>1, <1>2, <1>3, <1>4 DEF DeskInv

LEMMA MeanwhileStep ==
    ASSUME DeskInv, Meanwhile
    PROVE  DeskInv'
<1>1. row' \in Elsewhere(row) /\ UNCHANGED <<kind, page, calls>>
  BY DEF Meanwhile
<1>2. Sound(kind, row') /\ Later(kind, row, row')
  <2> DEFINE s == row'
  <2>1. s \in Elsewhere(row) /\ kind \in AllKinds /\ Sound(kind, row)
    BY <1>1 DEF DeskInv
  <2> HIDE DEF s
  <2>2. Sound(kind, s) /\ Later(kind, row, s)
    BY <2>1, RowsElsewhere
  <2> QED
    BY <2>2 DEF s
<1>3. PagesFit(kind, row', page) /\ CallsFit(kind, row', calls)
  BY <1>2, RowStep
<1> QED
  BY <1>1, <1>2, <1>3 DEF DeskInv

LEMMA ReturnStep ==
    ASSUME DeskInv, NEW u \in Users, Return(u), page[u].waits \in DOMAIN calls
    PROVE  DeskInv'
<1> DEFINE p == page[u]
           i == p.waits
           call == calls[i]
           h == p.held \ Cleared(call.act, call.answer)
           o == Over(p, h)
           shown == Showing(o, row)
           closed == ShowingClosed(o, row)
           q == IF call.answer = "conflict" THEN o
                ELSE IF call.answer = "denied" \/ ~Visits(u) THEN Closed
                ELSE IF call.answer = "done" /\ o.dialog = call.act THEN closed ELSE shown
<1>1. /\ calls' = [calls EXCEPT ![i] = Spent] /\ UNCHANGED <<kind, row>>
      /\ page' = WithPage(page, u, q)
  BY DEF Return, Over, WithPage, Showing, ShowingClosed
<1>2. PageFits(kind, row, p) /\ PageShape(p) /\ Sound(kind, row) /\ kind \in AllKinds
  BY UserFacts DEF DeskInv
<1> HIDE DEF p, h
<1>3. /\ PageShape(o) /\ o.open = p.open /\ o.shows = p.shows /\ o.dialog = p.dialog
      /\ o.key = p.key
  BY <1>2, VisitOver
<1> HIDE DEF o
<1>4. PageFits(kind, row, o)
  BY <1>2, <1>3 DEF PageFits
<1>5. /\ PageShape(shown) /\ shown.open = o.open /\ shown.shows = row /\ shown.dialog = o.dialog
      /\ shown.key = o.key
      /\ PageShape(closed) /\ closed.open = o.open /\ closed.shows = row /\ closed.dialog = Nothing
      /\ closed.key = 0
  BY <1>3, RowShown
<1> HIDE DEF shown, closed
<1>6. Later(kind, row, row)
  BY LaterIsReflexive
<1>7. PageFits(kind, row, closed)
  BY <1>2, <1>5, <1>6 DEF PageFits
<1>8. PageFits(kind, row, shown)
  <2>1. ASSUME o.dialog # Nothing
        PROVE  o.open /\ Refers(kind, row, o.dialog)
    <3>1. o.open /\ Refers(kind, o.shows, o.dialog) /\ Sound(kind, o.shows) /\ Later(kind, o.shows, row)
      BY <1>4, <2>1 DEF PageFits
    <3> QED
      BY <1>2, <3>1, ReferredRemains
  <2>2. o.key \in Nat
    BY <1>4 DEF PageFits
  <2> QED
    BY <1>2, <1>5, <1>6, <2>1, <2>2 DEF PageFits
<1>9. PageFits(kind, row, q)
  BY <1>4, <1>7, <1>8, SpentFits
<1> HIDE DEF q
<1>10. PagesFit(kind, row, page')
  <2> DEFINE after == [page EXCEPT ![u] = q]
  <2>1. PagesFit(kind, row, after)
    BY <1>9, OnePageChanges DEF DeskInv
  <2>2. page' = after
    BY <1>1 DEF WithPage
  <2> HIDE DEF after
  <2> QED
    BY <2>1, <2>2
<1>11. CallsFit(kind, row, calls')
  <2>1. i \in DOMAIN calls
    BY DEF p
  <2> HIDE DEF i
  <2> QED
    BY <1>1, <2>1, OneCallChanges, SpentFits DEF DeskInv
<1> QED
  BY <1>1, <1>10, <1>11 DEF DeskInv

LEMMA LoseStep ==
    ASSUME DeskInv, NEW i \in DOMAIN calls, Lose(i)
    PROVE  DeskInv'
<1> DEFINE C == Cleared(calls[i].act, "none")
           lost(u) == Over(page[u], page[u].held \ C)
<1>1. /\ page' = [u \in Users |-> IF page[u].waits # i THEN page[u] ELSE lost(u)]
      /\ calls' = [calls EXCEPT ![i] = Spent] /\ UNCHANGED <<kind, row>>
  BY DEF Lose, Over
<1>2. \A u \in Users : PageFits(kind, row, lost(u))
  <2> TAKE u \in Users
  <2> DEFINE p == page[u]
             h == p.held \ C
             o == Over(p, h)
  <2>1. PageFits(kind, row, p) /\ PageShape(p)
    BY UserFacts
  <2> HIDE DEF p, h
  <2>2. /\ PageShape(o) /\ o.open = p.open /\ o.shows = p.shows /\ o.dialog = p.dialog
        /\ o.key = p.key
    BY <2>1, VisitOver
  <2> HIDE DEF o
  <2>3. PageFits(kind, row, o)
    BY <2>1, <2>2 DEF PageFits
  <2> QED
    BY <2>3 DEF o, h, p
<1> HIDE DEF lost
<1>3. PagesFit(kind, row, page')
  <2>1. \A u \in Users : PageFits(kind, row, page[u])
    BY UserFacts
  <2> QED
    BY <1>1, <1>2, <2>1 DEF PagesFit, AllPages
<1>4. CallsFit(kind, row, calls')
  BY <1>1, OneCallChanges, SpentFits DEF DeskInv
<1> QED
  BY <1>1, <1>3, <1>4 DEF DeskInv

--------------------------------------------------------------------------------
\* Who waits for what

\* The flag of FlagOf, for the page of kind k.
FlagAt(k, act) ==
    CASE k = "payment"    -> PaymentFlag(act.verb)
      [] k = "refund"     -> RefundFlag(act.verb)
      [] k = "supplier"   -> SupplierFlag(act.verb)
      [] k = "return"     -> ReturnFlag(act.verb)
      [] k = "exception"  -> Flag(act.verb, "finish")
      [] k = "delivery"   -> DeliveryFlag(act.verb)
      [] k \in {"order", "adjustment"} -> ModalFlag

LEMMA FlagIs == ASSUME NEW act PROVE FlagOf(act) = FlagAt(kind, act)
BY DEF FlagOf, FlagAt

\* A page waits for a request of its user, and holds no button for another.
WaitsFit(k, u, p, sent) ==
    /\ p.waits # 0 => /\ p.waits \in DOMAIN sent /\ sent[p.waits].by = u
                      /\ sent[p.waits].stage # "over"
    /\ \A f \in p.held : f.cleared = "finish" => p.waits # 0 /\ FlagAt(k, sent[p.waits].act) = f

FlagInv == \A u \in Users : WaitsFit(kind, u, page[u], calls)

LEMMA ClearedIs ==
    ASSUME NEW act, NEW answer, NEW f, f.cleared = "finish", FlagAt(kind, act) = f
    PROVE  f \in Cleared(act, answer)
BY FlagIs DEF Cleared

\* A request stays on its way, whatever becomes of others.
Stays(sent, after, w) ==
    /\ w \in DOMAIN after /\ after[w].by = sent[w].by /\ after[w].act = sent[w].act
    /\ after[w].stage # "over"

LEMMA WaitsRemain ==
    ASSUME NEW k, NEW u, NEW p, NEW sent, WaitsFit(k, u, p, sent), NEW after,
           p.waits # 0 => Stays(sent, after, p.waits)
    PROVE  WaitsFit(k, u, p, after)
BY DEF WaitsFit, Stays

LEMMA FlagsStart == Init => FlagInv
BY DEF Init, FlagInv, WaitsFit, Closed

\* One page changes and the requests stay.
LEMMA PageFlags ==
    ASSUME DeskInv, FlagInv, NEW u \in Users, NEW p, page' = WithPage(page, u, p),
           WaitsFit(kind, u, p, calls), UNCHANGED <<kind, calls>>
    PROVE  FlagInv'
<1>1. AllPages(page)
  BY UserFacts
<1>2. \A v \in Users : page'[v] = IF v = u THEN p ELSE page[v]
  BY <1>1 DEF WithPage, AllPages
<1> QED
  BY <1>2 DEF FlagInv

LEMMA LoadFlags ==
    ASSUME DeskInv, FlagInv, NEW u \in Users, Load(u)
    PROVE  FlagInv'
<1>1. page' = WithPage(page, u, Shown) /\ UNCHANGED <<kind, calls>>
  BY DEF Load, WithPage
<1>2. WaitsFit(kind, u, Shown, calls)
  BY DEF WaitsFit, Shown, Closed
<1> QED
  BY <1>1, <1>2, PageFlags

LEMMA OpenFlags ==
    ASSUME DeskInv, FlagInv, NEW u \in Users, NEW act, Open(u, act)
    PROVE  FlagInv'
<1> DEFINE n == IF kind = "adjustment" /\ act.verb = "request"
                THEN CHOOSE k \in 1..(Cardinality(KeysUsed) + 1) : k \notin KeysUsed ELSE 0
           p == page[u]
<1>1. page' = WithDialog(page, u, act, n) /\ UNCHANGED <<kind, calls>>
  BY DEF Open, WithDialog
<1> HIDE DEF n
<1>2. PageShape(p) /\ AllPages(page)
  BY UserFacts
<1>3. PICK q : /\ WithDialog(page, u, act, n) = WithPage(page, u, q)
               /\ q.waits = p.waits /\ q.held = p.held
  BY <1>2, DialogChanged
<1>4. WaitsFit(kind, u, p, calls)
  BY DEF FlagInv
<1>5. WaitsFit(kind, u, q, calls)
  BY <1>3, <1>4 DEF WaitsFit
<1> QED
  BY <1>1, <1>3, <1>5, PageFlags

LEMMA DismissFlags ==
    ASSUME DeskInv, FlagInv, NEW u \in Users, Dismiss(u)
    PROVE  FlagInv'
<1> DEFINE p == page[u]
           h == p.held \ (IF p.dialog.verb = "assign" THEN {FlagOf(p.dialog)} ELSE {})
           mid == WithDialog(page, u, Nothing, 0)
<1>1. PageShape(p) /\ AllPages(page) /\ WaitsFit(kind, u, p, calls)
  BY UserFacts DEF FlagInv
<1>2. PICK q : /\ mid = WithPage(page, u, q) /\ PageShape(q)
               /\ q.waits = p.waits /\ q.held = p.held
  BY <1>1, DialogChanged
<1>3. AllPages(mid) /\ mid[u] = q
  BY <1>1, <1>2 DEF WithPage, AllPages
<1>4. page' = WithHeld(mid, u, h) /\ UNCHANGED <<kind, calls>>
  <2>1. page' = [mid EXCEPT ![u].held = mid[u].held \ (IF p.dialog.verb = "assign" THEN {FlagOf(p.dialog)} ELSE {})]
    BY DEF Dismiss, WithDialog
  <2>2. mid[u].held = p.held
    BY <1>2, <1>3
  <2> QED
    BY <2>1, <2>2 DEF WithHeld, Dismiss
<1>5. h \subseteq p.held
  OBVIOUS
<1> HIDE DEF mid, h
<1>6. PICK z : page' = WithPage(mid, u, z) /\ z.waits = q.waits /\ z.held = h
  BY <1>2, <1>3, <1>4, HeldChanged
<1>7. page' = WithPage(page, u, z)
  BY <1>1, <1>2, <1>6 DEF WithPage, AllPages
<1>8. WaitsFit(kind, u, z, calls)
  BY <1>1, <1>2, <1>5, <1>6 DEF WaitsFit
<1> QED
  BY <1>4, <1>7, <1>8, PageFlags

LEMMA SendFlags ==
    ASSUME DeskInv, FlagInv, NEW u \in Users, NEW act, NEW form, Send(u, act, form)
    PROVE  FlagInv'
<1> DEFINE p == page[u]
           dropped == IF p.waits = 0 THEN {} ELSE Cleared(calls[p.waits].act, "none")
           h == (p.held \ dropped) \cup ({FlagOf(act)} \ {NoFlag})
           c == NewCall(u, act, form, p.shows)
           w == Len(calls) + 1
           sent == Append(calls, c)
<1>1. PageShape(p) /\ AllPages(page) /\ WaitsFit(kind, u, p, calls)
  BY UserFacts DEF FlagInv
<1>2. calls' = sent /\ kind' = kind
  BY DEF Send, NewCall
<1>3. page' = WithVisit(page, u, w, h)
  BY <1>1, SentPage
<1>4. \A f \in h : f.cleared = "finish" => FlagAt(kind, act) = f
  <2> SUFFICES ASSUME NEW f \in h, f.cleared = "finish" PROVE FlagAt(kind, act) = f
    OBVIOUS
  <2>1. CASE f \in p.held \ dropped
    <3>1. p.waits # 0 /\ FlagAt(kind, calls[p.waits].act) = f
      BY <1>1, <2>1 DEF WaitsFit
    <3>2. f \in Cleared(calls[p.waits].act, "none")
      BY <3>1, ClearedIs
    <3> QED
      BY <2>1, <3>1, <3>2
  <2>2. CASE f = FlagOf(act)
    BY <2>2, FlagIs
  <2> QED
    BY <2>1, <2>2
<1>5. /\ w \in Nat /\ w # 0 /\ DOMAIN sent = 1..w /\ w \in DOMAIN sent /\ sent[w] = c
      /\ \A i \in DOMAIN calls : sent[i] = calls[i] /\ i \in DOMAIN sent
  <2>1. IsList(calls)
    BY DEF DeskInv, CallsFit
  <2>2. Len(calls) \in Nat
    BY <2>1, ListIsUpTo
  <2> HIDE DEF c
  <2> QED
    BY <2>1, <2>2, ListAppended
<1> HIDE DEF h, w, sent
<1>6. PICK q : WithVisit(page, u, w, h) = WithPage(page, u, q) /\ q.waits = w /\ q.held = h
  BY <1>1, VisitChanged
<1>7. c.by = u /\ c.act = act /\ c.stage = "sent"
  BY NewCallIs
<1> HIDE DEF c, p
<1>8. WaitsFit(kind, u, q, sent)
  BY <1>4, <1>5, <1>6, <1>7 DEF WaitsFit
<1>9. \A v \in Users : page'[v] = IF v = u THEN q ELSE page[v]
  BY <1>1, <1>3, <1>6 DEF WithPage, AllPages
<1>10. ASSUME NEW v \in Users
       PROVE  WaitsFit(kind, v, page[v], sent)
  <2>1. WaitsFit(kind, v, page[v], calls)
    BY DEF FlagInv
  <2>2. page[v].waits # 0 => Stays(calls, sent, page[v].waits)
    BY <1>5, <2>1 DEF WaitsFit, Stays
  <2> QED
    BY <2>1, <2>2, WaitsRemain
<1> QED
  BY <1>2, <1>8, <1>9, <1>10 DEF FlagInv

\* Requests change, and those that pages wait for stay.
LEMMA CallFlags ==
    ASSUME FlagInv, UNCHANGED <<kind, page>>,
           \A u \in Users : page[u].waits # 0 => Stays(calls, calls', page[u].waits)
    PROVE  FlagInv'
<1>1. ASSUME NEW u \in Users
      PROVE  WaitsFit(kind, u, page[u], calls')
  <2> DEFINE after == calls'
  <2>1. WaitsFit(kind, u, page[u], calls) /\ (page[u].waits # 0 => Stays(calls, after, page[u].waits))
    BY DEF FlagInv
  <2> HIDE DEF after
  <2>2. WaitsFit(kind, u, page[u], after)
    BY <2>1, WaitsRemain
  <2> QED
    BY <2>2 DEF after
<1> QED
  BY <1>1 DEF FlagInv

\* The request that is written to is not one that a page waits for, or it is still on its way.
LEMMA AnswerStays ==
    ASSUME DeskInv, FlagInv, NEW i \in DOMAIN calls, NEW answer, Answer(i, answer),
           NEW u \in Users, page[u].waits # 0
    PROVE  Stays(calls, calls', page[u].waits)
<1> DEFINE w == page[u].waits
           c == calls[i]
           e == [c EXCEPT !.stage = "answered", !.answer = answer]
<1>1. w \in DOMAIN calls /\ calls[w].stage # "over" /\ IsList(calls)
  BY DEF FlagInv, WaitsFit, DeskInv, CallsFit
<1>2. CASE w = i
  <2>1. calls' = [calls EXCEPT ![i] = e]
    BY <1>2 DEF Answer, Awaited
  <2>2. e.by = c.by /\ e.act = c.act /\ e.stage = "answered"
    <3>1. c = [by |-> c.by, act |-> c.act, form |-> c.form, seen |-> c.seen, stage |-> c.stage, answer |-> c.answer]
      BY DEF DeskInv, CallsFit, CallFits
    <3>2. PICK by, act, form, seen, stage, old :
             c = [by |-> by, act |-> act, form |-> form, seen |-> seen, stage |-> stage, answer |-> old]
      BY <3>1, Zenon
    <3> DEFINE m == [c EXCEPT !.stage = "answered"]
    <3>3. e = [m EXCEPT !.answer = answer]
      OBVIOUS
    <3> HIDE DEF c
    <3>4. m = [by |-> by, act |-> act, form |-> form, seen |-> seen, stage |-> "answered", answer |-> old]
      BY <3>2
    <3> HIDE DEF e, m
    <3>5. e = [by |-> by, act |-> act, form |-> form, seen |-> seen, stage |-> "answered", answer |-> answer]
      BY <3>3, <3>4
    <3> QED
      BY <3>2, <3>5
  <2> HIDE DEF e
  <2>3. DOMAIN calls' = DOMAIN calls /\ calls'[i] = e
    BY <1>1, <2>1, ListChanged
  <2> QED
    BY <1>2, <2>2, <2>3 DEF Stays
<1>3. CASE w # i
  <2>1. PICK x : calls' = [calls EXCEPT ![i] = x]
    BY DEF Answer
  <2>2. DOMAIN calls' = DOMAIN calls /\ calls'[w] = calls[w]
    BY <1>1, <1>3, <2>1, ListChanged
  <2> QED
    BY <1>1, <2>2 DEF Stays
<1> QED
  BY <1>2, <1>3

LEMMA AdmitFlags ==
    ASSUME DeskInv, FlagInv, NEW i \in DOMAIN calls, Admit(i)
    PROVE  FlagInv'
<1>1. UNCHANGED <<kind, page>> /\ calls[i].stage = "sent"
  BY DEF Admit
<1>2. ASSUME NEW u \in Users, page[u].waits # 0
      PROVE  Stays(calls, calls', page[u].waits)
  <2> DEFINE w == page[u].waits
             c == calls[i]
             e == [c EXCEPT !.stage = "admitted"]
  <2>1. w \in DOMAIN calls /\ calls[w].stage # "over" /\ IsList(calls)
    BY <1>2 DEF FlagInv, WaitsFit, DeskInv, CallsFit
  <2>2. CASE Allowed(c.by, c.act)
    <3>1. calls' = [calls EXCEPT ![i] = e]
      BY <2>2 DEF Admit
    <3>2. e.by = c.by /\ e.act = c.act /\ e.stage = "admitted"
      <4>1. c = [by |-> c.by, act |-> c.act, form |-> c.form, seen |-> c.seen, stage |-> c.stage, answer |-> c.answer]
        BY DEF DeskInv, CallsFit, CallFits
      <4>2. PICK by, act, form, seen, stage, old :
               c = [by |-> by, act |-> act, form |-> form, seen |-> seen, stage |-> stage, answer |-> old]
        BY <4>1, Zenon
      <4> HIDE DEF c
      <4> QED
        BY <4>2
    <3> HIDE DEF e
    <3>3. DOMAIN calls' = DOMAIN calls /\ calls'[i] = e /\ (w # i => calls'[w] = calls[w])
      BY <2>1, <3>1, ListChanged
    <3> QED
      BY <2>1, <3>2, <3>3 DEF Stays
  <2>3. CASE ~Allowed(c.by, c.act)
    <3>1. Answer(i, "denied")
      BY <2>3 DEF Admit
    <3> QED
      BY <1>2, <3>1, AnswerStays
  <2> QED
    BY <2>2, <2>3
<1> QED
  BY <1>1, <1>2, CallFlags

LEMMA ServeFlags ==
    ASSUME DeskInv, FlagInv, NEW i \in DOMAIN calls, Serve(i)
    PROVE  FlagInv'
<1>1. PICK answer : Answer(i, answer) /\ UNCHANGED <<kind, page>>
  BY DEF Serve
<1>2. \A u \in Users : page[u].waits # 0 => Stays(calls, calls', page[u].waits)
  BY <1>1, AnswerStays
<1> QED
  BY <1>1, <1>2, CallFlags

LEMMA ReturnFlags ==
    ASSUME DeskInv, FlagInv, NEW u \in Users, Return(u)
    PROVE  FlagInv'
<1> DEFINE p == page[u]
           i == p.waits
           call == calls[i]
           h == p.held \ Cleared(call.act, call.answer)
           o == Over(p, h)
           shown == Showing(o, row)
           closed == ShowingClosed(o, row)
           q == IF call.answer = "conflict" THEN o
                ELSE IF call.answer = "denied" \/ ~Visits(u) THEN Closed
                ELSE IF call.answer = "done" /\ o.dialog = call.act THEN closed ELSE shown
<1>1. /\ calls' = [calls EXCEPT ![i] = Spent] /\ UNCHANGED kind /\ i # 0
      /\ page' = WithPage(page, u, q)
  BY DEF Return, Over, WithPage, Showing, ShowingClosed
<1>2. PageShape(p) /\ AllPages(page) /\ WaitsFit(kind, u, p, calls) /\ IsList(calls)
  BY UserFacts DEF FlagInv, DeskInv, CallsFit
<1>3. \A f \in h : f.cleared # "finish"
  <2> SUFFICES ASSUME NEW f \in h, f.cleared = "finish" PROVE FALSE
    OBVIOUS
  <2>1. FlagAt(kind, call.act) = f
    BY <1>2 DEF WaitsFit
  <2> QED
    BY <2>1, ClearedIs
<1>4. i \in DOMAIN calls /\ call.by = u
  BY <1>1, <1>2 DEF WaitsFit
<1> HIDE DEF h, p
<1>5. PageShape(o) /\ o.waits = 0 /\ o.held = h
  BY <1>2, VisitOver
<1> HIDE DEF o
<1>6. shown.waits = 0 /\ shown.held = h /\ closed.waits = 0 /\ closed.held = h
  BY <1>5, RowShown
<1>7. Closed.waits = 0 /\ Closed.held = {}
  BY DEF Closed
<1> HIDE DEF shown, closed
<1>8. q.waits = 0 /\ \A f \in q.held : f.cleared # "finish"
  BY <1>3, <1>5, <1>6, <1>7
<1> HIDE DEF q
<1>9. WaitsFit(kind, u, q, calls')
  BY <1>8 DEF WaitsFit
<1>10. \A v \in Users : page'[v] = IF v = u THEN q ELSE page[v]
  BY <1>1, <1>2 DEF WithPage, AllPages
<1>11. ASSUME NEW v \in Users, v # u
       PROVE  WaitsFit(kind, v, page[v], calls')
  <2> DEFINE after == calls'
  <2>1. WaitsFit(kind, v, page[v], calls)
    BY DEF FlagInv
  <2>2. page[v].waits # 0 => Stays(calls, after, page[v].waits)
    <3> SUFFICES ASSUME page[v].waits # 0 PROVE Stays(calls, after, page[v].waits)
      OBVIOUS
    <3>1. page[v].waits \in DOMAIN calls /\ calls[page[v].waits].by = v /\ calls[page[v].waits].stage # "over"
      BY <2>1 DEF WaitsFit
    <3>2. page[v].waits # i
      BY <1>4, <1>11, <3>1
    <3> HIDE DEF i
    <3>3. DOMAIN calls' = DOMAIN calls /\ calls'[page[v].waits] = calls[page[v].waits]
      BY <1>1, <1>2, <1>4, <3>1, <3>2, ListChanged
    <3> QED
      BY <3>1, <3>3 DEF Stays
  <2> HIDE DEF after
  <2>3. WaitsFit(kind, v, page[v], after)
    BY <2>1, <2>2, WaitsRemain
  <2> QED
    BY <2>3 DEF after
<1> QED
  BY <1>1, <1>9, <1>10, <1>11 DEF FlagInv

LEMMA LoseFlags ==
    ASSUME DeskInv, FlagInv, NEW i \in DOMAIN calls, Lose(i)
    PROVE  FlagInv'
<1> DEFINE C == Cleared(calls[i].act, "none")
           lost(u) == Over(page[u], page[u].held \ C)
<1>1. /\ page' = [u \in Users |-> IF page[u].waits # i THEN page[u] ELSE lost(u)]
      /\ calls' = [calls EXCEPT ![i] = Spent] /\ UNCHANGED kind
  BY DEF Lose, Over
<1>2. ASSUME NEW u \in Users
      PROVE  WaitsFit(kind, u, page'[u], calls')
  <2> DEFINE p == page[u]
             h == p.held \ C
             after == calls'
  <2>1. WaitsFit(kind, u, p, calls) /\ PageShape(p) /\ IsList(calls)
    BY UserFacts DEF FlagInv, DeskInv, CallsFit
  <2>2. CASE p.waits # i
    <3>1. p.waits # 0 => Stays(calls, after, p.waits)
      <4> SUFFICES ASSUME p.waits # 0 PROVE Stays(calls, after, p.waits)
        OBVIOUS
      <4>1. p.waits \in DOMAIN calls /\ calls[p.waits].stage # "over"
        BY <2>1 DEF WaitsFit
      <4> HIDE DEF p
      <4>2. DOMAIN calls' = DOMAIN calls /\ calls'[p.waits] = calls[p.waits]
        BY <1>1, <2>1, <2>2, <4>1, ListChanged
      <4> QED
        BY <4>1, <4>2 DEF Stays
    <3> HIDE DEF after
    <3>2. WaitsFit(kind, u, p, after)
      BY <2>1, <3>1, WaitsRemain
    <3> QED
      BY <1>1, <2>2, <3>2 DEF after
  <2>3. CASE p.waits = i
    <3>1. \A f \in h : f.cleared # "finish"
      <4> SUFFICES ASSUME NEW f \in h, f.cleared = "finish" PROVE FALSE
        OBVIOUS
      <4>1. FlagAt(kind, calls[i].act) = f
        BY <2>1, <2>3 DEF WaitsFit
      <4> QED
        BY <4>1, ClearedIs
    <3>2. page'[u] = Over(p, h)
      BY <1>1, <2>3
    <3> DEFINE o == Over(p, h)
    <3> HIDE DEF p, h
    <3>3. o.waits = 0 /\ o.held = h
      BY <2>1, VisitOver
    <3> HIDE DEF o
    <3>4. WaitsFit(kind, u, o, after)
      BY <3>1, <3>3 DEF WaitsFit
    <3> QED
      BY <3>2, <3>4 DEF o
  <2> QED
    BY <2>2, <2>3
<1> QED
  BY <1>1, <1>2 DEF FlagInv

--------------------------------------------------------------------------------
\* The theorems

LEMMA DeskSteps ==
    ASSUME DeskInv, FlagInv, [Next]_vars
    PROVE  DeskInv' /\ FlagInv'
<1>1. ASSUME NEW u \in Users, UserNext(u)
      PROVE  DeskInv' /\ FlagInv'
  <2>1. CASE Load(u)
    BY <2>1, LoadStep, LoadFlags
  <2>2. CASE Dismiss(u)
    BY <2>2, DismissStep, DismissFlags
  <2>3. CASE Return(u)
    <3>1. page[u].waits \in DOMAIN calls
      BY <2>3 DEF Return, FlagInv, WaitsFit
    <3> QED
      BY <2>3, <3>1, ReturnStep, ReturnFlags
  <2>4. ASSUME NEW act, Press(u, act)
        PROVE  DeskInv' /\ FlagInv'
    <3>1. PICK form : Send(u, act, form)
      BY <2>4 DEF Press
    <3> QED
      BY <2>4, <3>1, PressStep, SendFlags
  <2>5. ASSUME NEW act, Open(u, act)
        PROVE  DeskInv' /\ FlagInv'
    BY <2>5, OpenStep, OpenFlags
  <2>6. ASSUME NEW form \in Dialog(page[u].shows, page[u].dialog, page[u].key), Confirm(u, form)
        PROVE  DeskInv' /\ FlagInv'
    <3>1. Send(u, page[u].dialog, form)
      BY <2>6 DEF Confirm
    <3> QED
      BY <2>6, <3>1, ConfirmStep, SendFlags
  <2> QED
    BY <1>1, <2>1, <2>2, <2>3, <2>4, <2>5, <2>6 DEF UserNext
<1>2. ASSUME NEW i \in DOMAIN calls, Admit(i) \/ Serve(i) \/ Lose(i)
      PROVE  DeskInv' /\ FlagInv'
  <2>1. CASE Admit(i)
    BY <2>1, AdmitStep, AdmitFlags
  <2>2. CASE Serve(i)
    BY <2>2, ServeStep, ServeFlags
  <2>3. CASE Lose(i)
    BY <2>3, LoseStep, LoseFlags
  <2> QED
    BY <1>2, <2>1, <2>2, <2>3
<1>3. CASE Meanwhile
  <2>1. UNCHANGED <<kind, page, calls>>
    BY <1>3 DEF Meanwhile
  <2>2. FlagInv'
    BY <2>1 DEF FlagInv
  <2> QED
    BY <1>3, <2>2, MeanwhileStep
<1>4. CASE UNCHANGED vars
  BY <1>4 DEF vars, DeskInv, FlagInv
<1> QED
  BY <1>1, <1>2, <1>3, <1>4 DEF Next

\* Whatever users do at their pages and in whatever order their requests are served, the row
\* is sound, and a request that the FormRequest let in still may do what it was permitted to
\* do when the service has the row locked; and a page waits for a request of its own user that
\* is not over.
THEOREM DeskIsSound == Spec => [](DeskInv /\ FlagInv)
<1>1. Init => DeskInv /\ FlagInv
  BY DeskStarts, FlagsStart
<1>2. (DeskInv /\ FlagInv) /\ [Next]_vars => (DeskInv /\ FlagInv)'
  BY DeskSteps
<1> QED
  BY <1>1, <1>2, PTL DEF Spec

\* The recorded approver of a refund, a return or an adjustment is not the one who asked for
\* it, but for a SUPER_ADMIN (the maker-checker tests of the three workflow services).
THEOREM NobodyDecidesAboutHisOwn == Spec => []CheckedByAnother
<1>1. DeskInv => CheckedByAnother
  <2> SUFFICES ASSUME DeskInv, NEW d \in Decisions(row)
               PROVE  ByAnother(d)
    BY DEF CheckedByAnother, ByAnother
  <2>1. CASE kind = "refund"
    BY <2>1 DEF DeskInv, Sound, RefundSound, Decisions
  <2>2. CASE kind = "return"
    BY <2>2 DEF DeskInv, Sound, ReturnSound, Decisions
  <2>3. CASE kind = "adjustment"
    BY <2>3 DEF DeskInv, Sound, AdjustmentSound, Decisions
  <2>4. CASE kind \notin {"refund", "return", "adjustment"}
    BY <2>4 DEF Decisions
  <2> QED
    BY <2>1, <2>2, <2>3, <2>4
<1> QED
  BY <1>1, DeskIsSound, PTL

\* The refunds of a credit note never come to more than its worth: processRefund compares
\* with the balance again, whatever was approved before.
THEOREM RefundsFitTheirCredit == Spec => []CreditNotOverspent
<1>1. DeskInv => CreditNotOverspent
  BY DEF DeskInv, Sound, RefundSound, CreditRows, CreditNotOverspent
<1> QED
  BY <1>1, DeskIsSound, PTL

\* A bill is due for what its payments have not covered, and has the status of that, when
\* PayableLedgerService records and reverses payments from stale pages.
THEOREM BillsAreBalanced == Spec => []BillsAddUp
<1>1. DeskInv => BillsAddUp
  BY DEF DeskInv, Sound, SupplierSound, BillAddsUp, BillsAddUp
<1> QED
  BY <1>1, DeskIsSound, PTL

\* A cheque or money order is recorded once while it is alive: PaymentService looks for its
\* number, whichever page sends it.
THEOREM InstrumentsAreNotDoubled == Spec => []InstrumentRecordedOnce
<1>1. DeskInv => InstrumentRecordedOnce
  BY DEF DeskInv, Sound, PaymentSound, OneAlive, InstrumentRecordedOnce
<1> QED
  BY <1>1, DeskIsSound, PTL

\* An order is reduced by what its applied adjustments say, and what was picked stays
\* (applyAdjustment and reverseAdjustment).
THEOREM OrdersAreReducedAsApplied == Spec => []ReductionsAddUp
<1>1. DeskInv => ReductionsAddUp
  BY DEF DeskInv, Sound, AdjustmentSound, OrderFits, TakenOff, ReductionsAddUp
<1> QED
  BY <1>1, DeskIsSound, PTL

\* A dialog requests one adjustment, and one request at a time waits for a decision
\* (the idempotency key and the open requests that createAdjustmentRequest looks for).
THEOREM AdjustmentsAreRequestedOnce == Spec => []RequestedOnce
<1>1. DeskInv => RequestedOnce
  BY DEF DeskInv, Sound, AdjustmentSound, AllDistinct, RequestedOnce
<1> QED
  BY <1>1, DeskIsSound, PTL

\* Once approved, an order has all that it still orders allocated or picked, but for what
\* the reversals of its adjustments did not allocate again (applyAdjustment releases what is
\* not unallocated, reverseAdjustment allocates what was affected at the request).
THEOREM OrdersStayAllocated == Spec => []AllocatedInFull
<1>1. DeskInv => AllocatedInFull
  BY DEF DeskInv, Sound, AdjustmentSound, Loose, AllocatedInFull
<1> QED
  BY <1>1, DeskIsSound, PTL

\* The row changes and a request that was admitted is answered: it was served.
LEMMA ServedIs ==
    ASSUME DeskInv, [Next]_vars, NEW i \in DOMAIN calls, Serving(i), row' # row
    PROVE  Serve(i)
<1>1. calls[i].stage = "admitted" /\ calls' # calls
  BY DEF Serving
<1>2. PICK j \in DOMAIN calls : Serve(j)
  <2>1. ASSUME NEW u \in Users, UserNext(u)
        PROVE  FALSE
    BY <2>1 DEF UserNext, Load, Dismiss, Return, Press, Open, Confirm, Send
  <2>2. ASSUME NEW j \in DOMAIN calls, Admit(j) \/ Lose(j)
        PROVE  FALSE
    BY <2>2 DEF Admit, Lose
  <2>3. ~Meanwhile /\ ~UNCHANGED vars
    BY <1>1 DEF Meanwhile, vars
  <2> QED
    BY <2>1, <2>2, <2>3 DEF Next
<1>3. \A k \in DOMAIN calls : k # j => calls'[k] = calls[k]
  BY <1>2, ListChanged DEF Serve, Answer, DeskInv, CallsFit
<1> QED
  BY <1>2, <1>3 DEF Serving

\* However stale the page a request comes from, it changes the row only as a page loaded now
\* would invite its user to.
THEOREM StalePagesDoNoHarm == Spec => StaleClicksAreHarmless
<1>1. DeskInv /\ [Next]_vars =>
        [\A i \in DOMAIN calls :
           (Serving(i) /\ row' # row) =>
              LET act == calls[i].act IN
              \/ {act, On(act.verb, 0)} \cap Buttons(row, calls[i].by) # {}
              \/ /\ kind = "delivery" /\ calls[i].by \in Drivers
                 /\ act.verb = "reschedule" \/ act \in Buttons(row, row.driver)]_vars
  <2> SUFFICES ASSUME DeskInv, [Next]_vars, NEW i \in DOMAIN calls, Serving(i), row' # row
               PROVE  Invited(kind, row, calls[i].by, calls[i].act)
    BY DEF Invited
  <2> QED
    BY ServedIs, RowAfter
<1> QED
  BY <1>1, DeskIsSound, PTL DEF Spec, StaleClicksAreHarmless

\* Whoever approves a reduction that takes back allocated goods was shown that it does.
THEOREM ApprovalsAreInformed == Spec => ImpactWasShown
<1>1. DeskInv /\ [Next]_vars =>
        [\A i \in DOMAIN calls :
           (kind = "adjustment" /\ Serving(i) /\ calls[i].act.verb = "approve" /\ row' # row)
              => LET reduction == row.adjustments[calls[i].act.of].reduction IN
                 Encroached(row.order, reduction) > 0 => Encroached(calls[i].seen.order, reduction) > 0]_vars
  <2> SUFFICES ASSUME DeskInv, [Next]_vars, NEW i \in DOMAIN calls, kind = "adjustment", Serving(i),
                      calls[i].act.verb = "approve", row' # row,
                      Encroached(row.order, row.adjustments[calls[i].act.of].reduction) > 0
               PROVE  Encroached(calls[i].seen.order, row.adjustments[calls[i].act.of].reduction) > 0
    OBVIOUS
  <2> DEFINE c == calls[i]
             seen == c.seen
             of == c.act.of
  <2>1. AdjustmentTicked(row, c.act, c.form)
    BY ServedIs, RowAfter
  <2>2. /\ Refers(kind, seen, c.act) /\ Later(kind, seen, row) /\ Fits(kind, seen, c.act, c.form)
    BY CallFacts DEF Serving
  <2> HIDE DEF c
  <2>3. c.form.acknowledged
    BY <2>1 DEF AdjustmentTicked, MustAcknowledge, c
  <2>4. /\ of \in DOMAIN seen.adjustments
        /\ c.form.acknowledged <=> Encroached(seen.order, seen.adjustments[of].reduction) > 0
    BY <2>2 DEF Refers, AdjustmentRefers, Fits, AdjustmentFits, c
  <2>5. row.adjustments[of].reduction = seen.adjustments[of].reduction
    BY <2>2, <2>4 DEF Later, AdjustmentLater
  <2> QED
    BY <2>3, <2>4, <2>5 DEF c
<1> QED
  BY <1>1, DeskIsSound, PTL DEF Spec, ImpactWasShown

--------------------------------------------------------------------------------
\* What pages in date offer, the server does

\* What each role that sees the pages of staff may ask for.
LEMMA RolesOfStaff ==
    ASSUME RolesAssumption, NEW u \in Staff
    PROVE  /\ u \in Supers => RoleOf(u) = "SUPER_ADMIN"
           /\ u \in Admins => RoleOf(u) = "ADMIN"
           /\ u \in Accountants => RoleOf(u) = "ACCOUNTANT"
           /\ u \in Supers \cup Admins \cup Accountants
BY DEF RoleOf, Staff, RolesAssumption

LEMMA StaffMay ==
    ASSUME RolesAssumption, NEW u \in Staff
    PROVE  /\ \A p \in {"refund.request", "refund.approve", "payable.manage", "return.review"} : Has(u, p)
           /\ u \notin Accountants => \A p \in {"return.request", "return.approve"} : Has(u, p)
<1>1. CASE u \in Supers
  BY <1>1, RolesOfStaff DEF Has, PermissionsOf, Permissions, AdminPermissions
<1>2. CASE u \in Admins
  BY <1>2, RolesOfStaff DEF Has, PermissionsOf, AdminPermissions
<1>3. CASE u \in Accountants
  BY <1>3, RolesOfStaff DEF Has, PermissionsOf, AccountantPermissions
<1> QED
  BY <1>1, <1>2, <1>3, RolesOfStaff

\* What a page offers on a row, its service permits and does, but for what is named with
\* the pages (one lemma for each page).
LEMMA PaymentOffers ==
    ASSUME NEW r, NEW u, NEW act \in PaymentButtons(r, u), NEW form \in PaymentDialog(act)
    PROVE  /\ PaymentAllowed(r, u, act)
           /\ PaymentServed(r, u, act, form).answer # "done" => PaymentOverpromised(r, act, form)
<1>1. CASE act \in PaymentHeader(u)
  <2>1. act.verb = "record" /\ Has(u, "payment.create")
    BY <1>1 DEF PaymentHeader, Offer, On
  <2>2. form \in InstrumentFields
    BY <2>1 DEF PaymentDialog, RecordPaymentDialog
  <2>3. form.number = 0 \/ (form.number # 0)
    OBVIOUS
  <2> DEFINE next == [r EXCEPT !.payments = Append(@, NewPayment(u, form.number))]
             formed == (form.number = 0 \/ form.scan) /\ ~NumberTaken(r, form.number)
  <2>4. PaymentServed(r, u, act, form) = Checked(r, formed, TRUE, next)
    BY <2>1 DEF PaymentServed
  <2>5. formed => PaymentServed(r, u, act, form).answer = "done"
    <3> HIDE DEF formed, next
    <3> QED
      BY <2>4 DEF Checked, Reply
  <2>6. ~formed => PaymentOverpromised(r, act, form)
    BY <2>1, <2>2 DEF PaymentOverpromised, NumberTaken, InstrumentFields
  <2> QED
    BY <2>1, <2>5, <2>6 DEF PaymentAllowed
<1>2. ASSUME NEW i \in DOMAIN r.payments, act \in PaymentTable(r.payments[i], i, u)
      PROVE  /\ PaymentAllowed(r, u, act)
             /\ PaymentServed(r, u, act, form).answer # "done" => PaymentOverpromised(r, act, form)
  <2>1. /\ act.of = i /\ act.verb \in {"verify", "reject", "reverse"}
        /\ act.verb \in {"verify", "reject"} =>
              Pending(r.payments[i]) /\ Has(u, "payment.verify")
        /\ act.verb = "reverse" => r.payments[i].status = "VERIFIED" /\ Has(u, "payment.reverse")
    BY <1>2 DEF PaymentTable, Offer, On, Pending
  <2>2. act.verb # "verify" => form.notes \in Texts
    BY <2>1 DEF PaymentDialog, RejectPaymentDialog, ReversePaymentDialog
  <2> DEFINE status == CASE act.verb = "verify" -> "VERIFIED" [] act.verb = "reject" -> "REJECTED"
                         [] act.verb = "reverse" -> "REVERSED"
             next == Decided(r, u, i, status)
             formed == act.verb = "verify" \/ form.notes = "enough"
             possible == IF act.verb = "reverse" THEN r.payments[i].status = "VERIFIED"
                         ELSE Pending(r.payments[i])
  <2>3. PaymentServed(r, u, act, form) = Checked(r, formed, possible, next)
    BY <2>1 DEF PaymentServed
  <2>4. formed => PaymentServed(r, u, act, form).answer = "done"
    <3>1. possible
      BY <2>1
    <3> HIDE DEF formed, next, possible
    <3> QED
      BY <2>3, <3>1 DEF Checked, Reply
  <2>5. ~formed => PaymentOverpromised(r, act, form)
    BY <2>1, <2>2 DEF PaymentOverpromised, Texts
  <2> QED
    BY <2>1, <2>4, <2>5 DEF PaymentAllowed
<1>3. \/ act \in PaymentHeader(u)
      \/ \E i \in DOMAIN r.payments : act \in PaymentTable(r.payments[i], i, u)
  BY DEF PaymentButtons, PaymentCards
<1> QED
  BY <1>1, <1>2, <1>3

LEMMA RefundOffers ==
    ASSUME RolesAssumption, MoneyAssumption, NEW r, RefundSound(r), NEW u \in Staff,
           NEW act \in CreditButtons(r, u), NEW form \in RefundDialog(r, act)
    PROVE  /\ ~RefundAllowed(r, u, act) => RefundOverpromised(r, u, act)
           /\ RefundServed(r, u, act, form).answer # "done" => RefundOverpromised(r, u, act)
<1>0. r \in CreditRows
  BY DEF RefundSound
<1>1. CASE act \in CreditHeader(r)
  <2>1. act.verb = "request" /\ r.remaining > 0
    BY <1>1 DEF CreditHeader, Offer, On
  <2>2. form \in RequestRefundDialog(r)
    BY <2>1 DEF RefundDialog
  <2>3. form.amount <= r.remaining
    BY <1>0, <2>2 DEF RequestRefundDialog, CreditRows
  <2> DEFINE next == [r EXCEPT !.refunds = Append(@, NewRefund(u, form.amount))]
             formed == r.remaining > 0 /\ form.amount <= r.remaining
  <2>4. RefundServed(r, u, act, form) = Checked(r, formed, TRUE, next)
    BY <2>1 DEF RefundServed
  <2>5. RefundServed(r, u, act, form).answer = "done"
    <3>1. formed
      BY <2>1, <2>3
    <3> HIDE DEF formed, next
    <3> QED
      BY <2>4, <3>1 DEF Checked, Reply
  <2> QED
    BY <2>1, <2>5, StaffMay DEF RefundAllowed
<1>2. ASSUME NEW i \in DOMAIN r.refunds, act \in RefundToolbar(r.refunds[i], i, u)
      PROVE  /\ ~RefundAllowed(r, u, act) => RefundOverpromised(r, u, act)
             /\ RefundServed(r, u, act, form).answer # "done" => RefundOverpromised(r, u, act)
  <2> DEFINE d == r.refunds[i]
  <2>1. /\ act.of = i /\ act.verb \in {"review", "approve", "reject", "cancel", "process"}
        /\ act.verb = "review"  => d.status = "REQUESTED"
        /\ act.verb = "approve" => UndecidedRefund(d) /\ MakerChecker(u, d)
        /\ act.verb = "reject"  => UndecidedRefund(d)
        /\ act.verb = "cancel"  => UndecidedRefund(d) \/ d.status = "APPROVED"
        /\ act.verb = "process" => d.status = "APPROVED"
    BY <1>2 DEF RefundToolbar, Offer, On, UndecidedRefund, MakerChecker
  <2>2. d.amount \in Int /\ r.remaining \in Int
    BY <1>0, <1>2, AmountOfRefund DEF CreditRows
  <2>3. ~RefundAllowed(r, u, act) => RefundOverpromised(r, u, act)
    <3> HIDE DEF d
    <3>1. d = r.refunds[act.of] /\ Has(u, "refund.approve")
      BY <2>1, StaffMay DEF d
    <3>2. act.verb = "cancel" /\ ~(d.maker = u \/ u \in Supers \cup Admins) => u \in Accountants
      BY RolesOfStaff
    <3> QED
      BY <2>1, <3>1, <3>2 DEF RefundAllowed, RefundOverpromised
  <2>4. CASE act.verb = "process"
    <3> DEFINE next == [[r EXCEPT !.refunds[i].status = "PROCESSED"] EXCEPT !.remaining = @ - d.amount]
               possible == d.status = "APPROVED" /\ Covers(r, d)
    <3>1. RefundServed(r, u, act, form) = Checked(r, TRUE, possible, next)
      BY <2>1, <2>4 DEF RefundServed
    <3>2. Covers(r, d) => RefundServed(r, u, act, form).answer = "done"
      <4>1. Covers(r, d) => possible
        BY <2>1, <2>4
      <4> HIDE DEF next, possible
      <4> QED
        BY <3>1, <4>1 DEF Checked, Reply
    <3>3. ~Covers(r, d) => RefundOverpromised(r, u, act)
      BY <2>1, <2>2, <2>4 DEF Covers, RefundOverpromised
    <3> QED
      BY <2>3, <3>2, <3>3
  <2>5. CASE act.verb # "process"
    <3> DEFINE possible == CASE act.verb = "review" -> d.status = "REQUESTED"
                             [] act.verb = "approve" -> UndecidedRefund(d) /\ Covers(r, d)
                             [] act.verb \in {"reject", "cancel"} -> UndecidedRefund(d)
    <3>1. PICK next : RefundServed(r, u, act, form) = Checked(r, TRUE, possible, next)
      <4>1. CASE act.verb = "review"
        BY <2>1, <4>1 DEF RefundServed
      <4>2. CASE act.verb = "approve"
        BY <2>1, <4>2 DEF RefundServed
      <4>3. CASE act.verb = "reject"
        BY <2>1, <4>3 DEF RefundServed
      <4>4. CASE act.verb = "cancel"
        BY <2>1, <4>4 DEF RefundServed
      <4> QED
        BY <2>1, <2>5, <4>1, <4>2, <4>3, <4>4
    <3>2. possible => RefundServed(r, u, act, form).answer = "done"
      <4> HIDE DEF possible
      <4> QED
        BY <3>1 DEF Checked, Reply
    <3>3. ~possible => RefundOverpromised(r, u, act)
      <4>1. CASE act.verb = "review"
        BY <2>1, <4>1
      <4>2. CASE act.verb = "approve"
        BY <2>1, <2>2, <4>2 DEF Covers, RefundOverpromised
      <4>3. CASE act.verb = "reject"
        BY <2>1, <4>3
      <4>4. CASE act.verb = "cancel"
        BY <2>1, <4>4 DEF RefundOverpromised
      <4> QED
        BY <2>1, <2>5, <4>1, <4>2, <4>3, <4>4
    <3> QED
      BY <2>3, <3>2, <3>3
  <2> QED
    BY <2>4, <2>5
<1>3. \/ act \in CreditHeader(r)
      \/ \E i \in DOMAIN r.refunds : act \in RefundToolbar(r.refunds[i], i, u)
  BY DEF CreditButtons
<1> QED
  BY <1>1, <1>2, <1>3

LEMMA SupplierOffers ==
    ASSUME RolesAssumption, MoneyAssumption, NEW r, SupplierSound(r), NEW u \in Staff,
           NEW act \in SupplierButtons(r, u), NEW form \in SupplierDialog(r, act)
    PROVE  /\ SupplierAllowed(r, u, act)
           /\ SupplierServed(r, u, act, form).answer # "done" => SupplierOverpromised(r, act, form)
<1>0. Has(u, "payable.manage") /\ r \in SupplierRows
  BY StaffMay DEF SupplierSound
<1>1. CASE act.verb = "bill"
  <2>1. PICK next : SupplierServed(r, u, act, form) = Reply(next, "done")
    BY <1>1 DEF SupplierServed
  <2> QED
    BY <1>0, <1>1, <2>1 DEF SupplierAllowed, Reply
<1>2. CASE act.verb = "post"
  <2>1. PICK next : SupplierServed(r, u, act, form) = Reply(next, "done")
    BY <1>2 DEF SupplierServed
  <2> QED
    BY <1>0, <1>2, <2>1 DEF SupplierAllowed, Reply
<1>3. CASE act.verb = "pay"
  <2> DEFINE bill == r.bills[form.bill]
             formed == form.bill = 0 \/ (Payable(bill) /\ form.amount <= bill.due)
             next == recordSupplierPayment(r, form)
  <2>1. form \in PaySupplierDialog(r)
    BY <1>3 DEF SupplierDialog
  <2>2. form.bill # 0 => /\ form.bill \in DOMAIN r.bills /\ Payable(bill)
                         /\ form.amount \in 1..MaxAmount
    BY <2>1 DEF PaySupplierDialog, Payable
  <2>3. form.bill # 0 => bill.due \in Int /\ form.amount \in Int
    <3> SUFFICES ASSUME form.bill # 0 PROVE bill.due \in Int /\ form.amount \in Int
      OBVIOUS
    <3>1. r.bills \in Seq(BillDocument) /\ form.bill \in DOMAIN r.bills
      BY <1>0, <2>2 DEF SupplierRows
    <3>2. bill \in BillDocument
      <4> DEFINE q == r.bills
                 b == form.bill
      <4>1. q \in Seq(BillDocument) /\ b \in DOMAIN q
        BY <3>1
      <4> HIDE DEF q, b
      <4>2. q[b] \in BillDocument
        BY <4>1
      <4> QED
        BY <4>2 DEF q, b
    <3> HIDE DEF bill
    <3> QED
      BY <2>2, <3>2 DEF BillDocument, MoneyAssumption
  <2>4. SupplierServed(r, u, act, form) = Checked(r, formed, TRUE, next)
    BY <1>3 DEF SupplierServed
  <2>5. formed => SupplierServed(r, u, act, form).answer = "done"
    <3> HIDE DEF formed, next
    <3> QED
      BY <2>4 DEF Checked, Reply
  <2>6. ~formed => SupplierOverpromised(r, act, form)
    BY <1>3, <2>2, <2>3 DEF SupplierOverpromised
  <2> QED
    BY <1>0, <1>3, <2>5, <2>6 DEF SupplierAllowed
<1>4. CASE act.verb = "reverse"
  <2> DEFINE formed == form.reason = "enough" /\ r.payments[act.of].status = "COMPLETED"
             next == recordPaymentReversal(r, act.of)
  <2>1. form.reason \in Texts
    BY <1>4 DEF SupplierDialog, ReverseSupplierPaymentDialog
  <2>2. r.payments[act.of].status = "COMPLETED"
    <3>1. PICK i \in DOMAIN r.payments : act \in PaymentsTab(r.payments[i], i)
      BY <1>4 DEF SupplierButtons, SupplierHeader, BillsTab, Offer, On
    <3> QED
      BY <3>1 DEF PaymentsTab, Offer, On
  <2>3. SupplierServed(r, u, act, form) = Checked(r, formed, TRUE, next)
    BY <1>4 DEF SupplierServed
  <2>4. formed => SupplierServed(r, u, act, form).answer = "done"
    <3> HIDE DEF formed, next
    <3> QED
      BY <2>3 DEF Checked, Reply
  <2>5. ~formed => SupplierOverpromised(r, act, form)
    BY <1>4, <2>1, <2>2 DEF SupplierOverpromised, Texts
  <2> QED
    BY <1>0, <2>2, <2>4, <2>5 DEF SupplierAllowed
<1> QED
  BY <1>1, <1>2, <1>3, <1>4, SuppliersOffered DEF SupplierRefers, Verbs

LEMMA OrderOffers ==
    ASSUME NEW r, NEW u, NEW act \in OrderButtons(r, u),
           NEW form, act.verb = "reject" => form \in RejectOrderModal
    PROVE  OrderAllowed(r, u, act) /\ OrderServed(r, u, act, form).answer = "done"
<1>1. /\ act.verb \in {"approve", "reject"} /\ r.status = "SUBMITTED" /\ Reviews(u)
      /\ act.verb = "approve" => ~r.blocked
  BY DEF OrderButtons, Offer, On
<1>2. CASE act.verb = "approve"
  <2> DEFINE next == [r EXCEPT !.status = "APPROVED"]
             formed == ~r.blocked \/ r.status # "SUBMITTED"
             open == r.status = "SUBMITTED"
  <2>1. OrderServed(r, u, act, form) = Checked(r, formed, open, next) /\ formed /\ open
    BY <1>1, <1>2 DEF OrderServed
  <2> HIDE DEF next, formed, open
  <2> QED
    BY <1>1, <2>1 DEF Checked, Reply, OrderAllowed
<1>3. CASE act.verb = "reject"
  <2> DEFINE next == [r EXCEPT !.status = "REJECTED"]
             formed == form.reason = "enough"
             open == Rejectable(r)
  <2>1. OrderServed(r, u, act, form) = Checked(r, formed, open, next) /\ formed /\ open
    BY <1>1, <1>3 DEF OrderServed, RejectOrderModal, Rejectable
  <2> HIDE DEF next, formed, open
  <2> QED
    BY <1>1, <2>1 DEF Checked, Reply, OrderAllowed
<1> QED
  BY <1>1, <1>2, <1>3

LEMMA ReturnOffers ==
    ASSUME RolesAssumption, FloorAssumption, NEW r, ReturnSound(r), NEW u \in Staff,
           NEW act \in ReturnButtons(r, u), NEW form \in ReturnDialog(r, act)
    PROVE  /\ ~ReturnAllowed(r, u, act) => ReturnOverpromised(r, u, act, form)
           /\ ReturnServed(r, u, act, form).answer # "done" => ReturnOverpromised(r, u, act, form)
<1>1. /\ act.verb \in {"inspect", "approve", "reject", "cancel"}
      /\ act.verb \in {"inspect", "cancel"} => r.status = "REQUESTED"
      /\ act.verb = "approve" => r.status = "INSPECTED"
      /\ act.verb = "reject" => Undecided(r)
  BY DEF ReturnButtons, Offer, On
<1>2. ~ReturnAllowed(r, u, act) => ReturnOverpromised(r, u, act, form)
  BY <1>1, StaffMay DEF ReturnAllowed, ReturnOverpromised
<1>3. CASE act.verb = "inspect"
  <2> DEFINE next == [r EXCEPT !.status = "INSPECTED", !.received = form.received]
             open == r.status = "REQUESTED"
  <2>1. ReturnServed(r, u, act, form) = Checked(r, TRUE, open, next) /\ open
    BY <1>1, <1>3 DEF ReturnServed
  <2> HIDE DEF next, open
  <2> QED
    BY <1>2, <2>1 DEF Checked, Reply
<1>4. CASE act.verb = "cancel"
  <2> DEFINE next == [r EXCEPT !.status = "CANCELLED"]
             open == r.status = "REQUESTED"
  <2>1. ReturnServed(r, u, act, form) = Checked(r, TRUE, open, next) /\ open
    BY <1>1, <1>4 DEF ReturnServed
  <2> HIDE DEF next, open
  <2> QED
    BY <1>2, <2>1 DEF Checked, Reply
<1>5. CASE act.verb = "reject"
  <2> DEFINE next == [r EXCEPT !.status = "REJECTED"]
             formed == form.reason = "enough" /\ MakerChecker(u, r)
             open == Undecided(r)
  <2>1. ReturnServed(r, u, act, form) = Checked(r, formed, open, next) /\ open
    BY <1>1, <1>5 DEF ReturnServed
  <2>2. ~formed => ReturnOverpromised(r, u, act, form)
    BY <1>5 DEF ReturnOverpromised, ReturnDialog, handleReject
  <2>3. formed => ReturnServed(r, u, act, form).answer = "done"
    <3> HIDE DEF next, formed, open
    <3> QED
      BY <2>1 DEF Checked, Reply
  <2> QED
    BY <1>2, <2>2, <2>3
<1>6. CASE act.verb = "approve"
  <2> DEFINE next == [r EXCEPT !.status = "APPROVED", !.accepted = form.good + form.damaged,
                               !.left = @ - (form.good + form.damaged), !.checker = u]
             fits == /\ form.good + form.damaged + form.rejected = r.received
                     /\ form.good + form.damaged <= r.left
             formed == MakerChecker(u, r) /\ (r.status = "INSPECTED" => fits)
             open == r.status = "INSPECTED"
  <2>1. ReturnServed(r, u, act, form) = Checked(r, formed, open, next) /\ open
    BY <1>1, <1>6 DEF ReturnServed, approveReturn
  <2>2. form \in ApproveReturnModal(r)
    BY <1>6 DEF ReturnDialog
  <2>3. /\ form.good + form.damaged \in Int /\ r.left \in Int
        /\ form.good + form.damaged + form.rejected = r.received
    BY <2>2 DEF ApproveReturnModal, ReturnSound, ReturnDocument, FloorAssumption
  <2>4. ~formed => ReturnOverpromised(r, u, act, form)
    BY <1>6, <2>1, <2>3 DEF ReturnOverpromised
  <2>5. formed => ReturnServed(r, u, act, form).answer = "done"
    <3> HIDE DEF next, formed, open
    <3> QED
      BY <2>1 DEF Checked, Reply
  <2> QED
    BY <1>2, <2>4, <2>5
<1> QED
  BY <1>1, <1>3, <1>4, <1>5, <1>6

LEMMA ExceptionOffers ==
    ASSUME NEW r, NEW u, NEW act \in ExceptionTable(r, u), NEW form \in ResolveDialog \cup DismissDialog
    PROVE  /\ ExceptionAllowed(r, u, act)
           /\ ExceptionServed(r, u, act, form).answer # "done" => form.text = "short"
<1>1. r.status = "PENDING_REVIEW" /\ Has(u, "inventory.adjust")
  BY DEF ExceptionTable, Offer
<1> DEFINE next == [r EXCEPT !.status = IF act.verb = "resolve" THEN "RESOLVED" ELSE "DISMISSED"]
           formed == form.text = "enough"
           open == r.status = "PENDING_REVIEW"
<1>2. ExceptionServed(r, u, act, form) = Checked(r, formed, open, next) /\ open
  BY <1>1 DEF ExceptionServed
<1>3. formed \/ form.text = "short"
  BY DEF ResolveDialog, DismissDialog
<1> HIDE DEF next, formed, open
<1> QED
  BY <1>1, <1>2, <1>3 DEF Checked, Reply, ExceptionAllowed

LEMMA DeliveryOffers ==
    ASSUME NEW r, NEW u, NEW act \in DeliveryButtons(r, u), NEW form
    PROVE  /\ DeliveryAllowed(r, u, act)
           /\ DeliveryServed(r, u, act, form).answer # "done" => DeliveryOverpromised(r, act)
<1>1. CASE act \in ActionBar(r) /\ r.driver = u
  <2>1. \/ \E verb \in DriverVerbs : act \in Offer(1, {verb}, r.status \in From(verb))
        \/ act \in Offer(1, {"reschedule"}, r.status \in From("reschedule") /\ r.status # "ASSIGNED")
    BY <1>1 DEF ActionBar
  <2>2. act.verb \in DriverVerbs /\ r.status \in From(act.verb)
    BY <2>1 DEF Offer, On, DriverVerbs
  <2>3. act.verb # "assign"
    BY <2>2 DEF DriverVerbs
  <2> DEFINE next == Moved(r, act.verb)
             open == r.status \in From(act.verb)
  <2>4. /\ open
        /\ \/ DeliveryServed(r, u, act, form) = Reply(r, "done")
           \/ DeliveryServed(r, u, act, form) = Checked(r, TRUE, open, next)
    BY <2>2, <2>3 DEF DeliveryServed
  <2>5. DeliveryServed(r, u, act, form).answer = "done"
    <3> HIDE DEF next, open
    <3> QED
      BY <2>4 DEF Checked, Reply
  <2> QED
    BY <1>1, <2>3, <2>5 DEF DeliveryAllowed
<1>2. CASE act \in DispatchTable(r, u)
  <2>1. act.verb = "assign" /\ Has(u, "delivery.assign")
    BY <1>2 DEF DispatchTable, Offer, On
  <2> DEFINE next == IF r.status \in {"ASSIGNED", "RESCHEDULED", "RETURNED_TO_WAREHOUSE"}
                     THEN [r EXCEPT !.status = "ASSIGNED", !.driver = form.driver] ELSE r
             formed == r.open => r.shelf
             open == r.open
  <2>2. DeliveryServed(r, u, act, form) = Checked(r, formed, open, next)
    BY <2>1 DEF DeliveryServed, assignOrder
  <2>3. formed /\ open => DeliveryServed(r, u, act, form).answer = "done"
    <3> HIDE DEF next, formed, open
    <3> QED
      BY <2>2 DEF Checked, Reply
  <2>4. ~(formed /\ open) => DeliveryOverpromised(r, act)
    BY <2>1 DEF DeliveryOverpromised
  <2> QED
    BY <2>1, <2>3, <2>4 DEF DeliveryAllowed
<1> QED
  BY <1>1, <1>2 DEF DeliveryButtons

\* What the page offers on an adjustment.
LEMMA AdjustmentOffered ==
    ASSUME NEW r, NEW u, NEW act \in AdjustmentButtons(r, u), act.verb # "request"
    PROVE  LET d == r.adjustments[act.of] IN
           /\ act.of \in DOMAIN r.adjustments
           /\ act.verb = "withdraw" => d.status = "SUBMITTED" /\ (d.maker = u \/ u \in Supers \cup Admins)
           /\ act.verb \in {"approve", "reject"} =>
                 d.status = "SUBMITTED" /\ Has(u, "order.adjust.approve") /\ MakerChecker(u, d)
           /\ act.verb = "approve" => evaluate(r.order, d) \in {"READY", "WARNING_ALLOCATION"}
           /\ act.verb = "apply" => d.status = "APPROVED" /\ Has(u, "order.adjust.apply")
           /\ act.verb = "reverse" => Has(u, "order.adjust.reverse") /\ MakerChecker(u, d)
           /\ act.verb \in {"apply", "reverse"} => evaluate(r.order, d) # "INELIGIBLE_LIFECYCLE"
<1>1. ~(act \in OrderHeader(r, u))
  BY DEF OrderHeader, Offer, On
<1>2. PICK i \in DOMAIN r.adjustments : \/ act \in PendingAdjustmentBanner(r.adjustments[i], i, u)
                                        \/ act \in HeaderActions(r.order, r.adjustments[i], i, u)
  BY <1>1 DEF AdjustmentButtons
<1> DEFINE d == r.adjustments[i]
           o == r.order
           verdict == evaluate(o, d)
<1>3. act \in PendingAdjustmentBanner(d, i, u) \/ act \in HeaderActions(o, d, i, u)
  BY <1>2
<1> HIDE DEF d, o
<1>4. act.of = i
  BY <1>3 DEF PendingAdjustmentBanner, HeaderActions, Offer, On
<1>5. CASE act \in PendingAdjustmentBanner(d, i, u)
  <2>1. act.verb = "withdraw" /\ d.status = "SUBMITTED" /\ (d.maker = u \/ u \in Supers \cup Admins)
    BY <1>5 DEF PendingAdjustmentBanner, Offer, On
  <2> QED
    BY <1>4, <2>1 DEF d
<1>6. CASE act \in HeaderActions(o, d, i, u)
  <2> HIDE DEF verdict
  <2>1. /\ act.verb \in {"approve", "reject", "apply", "reverse"}
        /\ act.verb \in {"approve", "reject"} =>
              d.status = "SUBMITTED" /\ Has(u, "order.adjust.approve") /\ MakerChecker(u, d)
        /\ act.verb = "approve" => verdict \in {"READY", "WARNING_ALLOCATION"}
        /\ act.verb = "apply" => d.status = "APPROVED" /\ Has(u, "order.adjust.apply")
        /\ act.verb = "reverse" => Has(u, "order.adjust.reverse") /\ MakerChecker(u, d)
        /\ act.verb \in {"apply", "reverse"} => verdict # "INELIGIBLE_LIFECYCLE"
    BY <1>6 DEF HeaderActions, Offer, On, verdict
  <2> QED
    BY <1>4, <2>1 DEF d, o, verdict
<1> QED
  BY <1>3, <1>5, <1>6

LEMMA AdjustmentOffersRequest ==
    ASSUME AdjustmentAssumption, NEW r, AdjustmentSound(r), NEW u \in Users,
           NEW act \in AdjustmentButtons(r, u), act.verb = "request",
           NEW n, NEW form \in RequestAdjustmentModal(r, n)
    PROVE  /\ AdjustmentAllowed(r, u, act)
           /\ AdjustmentServed(r, u, act, form).answer # "done" => AdjustmentOverpromised(r, act, form)
<1> DEFINE o == r.order
<1>1. Has(u, "order.adjust.request") /\ Eligible(o) /\ ~o.pending
  <2>1. act \in OrderHeader(r, u)
    BY DEF AdjustmentButtons, PendingAdjustmentBanner, HeaderActions, Offer, On
  <2> QED
    BY <2>1 DEF OrderHeader, Offer
<1>2. form.reduction <= fulfillableQuantity(o)
  <2>1. fulfillableQuantity(o) \in Int
    <3>1. OrderFits(o)
      BY DEF AdjustmentSound
    <3> HIDE DEF o
    <3>2. fulfillableQuantity(o) = MaxOrdered - o.cancelled /\ MaxOrdered \in Nat /\ o.cancelled \in Nat
      BY <3>1, QuantitiesOfOrder
    <3> QED
      BY <3>2
  <2> QED
    BY <2>1 DEF RequestAdjustmentModal
<1>3. CASE \E i \in DOMAIN r.adjustments :
             r.adjustments[i].status = "SUBMITTED" \/ r.adjustments[i].key = form.key
  BY <1>1, <1>3 DEF AdjustmentOverpromised, AdjustmentAllowed
<1>4. CASE \A i \in DOMAIN r.adjustments :
             r.adjustments[i].status # "SUBMITTED" /\ r.adjustments[i].key # form.key
  <2> DEFINE made == NewAdjustment(u, form.reduction, Encroached(o, form.reduction), o.version, form.key)
             next == [r EXCEPT !.adjustments = Append(@, made), !.order.pending = TRUE]
             fits == form.reduction <= fulfillableQuantity(o)
  <2>1. {i \in DOMAIN r.adjustments : r.adjustments[i].key = form.key} = {} /\ ~OneWaits(r)
    BY <1>1, <1>4 DEF OneWaits
  <2>2. AdjustmentServed(r, u, act, form) = Checked(r, fits, TRUE, next)
    BY <1>1, <2>1 DEF AdjustmentServed, createAdjustmentRequest
  <2>3. fits
    BY <1>2
  <2> HIDE DEF next, fits
  <2> QED
    BY <1>1, <2>2, <2>3 DEF Checked, Reply, AdjustmentAllowed
<1> QED
  BY <1>3, <1>4

LEMMA AdjustmentOffersApproval ==
    ASSUME AdjustmentAssumption, NEW r, AdjustmentSound(r), NEW u \in Users,
           NEW act \in AdjustmentButtons(r, u), act.verb = "approve",
           NEW form \in ApproveAdjustmentModal(r, act.of)
    PROVE  AdjustmentServed(r, u, act, form).answer # "done" => AdjustmentOverpromised(r, act, form)
<1> DEFINE i == act.of
           d == r.adjustments[i]
           o == r.order
           released == Encroached(o, d.reduction)
<1>1. i \in DOMAIN r.adjustments /\ d.status = "SUBMITTED" /\ evaluate(o, d) \in {"READY", "WARNING_ALLOCATION"}
  BY AdjustmentOffered
<1>2. o \in OrderRow /\ d \in AdjustmentDocument /\ released \in Nat
  <2>1. OrderFits(o) /\ o \in OrderRow /\ r.adjustments \in Seq(AdjustmentDocument)
    BY DEF AdjustmentSound, AdjustmentRows, OrderFits
  <2> DEFINE q == r.adjustments
  <2> HIDE DEF i, q
  <2>2. q[i] \in AdjustmentDocument
    BY <1>1, <2>1 DEF q
  <2>3. d.reduction \in 1..MaxOrdered
    BY <2>2 DEF q, AdjustmentDocument
  <2> DEFINE n == d.reduction
  <2> HIDE DEF n, o
  <2>4. Encroached(o, n) \in 0..MaxOrdered
    BY <2>1, <2>3, EncroachedIs DEF n
  <2> QED
    BY <2>1, <2>2, <2>4 DEF q, n, AdjustmentAssumption
<1>3. CASE d.version # o.version
  <2>1. released > 0
    <3> SUFFICES ASSUME released = 0 PROVE FALSE
      BY <1>2
    <3>1. evaluate(o, d) \notin {"READY", "WARNING_ALLOCATION"}
      <4> DEFINE fulfillable == fulfillableQuantity(o)
                 shelf == o.shelf
      <4> HIDE DEF d, o, released, fulfillable, shelf
      <4> QED
        BY <1>3 DEF evaluate, released
    <3> QED
      BY <1>1, <3>1
  <2> QED
    BY <1>3, <2>1 DEF AdjustmentOverpromised
<1>4. CASE d.version = o.version
  <2> DEFINE next == [Becomes(r, i, "APPROVED") EXCEPT !.adjustments[i].checker = u, !.order.pending = TRUE]
             ticked == MustAcknowledge(o, d) => form.acknowledged
             ready == /\ d.status = "SUBMITTED"
                      /\ d.version = o.version
                      /\ evaluate(o, d) \in {"READY", "WARNING_ALLOCATION"}
  <2>0. AdjustmentServed(r, u, act, form) =
           IF ~ready THEN Reply(r, "conflict") ELSE Checked(r, ticked, TRUE, next)
    BY DEF AdjustmentServed, approveAdjustment
  <2>1. AdjustmentServed(r, u, act, form) = Checked(r, ticked, TRUE, next)
    <3>1. ready
      BY <1>1, <1>4
    <3> HIDE DEF ready, ticked, next
    <3> QED
      BY <2>0, <3>1
  <2>2. ticked
    <3>1. form.acknowledged = (released > 0)
      <4> DEFINE touched == released > 0
      <4>1. form \in {[acknowledged |-> touched]}
        BY DEF ApproveAdjustmentModal
      <4> HIDE DEF touched
      <4>2. form = [acknowledged |-> touched]
        BY <4>1, Zenon
      <4>3. form.acknowledged = touched
        BY <4>2, Zenon
      <4> QED
        BY <4>3 DEF touched
    <3>2. MustAcknowledge(o, d) = (released > 0)
      BY DEF MustAcknowledge
    <3> QED
      BY <3>1, <3>2, Zenon
  <2> HIDE DEF ticked, next
  <2> QED
    BY <2>1, <2>2 DEF Checked, Reply
<1> QED
  BY <1>3, <1>4

LEMMA AdjustmentOffersOther ==
    ASSUME AdjustmentAssumption, NEW r, AdjustmentSound(r), NEW u \in Users,
           NEW act \in AdjustmentButtons(r, u), act.verb \in {"withdraw", "reject", "apply", "reverse"},
           NEW form, act.verb \in {"reject", "reverse"} => form.reason = "enough"
    PROVE  AdjustmentServed(r, u, act, form).answer # "done" => AdjustmentOverpromised(r, act, form)
<1> DEFINE i == act.of
           d == r.adjustments[i]
           o == r.order
           released == Encroached(o, d.reduction)
<1>1. CASE act.verb = "withdraw"
  <2> DEFINE open == d.status = "SUBMITTED"
  <2>1. PICK next : AdjustmentServed(r, u, act, form) = Checked(r, TRUE, open, next)
    BY <1>1 DEF AdjustmentServed, withdrawAdjustmentRequest
  <2>2. open
    BY <1>1, AdjustmentOffered
  <2> HIDE DEF open
  <2> QED
    BY <2>1, <2>2 DEF Checked, Reply
<1>2. CASE act.verb = "reject"
  <2> DEFINE open == d.status = "SUBMITTED"
             formed == form.reason = "enough"
  <2>1. PICK next : AdjustmentServed(r, u, act, form) = Checked(r, formed, open, next)
    BY <1>2 DEF AdjustmentServed, rejectAdjustment
  <2>2. open /\ formed
    BY <1>2, AdjustmentOffered
  <2> HIDE DEF open, formed
  <2> QED
    BY <2>1, <2>2 DEF Checked, Reply
<1>3. CASE act.verb = "apply"
  <2> DEFINE open == /\ d.status = "APPROVED" /\ Eligible(o)
                     /\ d.reduction <= fulfillableQuantity(o)
                     /\ released <= o.shelf
  <2>1. PICK next : AdjustmentServed(r, u, act, form) = Checked(r, TRUE, open, next)
    BY <1>3 DEF AdjustmentServed, applyAdjustment
  <2>2. open => AdjustmentServed(r, u, act, form).answer = "done"
    <3> HIDE DEF open
    <3> QED
      BY <2>1 DEF Checked, Reply
  <2>3. i \in DOMAIN r.adjustments /\ d.status = "APPROVED" /\ Eligible(o)
    <3>1. evaluate(o, d) # "INELIGIBLE_LIFECYCLE" /\ i \in DOMAIN r.adjustments /\ d.status = "APPROVED"
      BY <1>3, AdjustmentOffered
    <3> HIDE DEF d, o
    <3> QED
      BY <3>1 DEF evaluate
  <2>4. /\ d.reduction \in Int /\ fulfillableQuantity(o) \in Int /\ released \in Int /\ o.shelf \in Int
    <3>1. o \in OrderRow /\ OrderFits(o) /\ r.adjustments \in Seq(AdjustmentDocument)
      BY DEF AdjustmentSound, AdjustmentRows, OrderFits
    <3> DEFINE q == r.adjustments
    <3> HIDE DEF i, q
    <3>2. q[i] \in AdjustmentDocument
      BY <2>3, <3>1 DEF q
    <3>3. d.reduction \in 1..MaxOrdered
      BY <3>2 DEF q, AdjustmentDocument
    <3> DEFINE n == d.reduction
    <3> HIDE DEF n, o
    <3>4. Encroached(o, n) \in 0..MaxOrdered
      BY <3>1, <3>3, EncroachedIs DEF n
    <3>5. fulfillableQuantity(o) = MaxOrdered - o.cancelled /\ MaxOrdered \in Nat /\ o.cancelled \in Nat /\ o.shelf \in Nat
      BY <3>1, QuantitiesOfOrder
    <3> QED
      BY <3>3, <3>4, <3>5 DEF n, AdjustmentAssumption
  <2>5. ~open => AdjustmentOverpromised(r, act, form)
    BY <1>3, <2>3, <2>4 DEF AdjustmentOverpromised
  <2> QED
    BY <2>2, <2>5
<1>4. CASE act.verb = "reverse"
  <2> DEFINE formed == form.reason = "enough"
             open == Reversible(r, i)
  <2>1. PICK next : AdjustmentServed(r, u, act, form) = Checked(r, formed, open, next)
    BY <1>4 DEF AdjustmentServed, reverseAdjustment
  <2>2. formed
    BY <1>4
  <2>3. open => AdjustmentServed(r, u, act, form).answer = "done"
    <3> HIDE DEF open, formed
    <3> QED
      BY <2>1, <2>2 DEF Checked, Reply
  <2> QED
    BY <1>4, <2>3 DEF AdjustmentOverpromised
<1> QED
  BY <1>1, <1>2, <1>3, <1>4

\* Whoever works at adjustments from the order may withdraw those he sees.
LEMMA WithdrawersMay ==
    ASSUME RolesAssumption, NEW u \in Supers \cup Admins
    PROVE  Has(u, "order.adjust.request")
<1>1. u \in Staff
  BY DEF Staff
<1>2. CASE u \in Supers
  BY <1>1, <1>2, RolesOfStaff DEF Has, PermissionsOf, Permissions, AdminPermissions
<1>3. CASE u \in Admins
  BY <1>1, <1>3, RolesOfStaff DEF Has, PermissionsOf, AdminPermissions
<1> QED
  BY <1>2, <1>3

LEMMA AdjustmentOffers ==
    ASSUME RolesAssumption, AdjustmentAssumption, NEW r, AdjustmentSound(r), NEW u \in Users,
           NEW act \in AdjustmentButtons(r, u), NEW n, NEW form \in AdjustmentDialog(r, act, n),
           act.verb \in Verbs("adjustment")
    PROVE  /\ AdjustmentAllowed(r, u, act)
           /\ AdjustmentServed(r, u, act, form).answer # "done" => AdjustmentOverpromised(r, act, form)
<1>1. CASE act.verb = "request"
  <2>1. form \in RequestAdjustmentModal(r, n)
    BY <1>1 DEF AdjustmentDialog
  <2> QED
    BY <1>1, <2>1, AdjustmentOffersRequest
<1>2. CASE act.verb # "request"
  <2>1. AdjustmentAllowed(r, u, act)
    <3> DEFINE i == act.of
               d == r.adjustments[i]
    <3>1. CASE act.verb = "withdraw"
      <4>1. /\ i \in DOMAIN r.adjustments
            /\ d.maker = u \/ u \in Supers \cup Admins
        BY <3>1, AdjustmentOffered
      <4>2. d.maker \in Supers \cup Admins
        <5> DEFINE q == r.adjustments
        <5>1. q \in Seq(AdjustmentDocument) /\ i \in DOMAIN q
          BY <4>1 DEF AdjustmentSound, AdjustmentRows
        <5> HIDE DEF q, i
        <5>2. q[i] \in AdjustmentDocument
          BY <5>1
        <5>3. q[i].maker \in Supers \cup Admins
          BY <5>2 DEF AdjustmentDocument
        <5> QED
          BY <5>3 DEF q
      <4> HIDE DEF d
      <4>3. u \in Supers \cup Admins
        BY <4>1, <4>2
      <4> QED
        BY <3>1, <4>3, WithdrawersMay DEF AdjustmentAllowed
    <3>2. CASE act.verb \in {"approve", "reject"}
      BY <3>2, AdjustmentOffered DEF AdjustmentAllowed
    <3>3. CASE act.verb \in {"apply", "reverse"}
      BY <3>3, AdjustmentOffered DEF AdjustmentAllowed
    <3> QED
      BY <1>2, <3>1, <3>2, <3>3 DEF Verbs
  <2>2. CASE act.verb = "approve"
    <3>1. form \in ApproveAdjustmentModal(r, act.of)
      BY <2>2 DEF AdjustmentDialog
    <3> QED
      BY <2>1, <2>2, <3>1, AdjustmentOffersApproval
  <2>3. CASE act.verb # "approve"
    <3>1. act.verb \in {"withdraw", "reject", "apply", "reverse"}
      BY <1>2, <2>3 DEF Verbs
    <3>2. act.verb \in {"reject", "reverse"} => form.reason = "enough"
      BY DEF AdjustmentDialog, RejectAdjustmentModal, ReverseAdjustmentModal
    <3> QED
      BY <2>1, <3>1, <3>2, AdjustmentOffersOther
  <2> QED
    BY <2>2, <2>3
<1> QED
  BY <1>1, <1>2

\* On every page: what is offered on the row as it is is permitted and done, or named.
LEMMA RowsOffers ==
    ASSUME kind \in AllKinds, Sound(kind, row), NEW u \in Users, kind # "delivery" => u \in Staff,
           NEW act \in Buttons(row, u), NEW form, Fits(kind, row, act, form)
    PROVE  /\ ~Allowed(u, act) => Overpromised(row, u, act, form)
           /\ Handled(u, act, form).answer # "done" => Overpromised(row, u, act, form)
<1>0. PICK n : form \in DialogAt(kind, row, act, n)
  BY DEF Fits
<1>1. CASE kind = "payment"
  <2>1. act \in PaymentButtons(row, u) /\ form \in PaymentDialog(act)
    BY <1>0, <1>1 DEF Buttons, DialogAt
  <2>2. /\ PaymentAllowed(row, u, act)
        /\ PaymentServed(row, u, act, form).answer # "done" => PaymentOverpromised(row, act, form)
    BY <2>1, PaymentOffers
  <2> QED
    BY <1>1, <2>2 DEF Allowed, Handled, Overpromised
<1>2. CASE kind = "refund"
  <2>1. act \in CreditButtons(row, u) /\ form \in RefundDialog(row, act) /\ RefundSound(row) /\ u \in Staff
    BY <1>0, <1>2 DEF Buttons, DialogAt, Sound
  <2>2. /\ ~RefundAllowed(row, u, act) => RefundOverpromised(row, u, act)
        /\ RefundServed(row, u, act, form).answer # "done" => RefundOverpromised(row, u, act)
    BY <2>1, RefundOffers, RolesAssumption, MoneyAssumption
  <2> QED
    BY <1>2, <2>2 DEF Allowed, Handled, Overpromised
<1>3. CASE kind = "supplier"
  <2>1. act \in SupplierButtons(row, u) /\ form \in SupplierDialog(row, act) /\ SupplierSound(row) /\ u \in Staff
    BY <1>0, <1>3 DEF Buttons, DialogAt, Sound
  <2>2. /\ SupplierAllowed(row, u, act)
        /\ SupplierServed(row, u, act, form).answer # "done" => SupplierOverpromised(row, act, form)
    BY <2>1, SupplierOffers, RolesAssumption, MoneyAssumption
  <2> QED
    BY <1>3, <2>2 DEF Allowed, Handled, Overpromised
<1>4. CASE kind = "order"
  <2>1. act \in OrderButtons(row, u) /\ (act.verb = "reject" => form \in RejectOrderModal)
    BY <1>0, <1>4 DEF Buttons, DialogAt
  <2>2. OrderAllowed(row, u, act) /\ OrderServed(row, u, act, form).answer = "done"
    BY <2>1, OrderOffers
  <2> QED
    BY <1>4, <2>2 DEF Allowed, Handled
<1>5. CASE kind = "return"
  <2>1. act \in ReturnButtons(row, u) /\ form \in ReturnDialog(row, act) /\ ReturnSound(row) /\ u \in Staff
    BY <1>0, <1>5 DEF Buttons, DialogAt, Sound
  <2>2. /\ ~ReturnAllowed(row, u, act) => ReturnOverpromised(row, u, act, form)
        /\ ReturnServed(row, u, act, form).answer # "done" => ReturnOverpromised(row, u, act, form)
    BY <2>1, ReturnOffers, RolesAssumption, FloorAssumption
  <2> QED
    BY <1>5, <2>2 DEF Allowed, Handled, Overpromised
<1>6. CASE kind = "exception"
  <2>1. act \in ExceptionTable(row, u) /\ form \in ResolveDialog \cup DismissDialog
    BY <1>0, <1>6 DEF Buttons, DialogAt
  <2>2. /\ ExceptionAllowed(row, u, act)
        /\ ExceptionServed(row, u, act, form).answer # "done" => form.text = "short"
    BY <2>1, ExceptionOffers
  <2> QED
    BY <1>6, <2>2 DEF Allowed, Handled, Overpromised
<1>7. CASE kind = "delivery"
  <2>1. act \in DeliveryButtons(row, u)
    BY <1>7 DEF Buttons
  <2>2. /\ DeliveryAllowed(row, u, act)
        /\ DeliveryServed(row, u, act, form).answer # "done" => DeliveryOverpromised(row, act)
    BY <2>1, DeliveryOffers
  <2> QED
    BY <1>7, <2>2 DEF Allowed, Handled, Overpromised
<1>8. CASE kind = "adjustment"
  <2>1. act \in AdjustmentButtons(row, u) /\ form \in AdjustmentDialog(row, act, n) /\ AdjustmentSound(row)
    BY <1>0, <1>8 DEF Buttons, DialogAt, Sound
  <2>2. act.verb \in Verbs("adjustment")
    <3>1. Refers(kind, row, act)
      BY RowsOffered
    <3> QED
      BY <1>8, <3>1 DEF Refers, AdjustmentRefers
  <2>3. /\ AdjustmentAllowed(row, u, act)
        /\ AdjustmentServed(row, u, act, form).answer # "done" => AdjustmentOverpromised(row, act, form)
    BY <2>1, <2>2, AdjustmentOffers, RolesAssumption, AdjustmentAssumption
  <2> QED
    BY <1>8, <2>3 DEF Allowed, Handled, Overpromised
<1> QED
  BY <1>1, <1>2, <1>3, <1>4, <1>5, <1>6, <1>7, <1>8 DEF AllKinds

--------------------------------------------------------------------------------
\* Who is at the pages

\* Only a page of deliveries is seen by others than staff.
AtDesk(k, u) == k # "delivery" => u \in Staff

SentByStaff(k, sent) == \A i \in DOMAIN sent : sent[i].stage # "over" => AtDesk(k, sent[i].by)

StaffInv ==
    /\ \A u \in Users : IsOpen(page[u]) => AtDesk(kind, u)
    /\ SentByStaff(kind, calls)

LEMMA VisitorsAre ==
    ASSUME kind \in AllKinds, NEW u \in Users, Visits(u)
    PROVE  AtDesk(kind, u)
BY RolesAssumption, OnlyStaffMay DEF Visits, AtDesk, AllKinds

LEMMA StaffStarts == Init => StaffInv
BY DEF Init, StaffInv, SentByStaff, Closed, IsOpen

\* One page changes.
LEMMA PageStaff ==
    ASSUME DeskInv, StaffInv, NEW u \in Users, NEW p, page' = WithPage(page, u, p),
           IsOpen(p) => AtDesk(kind, u), kind' = kind, SentByStaff(kind, calls')
    PROVE  StaffInv'
<1>1. AllPages(page)
  BY UserFacts
<1>2. \A v \in Users : page'[v] = IF v = u THEN p ELSE page[v]
  BY <1>1 DEF WithPage, AllPages
<1>3. \A v \in Users : IsOpen(page'[v]) => AtDesk(kind, v)
  <2> SUFFICES ASSUME NEW v \in Users, IsOpen(page'[v])
               PROVE  AtDesk(kind, v)
    OBVIOUS
  <2>1. CASE v = u
    BY <1>2, <2>1
  <2>2. CASE v # u
    BY <1>2, <2>2 DEF StaffInv
  <2> QED
    BY <2>1, <2>2
<1> DEFINE after == page'
           sent == calls'
<1>4. /\ \A v \in Users : IsOpen(after[v]) => AtDesk(kind, v)
      /\ SentByStaff(kind, sent)
  BY <1>3
<1> QED
  BY <1>4 DEF StaffInv, SentByStaff, IsOpen, AtDesk

\* One request becomes another of its user, or is spent.
LEMMA CallStaff ==
    ASSUME DeskInv, StaffInv, NEW i \in DOMAIN calls, NEW e, calls' = [calls EXCEPT ![i] = e],
           e.stage # "over" => calls[i].stage # "over" /\ e.by = calls[i].by
    PROVE  SentByStaff(kind, calls')
<1>1. IsList(calls)
  BY DEF DeskInv, CallsFit
<1>2. /\ DOMAIN calls' = DOMAIN calls /\ calls'[i] = e
      /\ \A j \in DOMAIN calls : j # i => calls'[j] = calls[j]
  BY <1>1, ListChanged
<1> QED
  BY <1>2 DEF StaffInv, SentByStaff

LEMMA SendStaff ==
    ASSUME DeskInv, StaffInv, NEW u \in Users, NEW act, NEW form, IsOpen(page[u]), Send(u, act, form)
    PROVE  StaffInv'
<1> DEFINE p == page[u]
           dropped == IF p.waits = 0 THEN {} ELSE Cleared(calls[p.waits].act, "none")
           h == (p.held \ dropped) \cup ({FlagOf(act)} \ {NoFlag})
           c == NewCall(u, act, form, p.shows)
           w == Len(calls) + 1
           sent == Append(calls, c)
<1>1. PageShape(p) /\ AllPages(page) /\ IsOpen(p)
  BY UserFacts
<1>2. calls' = sent /\ kind' = kind
  BY DEF Send, NewCall
<1>3. page' = WithVisit(page, u, w, h)
  BY <1>1, SentPage
<1> HIDE DEF h, w
<1>4. PICK q : WithVisit(page, u, w, h) = WithPage(page, u, q) /\ q.open = p.open
  BY <1>1, VisitChanged
<1>5. AtDesk(kind, u)
  BY <1>1 DEF StaffInv
<1>6. SentByStaff(kind, sent)
  <2>1. IsList(calls)
    BY DEF DeskInv, CallsFit
  <2>2. c.by = u
    BY NewCallIs
  <2> HIDE DEF c
  <2>3. /\ DOMAIN sent = 1..(Len(calls) + 1) /\ sent[Len(calls) + 1] = c
        /\ \A i \in DOMAIN calls : sent[i] = calls[i]
    BY <2>1, ListAppended
  <2>4. Len(calls) \in Nat /\ DOMAIN calls = 1..Len(calls)
    BY <2>1, ListIsUpTo
  <2> HIDE DEF sent
  <2>5. \A i \in DOMAIN sent : i \in DOMAIN calls \/ i = Len(calls) + 1
    BY <2>3, <2>4
  <2> QED
    BY <1>5, <2>2, <2>3, <2>5 DEF StaffInv, SentByStaff
<1> HIDE DEF sent, p, c
<1> QED
  BY <1>2, <1>3, <1>4, <1>5, <1>6, PageStaff

LEMMA UserStaff ==
    ASSUME DeskInv, FlagInv, StaffInv, NEW u \in Users, UserNext(u)
    PROVE  StaffInv'
<1> DEFINE p == page[u]
<1>0. PageShape(p) /\ AllPages(page) /\ kind \in AllKinds /\ (IsOpen(p) => AtDesk(kind, u)) /\ SentByStaff(kind, calls)
  BY UserFacts DEF StaffInv, DeskInv
<1>1. CASE Load(u)
  <2>1. page' = WithPage(page, u, Shown) /\ UNCHANGED <<kind, calls>> /\ Visits(u)
    BY <1>1 DEF Load, WithPage
  <2>2. AtDesk(kind, u)
    BY <1>0, <2>1, VisitorsAre
  <2> QED
    BY <1>0, <2>1, <2>2, PageStaff
<1>2. CASE Dismiss(u)
  <2> DEFINE h == p.held \ (IF p.dialog.verb = "assign" THEN {FlagOf(p.dialog)} ELSE {})
             mid == WithDialog(page, u, Nothing, 0)
  <2>1. PICK q : /\ mid = WithPage(page, u, q) /\ PageShape(q)
                 /\ q.open = p.open /\ q.held = p.held
    BY <1>0, DialogChanged
  <2>2. AllPages(mid) /\ mid[u] = q
    BY <1>0, <2>1 DEF WithPage, AllPages
  <2>3. page' = WithHeld(mid, u, h) /\ UNCHANGED <<kind, calls>>
    <3>1. page' = [mid EXCEPT ![u].held = mid[u].held \ (IF p.dialog.verb = "assign" THEN {FlagOf(p.dialog)} ELSE {})]
      BY <1>2 DEF Dismiss, WithDialog
    <3>2. mid[u].held = p.held
      BY <2>1, <2>2
    <3> QED
      BY <1>2, <3>1, <3>2 DEF WithHeld, Dismiss
  <2> HIDE DEF mid, h, p
  <2>4. PICK z : page' = WithPage(mid, u, z) /\ z.open = q.open
    BY <2>1, <2>2, <2>3, HeldChanged
  <2>5. page' = WithPage(page, u, z)
    BY <1>0, <2>1, <2>4 DEF WithPage, AllPages
  <2>6. IsOpen(z) => AtDesk(kind, u)
    BY <1>0, <2>1, <2>4 DEF IsOpen
  <2> QED
    BY <1>0, <2>3, <2>5, <2>6, PageStaff
<1>3. CASE Return(u)
  <2> DEFINE i == p.waits
             call == calls[i]
             h == p.held \ Cleared(call.act, call.answer)
             o == Over(p, h)
             shown == Showing(o, row)
             closed == ShowingClosed(o, row)
             q == IF call.answer = "conflict" THEN o
                  ELSE IF call.answer = "denied" \/ ~Visits(u) THEN Closed
                  ELSE IF call.answer = "done" /\ o.dialog = call.act THEN closed ELSE shown
  <2>1. /\ calls' = [calls EXCEPT ![i] = Spent] /\ kind' = kind
        /\ page' = WithPage(page, u, q) /\ i # 0
    BY <1>3 DEF Return, Over, WithPage, Showing, ShowingClosed
  <2>2. SentByStaff(kind, calls')
    <3>1. i \in DOMAIN calls
      BY <2>1 DEF FlagInv, WaitsFit
    <3> HIDE DEF i
    <3> QED
      BY <2>1, <3>1, CallStaff DEF Spent
  <2> HIDE DEF p, h
  <2>3. PageShape(o) /\ o.open = p.open
    BY <1>0, VisitOver
  <2> HIDE DEF o
  <2>4. shown.open = o.open /\ closed.open = o.open
    BY <2>3, RowShown
  <2> HIDE DEF shown, closed
  <2>5. IsOpen(q) => IsOpen(p)
    BY <2>3, <2>4 DEF IsOpen, Closed
  <2> HIDE DEF q
  <2> QED
    BY <1>0, <2>1, <2>2, <2>5, PageStaff
<1>4. ASSUME NEW act, Press(u, act)
      PROVE  StaffInv'
  <2>1. PICK form : Send(u, act, form)
    BY <1>4 DEF Press
  <2>2. IsOpen(page[u])
    BY <1>4 DEF Press, Offered, IsOpen
  <2> QED
    BY <2>1, <2>2, SendStaff
<1>5. ASSUME NEW act, Open(u, act)
      PROVE  StaffInv'
  <2> DEFINE n == IF kind = "adjustment" /\ act.verb = "request"
                  THEN CHOOSE k \in 1..(Cardinality(KeysUsed) + 1) : k \notin KeysUsed ELSE 0
  <2>1. page' = WithDialog(page, u, act, n) /\ UNCHANGED <<kind, calls>>
    BY <1>5 DEF Open, WithDialog
  <2> HIDE DEF n, p
  <2>2. PICK q : WithDialog(page, u, act, n) = WithPage(page, u, q) /\ q.open = p.open
    BY <1>0, DialogChanged DEF p
  <2>3. IsOpen(q) => AtDesk(kind, u)
    BY <1>0, <2>2 DEF IsOpen
  <2> QED
    BY <1>0, <2>1, <2>2, <2>3, PageStaff
<1>6. ASSUME NEW form, Confirm(u, form)
      PROVE  StaffInv'
  <2>1. Send(u, page[u].dialog, form) /\ page[u].dialog # Nothing
    BY <1>6 DEF Confirm
  <2>2. IsOpen(page[u])
    BY <2>1, UserFacts DEF IsOpen
  <2> QED
    BY <2>1, <2>2, SendStaff
<1> QED
  BY <1>1, <1>2, <1>3, <1>4, <1>5, <1>6 DEF UserNext

\* A request is answered: what it asked for stays, or it is spent.
LEMMA AnswerIs ==
    ASSUME DeskInv, NEW i \in DOMAIN calls, calls[i].stage # "over", NEW answer, Answer(i, answer)
    PROVE  /\ DOMAIN calls' = DOMAIN calls /\ \A j \in DOMAIN calls : j # i => calls'[j] = calls[j]
           /\ calls'[i].stage # "over" => /\ calls'[i].stage = "answered" /\ calls'[i].answer = answer
                                          /\ calls'[i].by = calls[i].by
           /\ \E e : calls' = [calls EXCEPT ![i] = e] /\ calls'[i] = e
<1> DEFINE c == calls[i]
           e == [c EXCEPT !.stage = "answered", !.answer = answer]
<1>0. IsList(calls)
  BY DEF DeskInv, CallsFit
<1>1. CASE Awaited(i)
  <2>1. calls' = [calls EXCEPT ![i] = e]
    BY <1>1 DEF Answer
  <2>2. e.by = c.by /\ e.stage = "answered" /\ e.answer = answer
    <3>1. c = [by |-> c.by, act |-> c.act, form |-> c.form, seen |-> c.seen, stage |-> c.stage, answer |-> c.answer]
      BY DEF DeskInv, CallsFit, CallFits
    <3>2. PICK by, act, form, seen, stage, old :
             c = [by |-> by, act |-> act, form |-> form, seen |-> seen, stage |-> stage, answer |-> old]
      BY <3>1, Zenon
    <3> DEFINE m == [c EXCEPT !.stage = "answered"]
    <3>3. e = [m EXCEPT !.answer = answer]
      OBVIOUS
    <3> HIDE DEF c
    <3>4. m = [by |-> by, act |-> act, form |-> form, seen |-> seen, stage |-> "answered", answer |-> old]
      BY <3>2
    <3> HIDE DEF e, m
    <3>5. e = [by |-> by, act |-> act, form |-> form, seen |-> seen, stage |-> "answered", answer |-> answer]
      BY <3>3, <3>4
    <3> QED
      BY <3>2, <3>5
  <2> HIDE DEF e
  <2>3. DOMAIN calls' = DOMAIN calls /\ calls'[i] = e /\ \A j \in DOMAIN calls : j # i => calls'[j] = calls[j]
    BY <1>0, <2>1, ListChanged
  <2> QED
    BY <2>1, <2>2, <2>3
<1>2. CASE ~Awaited(i)
  <2>1. calls' = [calls EXCEPT ![i] = Spent]
    BY <1>2 DEF Answer
  <2>2. DOMAIN calls' = DOMAIN calls /\ calls'[i] = Spent /\ \A j \in DOMAIN calls : j # i => calls'[j] = calls[j]
    BY <1>0, <2>1, ListChanged
  <2>3. Spent.stage = "over"
    BY DEF Spent
  <2> QED
    BY <2>1, <2>2, <2>3
<1> QED
  BY <1>1, <1>2

LEMMA AdmittedIs ==
    ASSUME DeskInv, NEW i \in DOMAIN calls, Admit(i), Allowed(calls[i].by, calls[i].act)
    PROVE  /\ DOMAIN calls' = DOMAIN calls /\ \A j \in DOMAIN calls : j # i => calls'[j] = calls[j]
           /\ calls'[i].stage = "admitted" /\ calls'[i].by = calls[i].by
           /\ calls' = [calls EXCEPT ![i] = calls'[i]]
<1> DEFINE c == calls[i]
           e == [c EXCEPT !.stage = "admitted"]
<1>1. calls' = [calls EXCEPT ![i] = e] /\ IsList(calls)
  BY DEF Admit, DeskInv, CallsFit
<1>2. e.by = c.by /\ e.stage = "admitted"
  <2>1. c = [by |-> c.by, act |-> c.act, form |-> c.form, seen |-> c.seen, stage |-> c.stage, answer |-> c.answer]
    BY DEF DeskInv, CallsFit, CallFits
  <2>2. PICK by, act, form, seen, stage, old :
           c = [by |-> by, act |-> act, form |-> form, seen |-> seen, stage |-> stage, answer |-> old]
    BY <2>1, Zenon
  <2> HIDE DEF c
  <2> QED
    BY <2>2
<1> HIDE DEF e
<1>3. DOMAIN calls' = DOMAIN calls /\ calls'[i] = e /\ \A j \in DOMAIN calls : j # i => calls'[j] = calls[j]
  BY <1>1, ListChanged
<1> QED
  BY <1>1, <1>2, <1>3

\* The pages stay and one request is written to.
LEMMA WrittenStaff ==
    ASSUME DeskInv, StaffInv, NEW i \in DOMAIN calls, calls[i].stage # "over",
           DOMAIN calls' = DOMAIN calls, \A j \in DOMAIN calls : j # i => calls'[j] = calls[j],
           calls'[i].stage # "over" => calls'[i].by = calls[i].by, UNCHANGED <<kind, page>>
    PROVE  StaffInv'
BY DEF StaffInv, SentByStaff, AtDesk, IsOpen

LEMMA StaffSteps ==
    ASSUME DeskInv, FlagInv, StaffInv, [Next]_vars
    PROVE  StaffInv'
<1>1. ASSUME NEW i \in DOMAIN calls, Admit(i)
      PROVE  StaffInv'
  <2>1. calls[i].stage # "over" /\ UNCHANGED <<kind, page>>
    BY <1>1 DEF Admit
  <2>2. CASE Allowed(calls[i].by, calls[i].act)
    BY <1>1, <2>1, <2>2, AdmittedIs, WrittenStaff
  <2>3. CASE ~Allowed(calls[i].by, calls[i].act)
    <3>1. Answer(i, "denied")
      BY <1>1, <2>3 DEF Admit
    <3> QED
      BY <2>1, <3>1, AnswerIs, WrittenStaff
  <2> QED
    BY <2>2, <2>3
<1>2. ASSUME NEW i \in DOMAIN calls, Serve(i)
      PROVE  StaffInv'
  <2>1. PICK answer : Answer(i, answer) /\ calls[i].stage # "over" /\ UNCHANGED <<kind, page>>
    BY <1>2 DEF Serve
  <2> QED
    BY <2>1, AnswerIs, WrittenStaff
<1>3. ASSUME NEW i \in DOMAIN calls, Lose(i)
      PROVE  StaffInv'
  <2> DEFINE C == Cleared(calls[i].act, "none")
             lost(u) == Over(page[u], page[u].held \ C)
  <2>1. /\ page' = [u \in Users |-> IF page[u].waits # i THEN page[u] ELSE lost(u)]
        /\ calls' = [calls EXCEPT ![i] = Spent] /\ UNCHANGED <<kind, row>>
    BY <1>3 DEF Lose, Over
  <2>2. SentByStaff(kind, calls')
    BY <2>1, CallStaff DEF Spent
  <2>3. \A u \in Users : lost(u).open = page[u].open
    BY UserFacts, VisitOver
  <2> HIDE DEF lost
  <2>4. \A u \in Users : IsOpen(page'[u]) => AtDesk(kind, u)
    <3> SUFFICES ASSUME NEW u \in Users, IsOpen(page'[u])
                 PROVE  AtDesk(kind, u)
      OBVIOUS
    <3>1. page'[u] = IF page[u].waits # i THEN page[u] ELSE lost(u)
      BY <2>1
    <3>2. page'[u].open = page[u].open
      BY <2>3, <3>1
    <3>3. IsOpen(page[u])
      BY <3>2 DEF IsOpen
    <3> QED
      BY <3>3 DEF StaffInv
  <2> DEFINE after == page'
             sent == calls'
  <2>5. SentByStaff(kind, sent) /\ \A u \in Users : IsOpen(after[u]) => AtDesk(kind, u)
    BY <2>2, <2>4
  <2> QED
    BY <2>1, <2>5 DEF StaffInv, SentByStaff, IsOpen, AtDesk
<1>4. CASE Meanwhile
  BY <1>4 DEF Meanwhile, StaffInv, SentByStaff, AtDesk, IsOpen
<1>5. CASE UNCHANGED vars
  BY <1>5 DEF vars, StaffInv, SentByStaff, AtDesk, IsOpen
<1> QED
  BY <1>1, <1>2, <1>3, <1>4, <1>5, UserStaff DEF Next

\* No action but the server's answers a request.
LEMMA OnlyAnswered ==
    ASSUME DeskInv, FlagInv, [Next]_vars, NEW i \in DOMAIN calls, i \in DOMAIN calls',
           calls'[i].stage = "answered", calls[i].stage # "answered"
    PROVE  /\ calls[i].stage # "over"
           /\ \/ ~Allowed(calls[i].by, calls[i].act)
              \/ calls'[i].answer = Handled(calls[i].by, calls[i].act, calls[i].form).answer
<1>0. IsList(calls)
  BY DEF DeskInv, CallsFit
<1>1. ASSUME NEW j \in DOMAIN calls, calls' = [calls EXCEPT ![j] = Spent]
      PROVE  FALSE
  BY <1>0, <1>1, ListChanged DEF Spent
<1>2. calls' # calls
  OBVIOUS
<1>3. ASSUME NEW u \in Users, NEW act, NEW form, Send(u, act, form)
      PROVE  FALSE
  <2> DEFINE c == NewCall(u, act, form, page[u].shows)
  <2>1. calls' = Append(calls, c)
    BY <1>3 DEF Send, NewCall
  <2> HIDE DEF c
  <2>2. calls'[i] = calls[i]
    BY <1>0, <2>1, ListAppended
  <2> QED
    BY <2>2
<1>4. ASSUME NEW u \in Users, UserNext(u)
      PROVE  FALSE
  <2>1. CASE Load(u) \/ Dismiss(u)
    BY <1>2, <2>1 DEF Load, Dismiss
  <2>2. CASE Return(u)
    <3> DEFINE j == page[u].waits
    <3>1. calls' = [calls EXCEPT ![j] = Spent] /\ j # 0
      BY <2>2 DEF Return
    <3>2. j \in DOMAIN calls
      BY <3>1 DEF FlagInv, WaitsFit
    <3> HIDE DEF j
    <3> QED
      BY <1>1, <3>1, <3>2
  <2>3. ASSUME NEW act, Press(u, act)
        PROVE  FALSE
    BY <1>3, <2>3 DEF Press
  <2>4. ASSUME NEW act, Open(u, act)
        PROVE  FALSE
    BY <1>2, <2>4 DEF Open
  <2>5. ASSUME NEW form, Confirm(u, form)
        PROVE  FALSE
    BY <1>3, <2>5 DEF Confirm
  <2> QED
    BY <1>4, <2>1, <2>2, <2>3, <2>4, <2>5 DEF UserNext
<1>5. ~Meanwhile /\ ~UNCHANGED vars
  BY <1>2 DEF Meanwhile, vars
<1>6. PICK j \in DOMAIN calls : Admit(j) \/ Serve(j)
  <2>1. ASSUME NEW j \in DOMAIN calls, Lose(j)
        PROVE  FALSE
    BY <1>1, <2>1 DEF Lose
  <2> QED
    BY <1>4, <1>5, <2>1 DEF Next
<1>7. CASE Admit(j)
  <2>1. calls[j].stage = "sent"
    BY <1>7 DEF Admit
  <2>2. CASE Allowed(calls[j].by, calls[j].act)
    BY <1>7, <2>2, AdmittedIs
  <2>3. CASE ~Allowed(calls[j].by, calls[j].act)
    <3>1. Answer(j, "denied")
      BY <1>7, <2>3 DEF Admit
    <3>2. i = j
      BY <2>1, <3>1, AnswerIs
    <3> QED
      BY <2>1, <2>3, <3>2
  <2> QED
    BY <2>2, <2>3
<1>8. CASE Serve(j)
  <2> DEFINE answer == Handled(calls[j].by, calls[j].act, calls[j].form).answer
  <2>1. calls[j].stage = "admitted" /\ Answer(j, answer)
    BY <1>8 DEF Serve
  <2> HIDE DEF answer
  <2>2. i = j
    BY <2>1, AnswerIs
  <2>3. calls'[j].answer = answer
    BY <2>1, <2>2, AnswerIs
  <2> QED
    BY <2>1, <2>2, <2>3 DEF answer
<1> QED
  BY <1>6, <1>7, <1>8

\* Only staff open pages other than those of deliveries.
THEOREM StaffAreAtTheDesks == Spec => []StaffInv
<1>1. Init => StaffInv
  BY StaffStarts
<1>2. (DeskInv /\ FlagInv) /\ StaffInv /\ [Next]_vars => StaffInv'
  BY StaffSteps
<1> QED
  BY <1>1, <1>2, DeskIsSound, PTL DEF Spec

\* What a page in date offers, the FormRequest lets in and the service does, but for what
\* Overpromised names.
THEOREM OffersAreKept == Spec => OfferedIsAccepted
<1>1. DeskInv /\ FlagInv /\ StaffInv /\ [Next]_vars =>
        [\A i \in DOMAIN calls :
           (/\ i \in DOMAIN calls' /\ calls'[i].stage = "answered" /\ calls[i].stage # "answered"
            /\ calls[i].seen = row /\ calls'[i].answer # "done"
            /\ calls[i].act \in Buttons(row, calls[i].by))
              => Overpromised(row, calls[i].by, calls[i].act, calls[i].form)]_vars
  <2> SUFFICES ASSUME DeskInv, FlagInv, StaffInv, [Next]_vars, NEW i \in DOMAIN calls,
                      i \in DOMAIN calls', calls'[i].stage = "answered", calls[i].stage # "answered",
                      calls[i].seen = row, calls'[i].answer # "done",
                      calls[i].act \in Buttons(row, calls[i].by)
               PROVE  Overpromised(row, calls[i].by, calls[i].act, calls[i].form)
    OBVIOUS
  <2> DEFINE c == calls[i]
             answer == Handled(c.by, c.act, c.form).answer
  <2>1. c.stage # "over" /\ (~Allowed(c.by, c.act) \/ calls'[i].answer = answer)
    BY OnlyAnswered
  <2>2. /\ c.by \in Users /\ Fits(kind, row, c.act, c.form) /\ AtDesk(kind, c.by)
        /\ kind \in AllKinds /\ Sound(kind, row)
    BY <2>1, CallFacts DEF DeskInv, StaffInv, SentByStaff
  <2> HIDE DEF answer
  <2>3. ~Allowed(c.by, c.act) \/ answer # "done"
    BY <2>1
  <2>4. c.act \in Buttons(row, c.by)
    OBVIOUS
  <2> HIDE DEF c
  <2>5. Overpromised(row, c.by, c.act, c.form)
    BY <2>2, <2>3, <2>4, RowsOffers DEF AtDesk, answer
  <2> QED
    BY <2>5 DEF c
<1> QED
  BY <1>1, DeskIsSound, StaffAreAtTheDesks, PTL DEF Spec, OfferedIsAccepted
================================================================================
