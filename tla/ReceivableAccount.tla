--------------------------- MODULE ReceivableAccount ---------------------------
(***************************************************************************)
(* What a customer's receivable account promises: entries are permanent,   *)
(* every business event is entered once, and what restores a debt is the   *)
(* exact opposite of the receipt that settled it.                          *)
(***************************************************************************)
EXTENDS Integers

VARIABLE entries   \* [type, id, amount]: positive amounts raise the debt, negative ones settle it

Init == entries = {}

New(e) ==
    /\ \A f \in entries : ~ (f.type = e.type /\ f.id = e.id)
    /\ entries' = entries \cup {e}

Charge(e) == e.type = "INVOICE_CHARGE" /\ e.amount > 0 /\ New(e)

Settle(e) == e.type = "PAYMENT" /\ e.amount < 0 /\ New(e)

Restore(e) ==
    /\ e.type = "PAYMENT_REVERSAL"
    /\ \E f \in entries : f.type = "PAYMENT" /\ f.id = e.id /\ f.amount = -e.amount
    /\ New(e)

Next == \E e \in entries' : Charge(e) \/ Settle(e) \/ Restore(e)

Spec == Init /\ [][Next]_entries
================================================================================
