------------------------------ MODULE OrderEntry -------------------------------
(***************************************************************************)
(* The order builder: browser tabs in which a salesman fills a cart, saves *)
(* it as a draft, discards it and submits it, and the order service behind *)
(* them.                                                                   *)
(*                                                                         *)
(* A tab holds React state that dies with the page; a backup of the cart   *)
(* is kept in localStorage, which the tabs share.  Saving is a fetch,      *)
(* submitting and discarding are Inertia visits: a visit that starts drops *)
(* the one under way, whose request may still reach the server.  A call is *)
(* served in one step, because the service works in one transaction under  *)
(* row locks; its request or its response may be lost.                     *)
(*                                                                         *)
(* There is one customer and one salesman; amounts, names and filters are  *)
(* left out.  A line of a cart is its quantity, 0 when there is none, as   *)
(* long as its price is within the bounds the product has.                 *)
(***************************************************************************)
EXTENDS Integers, Sequences

CONSTANTS
    Tabs,         \* tabs of the salesman's browser
    Products,     \* products of the catalogue
    Overridden,   \* a line whose price is outside the product's bounds
    NoBackup,     \* localStorage without a backup
    Methods,      \* methods of payment a salesman collects with: "CASH", "CHEQUE"
    MaxQuantity,  \* the largest quantity a line may have (999999)
    MaxKeys,      \* bound: idempotency keys generated
    MaxCalls,     \* bound: calls made to the server
    MaxEdits      \* bound: changes made to carts

ASSUME OrderEntryAssumption ==
    /\ Overridden \notin 0..MaxQuantity
    /\ Methods \subseteq {"CASH", "CHEQUE"}
    /\ MaxQuantity \in Nat \ {0}
    /\ MaxKeys \in Nat \ {0}   \* a row has a key
    /\ MaxCalls \in Nat
    /\ MaxEdits \in Nat

VARIABLES
    orders,      \* rows of orders, oldest first
    eligible,    \* the customer is ACTIVE
    storage,     \* the backup in localStorage
    tab,         \* what each tab shows
    calls,       \* calls made so far, oldest first
    keys,        \* idempotency keys generated so far
    edits        \* changes made to carts so far

vars == <<orders, eligible, storage, tab, calls, keys, edits>>

--------------------------------------------------------------------------------
\* Carts, rows, calls and pages

Carts == [Products -> 0..MaxQuantity \cup {Overridden}]

EmptyCart == [p \in Products |-> 0]

\* Rows and versions are created by calls.
MaxRows == MaxCalls + 1

OrderRows == [key : 1..MaxKeys, status : {"DRAFT", "SUBMITTED", "APPROVED", "DISCARDED"},
              version : 1..MaxRows, cart : Carts, payments : 0..MaxCalls]

Payment == Methods \cup {"none"}

Outcomes == {"none", "done", "conflict", "refused", "gone"}

Calls == [tab : Tabs, kind : {"save", "place", "submit", "discard"},
          row : 0..MaxRows, version : 0..MaxRows, key : 1..MaxKeys,
          cart : Carts, base : Carts, pay : Payment,
          stage : {"sent", "served", "over"}, outcome : Outcomes]

\* "new" is /orders/create; "new for" the same page with the customer in its
\* address, as a filter of the catalogue leaves it; "draft" is the page of a draft.
Pages == {"closed", "new", "new for", "draft"}

Builders == [page : Pages, step : {"customer", "catalog", "review"}, picked : BOOLEAN,
             cart : Carts, draft : 0..MaxRows, version : 0..MaxRows,
             key : 0..MaxKeys,
             base : Carts,                   \* what the tab knows the draft to hold
             saving : 0..MaxCalls,           \* the fetch it waits for, 0 when none
             visit : 0..MaxCalls]            \* the visit it waits for, 0 when none

Backups == [picked : BOOLEAN, cart : Carts]

Closed == [page |-> "closed", step |-> "customer", picked |-> FALSE, cart |-> EmptyCart,
           draft |-> 0, version |-> 0, key |-> 0,
           base |-> EmptyCart, saving |-> 0, visit |-> 0]

\* The salesman may have left a draft before.
Init ==
    /\ orders \in {<<>>, <<[key |-> 1, status |-> "DRAFT", version |-> 1,
                           cart |-> [p \in Products |-> 1], payments |-> 0]>>}
    /\ keys = Len(orders)
    /\ eligible = TRUE
    /\ storage = NoBackup
    /\ tab = [t \in Tabs |-> Closed]
    /\ calls = <<>>
    /\ edits = 0

serverVars == <<orders, eligible>>

--------------------------------------------------------------------------------
\* The page is loaded: the effect that fills it and the effect that backs it up

\* The state the first effect leaves when the page comes without a draft: a new key,
\* and the backup unless the address names the customer.
Restored(b, k) ==
    IF b.page = "new for" THEN [b EXCEPT !.key = k, !.picked = TRUE, !.step = "catalog"]
    ELSE IF storage = NoBackup THEN [b EXCEPT !.key = k]
    ELSE [b EXCEPT !.key = k, !.cart = storage.cart,
                   !.picked = @ \/ storage.picked,
                   !.step = IF storage.picked THEN "catalog" ELSE @]

\* The state it leaves when the page comes with draft r.
Resumed(b, r) ==
    [b EXCEPT !.page = "draft", !.draft = r, !.version = orders[r].version,
              !.key = orders[r].key, !.cart = orders[r].cart, !.base = orders[r].cart,
              !.picked = TRUE, !.step = "catalog"]

Backup(b) == [picked |-> b.picked, cart |-> b.cart]

\* Tab t now shows b; the second effect writes the backup.
Show(t, b) ==
    /\ tab' = [tab EXCEPT ![t] = b]
    /\ storage' = Backup(b)

NewKey == keys < MaxKeys /\ keys' = keys + 1

OpenBuilder(t, page) ==
    /\ tab[t].page = "closed"
    /\ NewKey
    /\ Show(t, Restored([Closed EXCEPT !.page = page], keys + 1))
    /\ UNCHANGED <<serverVars, calls, edits>>

OpenDraft(t, r) ==
    /\ tab[t].page = "closed"
    /\ orders[r].status = "DRAFT"
    /\ Show(t, Resumed(Closed, r))
    /\ UNCHANGED <<serverVars, calls, keys, edits>>

\* Closed, reloaded, crashed or left: what the page held is gone.
CloseTab(t) ==
    /\ tab[t].page # "closed"
    /\ tab' = [tab EXCEPT ![t] = Closed]
    /\ UNCHANGED <<serverVars, storage, calls, keys, edits>>

--------------------------------------------------------------------------------
\* The steps of the builder

Submitting(t) == tab[t].visit # 0 /\ calls[tab[t].visit].kind \in {"place", "submit"}

PickCustomer(t) ==
    /\ tab[t].page # "closed" /\ tab[t].step = "customer"
    /\ Show(t, [tab[t] EXCEPT !.picked = TRUE, !.step = "catalog"])
    /\ UNCHANGED <<serverVars, calls, keys, edits>>

\* The stepper leads to a step whose condition holds, even while an order is submitted.
\* With one customer, there is nothing to go back to the first step for.
GoTo(t, step) ==
    /\ tab[t].page # "closed" /\ step # tab[t].step
    /\ tab[t].picked
    /\ step = "review" => tab[t].cart # EmptyCart
    /\ tab' = [tab EXCEPT ![t].step = step]
    /\ UNCHANGED <<serverVars, storage, calls, keys, edits>>

\* A filter of the catalogue is a visit: it drops the one under way, and leaves the
\* draft, or else the customer, in the address of the page.
FilterCatalogue(t) ==
    /\ tab[t].page # "closed" /\ tab[t].step = "catalog"
    /\ tab' = [tab EXCEPT ![t].visit = 0,
                          ![t].page = IF tab[t].draft # 0 THEN "draft" ELSE "new for"]
    /\ UNCHANGED <<serverVars, storage, calls, keys, edits>>

\* The stepper of quantities keeps what is typed between 1 and the maximum.
Clamped(q) == IF q < 1 THEN 1 ELSE IF q > MaxQuantity THEN MaxQuantity ELSE q

Edit(t, cart) ==
    /\ edits < MaxEdits /\ edits' = edits + 1
    /\ Show(t, [tab[t] EXCEPT !.cart = cart])
    /\ UNCHANGED <<serverVars, calls, keys>>

\* A card of the catalogue adds or updates its line at a price within the bounds.
AddToCart(t, p, q) ==
    /\ tab[t].page # "closed" /\ tab[t].step = "catalog"
    /\ Edit(t, [tab[t].cart EXCEPT ![p] = Clamped(q)])

\* Outside them it asks for a reason and adds the line all the same; the reason goes nowhere.
ApplyOverride(t, p) ==
    /\ tab[t].page # "closed" /\ tab[t].step = "catalog"
    /\ Edit(t, [tab[t].cart EXCEPT ![p] = Overridden])

\* In the review and in the drawer of the catalogue.
SetQuantity(t, p, q) ==
    /\ tab[t].page # "closed" /\ tab[t].cart[p] \notin {0, Overridden, Clamped(q)}
    /\ \/ tab[t].step = "catalog"
       \/ tab[t].step = "review" /\ ~Submitting(t)
    /\ Edit(t, [tab[t].cart EXCEPT ![p] = Clamped(q)])

RemoveLine(t, p) ==
    /\ tab[t].page # "closed" /\ tab[t].cart[p] # 0
    /\ \/ tab[t].step = "catalog"
       \/ tab[t].step = "review" /\ ~Submitting(t)
    /\ Edit(t, [tab[t].cart EXCEPT ![p] = 0])

--------------------------------------------------------------------------------
\* The calls a tab makes

Call(t, kind) ==
    [tab |-> t, kind |-> kind, row |-> tab[t].draft, version |-> 0, key |-> tab[t].key,
     cart |-> tab[t].cart, base |-> EmptyCart, pay |-> "none",
     stage |-> "sent", outcome |-> "none"]

Send(call) ==
    /\ Len(calls) < MaxCalls
    /\ calls' = Append(calls, call)

SaveDraft(t) ==
    /\ tab[t].page # "closed" /\ tab[t].picked
    /\ tab[t].saving = 0 /\ ~Submitting(t)
    /\ Send(IF tab[t].draft = 0
            THEN Call(t, "save")
            ELSE [Call(t, "save") EXCEPT !.version = tab[t].version, !.base = tab[t].base])
    /\ tab' = [tab EXCEPT ![t].saving = Len(calls) + 1]
    /\ UNCHANGED <<serverVars, storage, keys, edits>>

\* With a draft the cart is not sent: the server is to submit what it has stored.  The
\* panel of payments adds what is collected, when that is valid.
SubmitOrder(t, pay) ==
    /\ tab[t].page # "closed" /\ tab[t].step = "review" /\ tab[t].picked
    /\ tab[t].cart # EmptyCart /\ ~Submitting(t)
    /\ Send([Call(t, IF tab[t].draft = 0 THEN "place" ELSE "submit") EXCEPT !.pay = pay])
    /\ tab' = [tab EXCEPT ![t].visit = Len(calls) + 1]
    /\ UNCHANGED <<serverVars, storage, keys, edits>>

DiscardDraft(t) ==
    /\ tab[t].page # "closed" /\ tab[t].draft # 0
    /\ tab[t].visit = 0 \/ Submitting(t)
    /\ Send([Call(t, "discard") EXCEPT !.cart = EmptyCart])
    /\ tab' = [tab EXCEPT ![t].visit = Len(calls) + 1]
    /\ UNCHANGED <<serverVars, storage, keys, edits>>
--------------------------------------------------------------------------------
\* The order service

Holders(k) == {r \in DOMAIN orders : orders[r].key = k /\ orders[r].status # "DISCARDED"}

\* No reason or approval reaches the check of prices.
PricesAllowed(cart) == \A p \in Products : cart[p] # Overridden

\* Call i is answered, having concerned row r, which is now at the given version.
Answer(i, outcome, r, version) ==
    calls' = [calls EXCEPT ![i].stage = "served", ![i].outcome = outcome, ![i].row = r,
                           ![i].version = IF calls[i].kind = "save" THEN version ELSE 0]

Refuse(i, outcome) ==
    /\ Answer(i, outcome, calls[i].row, calls[i].version)
    /\ UNCHANGED orders

\* What may become of the payment that comes with an order, given the row it is for: a
\* cheque is recorded once and its number may be in the books already, and the amount may
\* exceed the total of a row that does not hold what the tab showed.
PaymentRefused(call, row) ==
    IF call.pay = "none" THEN {FALSE}
    ELSE IF row.status = "DRAFT" \/ ~eligible THEN {TRUE}
    ELSE IF call.pay = "CHEQUE" /\ row.payments > 0 THEN {TRUE}
    ELSE IF call.pay = "CHEQUE" \/ row.cart # call.cart THEN BOOLEAN
    ELSE {FALSE}

\* The order is committed; then its payment is recorded, in another transaction.
Collect(i, rows, r) ==
    \E refused \in PaymentRefused(calls[i], rows[r]) :
        LET recorded == calls[i].pay # "none" /\ ~refused IN
        /\ orders' = IF recorded THEN [rows EXCEPT ![r].payments = @ + 1] ELSE rows
        /\ Answer(i, IF refused THEN "refused" ELSE "done", r, rows[r].version)

NewRow(call, status) ==
    [key |-> call.key, status |-> status, version |-> 1, cart |-> call.cart, payments |-> 0]

\* Mutant of Replays: a key that is known is answered with its row, whatever is sent.
ReplaysByKey(row, call) == TRUE

\* The row a key names is replayed when it holds what is sent, whatever its status.
Replays(row, call) == row.cart = call.cart

createOrder(i) ==
    LET call == calls[i] IN
    \/ \E r \in Holders(call.key) :
          \/ Replays(orders[r], call) /\ Collect(i, orders, r)
          \/ ~Replays(orders[r], call) /\ Refuse(i, "conflict")
    \/ /\ Holders(call.key) = {}
       /\ \/ /\ eligible /\ PricesAllowed(call.cart)
             /\ Collect(i, Append(orders, NewRow(call, "SUBMITTED")), Len(orders) + 1)
          \/ ~(eligible /\ PricesAllowed(call.cart)) /\ Refuse(i, "refused")

submitDraft(i) ==
    LET call == calls[i]
        r == call.row
        row == orders[r]
    IN
    \/ row.status = "DISCARDED" /\ Refuse(i, "gone")
    \/ row.status = "APPROVED" /\ Refuse(i, "conflict")
    \/ row.status = "SUBMITTED" /\ Collect(i, orders, r)
    \/ /\ row.status = "DRAFT"
       /\ \/ row.cart = EmptyCart /\ Refuse(i, "refused")
          \/ row.cart # EmptyCart /\ Holders(call.key) \ {r} # {} /\ Refuse(i, "conflict")
          \/ /\ row.cart # EmptyCart /\ Holders(call.key) \ {r} = {}
             /\ \/ ~(eligible /\ PricesAllowed(row.cart)) /\ Refuse(i, "refused")
                \/ /\ eligible /\ PricesAllowed(row.cart)
                   /\ Collect(i, [orders EXCEPT ![r].status = "SUBMITTED", ![r].key = call.key], r)

\* The first save of a draft.  A key that is taken breaks the unique index: an error.
createDraft(i) ==
    LET call == calls[i]
        fits == eligible /\ PricesAllowed(call.cart) /\ Holders(call.key) = {}
    IN
    \/ ~fits /\ Refuse(i, "refused")
    \/ /\ fits
       /\ orders' = Append(orders, NewRow(call, "DRAFT"))
       /\ Answer(i, "done", Len(orders) + 1, 1)

\* Mutant of Stale: the version that is expected is not compared.
StaleNever(row, call) == FALSE

Stale(row, call) == row.version # call.version

updateDraft(i) ==
    LET call == calls[i]
        r == call.row
        row == orders[r]
    IN
    \/ row.status # "DRAFT" /\ Refuse(i, "refused")
    \/ row.status = "DRAFT" /\ Stale(row, call) /\ Refuse(i, "conflict")
    \/ /\ row.status = "DRAFT" /\ ~Stale(row, call)
       /\ \/ ~PricesAllowed(call.cart) /\ Refuse(i, "refused")
          \/ /\ PricesAllowed(call.cart)
             /\ orders' = [orders EXCEPT ![r].cart = call.cart, ![r].version = @ + 1]
             /\ Answer(i, "done", r, row.version + 1)

\* Mutant of Discardable: a tab that still shows the draft takes a submitted order back.
DiscardableUntilApproved(row) == row.status # "APPROVED"

Discardable(row) == row.status = "DRAFT"

discardDraft(i) ==
    LET r == calls[i].row IN
    \/ orders[r].status = "DISCARDED" /\ Refuse(i, "gone")
    \/ orders[r].status # "DISCARDED" /\ ~Discardable(orders[r]) /\ Refuse(i, "refused")
    \/ /\ orders[r].status # "DISCARDED" /\ Discardable(orders[r])
       /\ orders' = [orders EXCEPT ![r].status = "DISCARDED"]
       /\ Answer(i, "done", r, orders[r].version)

Serve(i) ==
    /\ calls[i].stage = "sent"
    /\ \/ calls[i].kind = "place" /\ createOrder(i)
       \/ calls[i].kind = "submit" /\ submitDraft(i)
       \/ calls[i].kind = "save" /\ calls[i].row = 0 /\ createDraft(i)
       \/ calls[i].kind = "save" /\ calls[i].row # 0 /\ updateDraft(i)
       \/ calls[i].kind = "discard" /\ discardDraft(i)
    /\ UNCHANGED <<eligible, storage, tab, keys, edits>>

\* Others approve orders and put the customer on hold.
ApproveOrder(r) ==
    /\ orders[r].status = "SUBMITTED"
    /\ orders' = [orders EXCEPT ![r].status = "APPROVED"]
    /\ UNCHANGED <<eligible, storage, tab, calls, keys, edits>>

HoldCustomer ==
    /\ eligible /\ eligible' = FALSE
    /\ UNCHANGED <<orders, storage, tab, calls, keys, edits>>

--------------------------------------------------------------------------------
\* What comes back to a tab

\* Call i is over: its place in the count of calls is all that stays of it.
Spent(i) ==
    calls' = [calls EXCEPT ![i] = [Call(@.tab, "save") EXCEPT
                 !.row = 0, !.version = 0, !.key = 1, !.cart = EmptyCart, !.base = EmptyCart,
                 !.pay = "none", !.stage = "over"]]

\* Mutant of SaveFailed: the button goes on spinning when the save was refused.
SaveFailedSpinning(here) == here

SaveFailed(here) == [here EXCEPT !.saving = 0]

\* Edits made while the draft was on its way count as saved.
SaveReturns(t) ==
    LET i == tab[t].saving
        call == calls[i]
    IN
    /\ i # 0 /\ call.stage = "served"
    /\ Spent(i)
    /\ IF call.outcome = "done"
       THEN Show(t, [tab[t] EXCEPT !.saving = 0, !.draft = call.row, !.version = call.version,
                                   !.base = call.cart])
       ELSE tab' = [tab EXCEPT ![t] = SaveFailed(@)] /\ UNCHANGED storage
    /\ UNCHANGED <<serverVars, keys, edits>>

\* The page gives way to another one; a submission that led there removes the backup.
Leave(t, kind) ==
    /\ tab' = [tab EXCEPT ![t] = Closed]
    /\ storage' = IF kind = "discard" THEN storage ELSE NoBackup

\* A refusal leads back to the page, with new props: the effect that fills it runs again.
Refilled(t, kind) ==
    LET here == [tab[t] EXCEPT !.visit = 0] IN
    IF here.page # "draft"
    THEN NewKey /\ Show(t, Restored(here, keys + 1))
    ELSE /\ UNCHANGED keys
         /\ IF orders[here.draft].status = "DRAFT"
            THEN Show(t, Resumed(here, here.draft))
            ELSE Leave(t, kind)

VisitReturns(t) ==
    LET i == tab[t].visit
        call == calls[i]
    IN
    /\ i # 0 /\ call.stage = "served"
    /\ Spent(i)
    /\ \/ call.outcome \in {"done", "gone"} /\ Leave(t, call.kind) /\ UNCHANGED keys
       \/ call.outcome = "conflict" /\ tab' = [tab EXCEPT ![t].visit = 0] /\ UNCHANGED <<storage, keys>>
       \/ call.outcome = "refused" /\ Refilled(t, call.kind)
    /\ UNCHANGED <<serverVars, edits>>

\* The request or the response is lost: a tab that waits is told of a network error.
Fail(i) ==
    /\ calls[i].stage # "over"
    /\ Spent(i)
    /\ tab' = [t \in Tabs |-> [tab[t] EXCEPT !.saving = IF @ = i THEN 0 ELSE @,
                                             !.visit = IF @ = i THEN 0 ELSE @]]
    /\ UNCHANGED <<serverVars, storage, keys, edits>>

--------------------------------------------------------------------------------
\* The specification

UserNext(t) ==
    \/ \E page \in {"new", "new for"} : OpenBuilder(t, page)
    \/ \E r \in DOMAIN orders : OpenDraft(t, r)
    \/ CloseTab(t)
    \/ PickCustomer(t)
    \/ \E step \in {"catalog", "review"} : GoTo(t, step)
    \/ FilterCatalogue(t)
    \/ \E p \in Products, q \in 0..(MaxQuantity + 1) :
          AddToCart(t, p, q) \/ SetQuantity(t, p, q)
    \/ \E p \in Products : ApplyOverride(t, p) \/ RemoveLine(t, p)
    \/ \E pay \in Payment : SubmitOrder(t, pay)
    \/ SaveDraft(t) \/ DiscardDraft(t)

Next ==
    \/ \E t \in Tabs : UserNext(t) \/ SaveReturns(t) \/ VisitReturns(t)
    \/ \E i \in DOMAIN calls : Serve(i) \/ Fail(i)
    \/ \E r \in DOMAIN orders : ApproveOrder(r)
    \/ HoldCustomer

Spec == Init /\ [][Next]_vars

\* The browser settles every call it makes, with the response or with an error.
Settles(t) ==
    \/ SaveReturns(t) \/ VisitReturns(t)
    \/ \E i \in {tab[t].saving, tab[t].visit} \ {0} : Fail(i)

FairSpec == Spec /\ \A t \in Tabs : WF_vars(Settles(t))

--------------------------------------------------------------------------------
\* Properties

\* The rows, the tabs and the calls have the types the program gives them.
OrderEntryTypeOK ==
    /\ orders \in Seq(OrderRows)
    /\ eligible \in BOOLEAN
    /\ storage \in Backups \cup {NoBackup}
    /\ tab \in [Tabs -> Builders]
    /\ calls \in Seq(Calls)
    /\ keys \in 0..MaxKeys /\ edits \in 0..MaxEdits

Served(i) == calls[i].stage = "sent" /\ calls'[i].stage = "served"

\* A save that is accepted replaces lines its tab knows of: whatever other tabs saved in
\* the meantime, and however late the request comes, nothing unseen is overwritten
\* (expected_version in handleSaveDraft and saveDraft).
NoBlindOverwrite ==
    [][\A i \in DOMAIN calls :
         (Served(i) /\ calls[i].kind = "save" /\ calls[i].row # 0 /\ calls'[i].outcome = "done")
             => orders[calls[i].row].cart = calls[i].base]_vars

\* A cart sent with a key is reported as placed only when the row it is reported as holds
\* that cart: retries, lost responses and other tabs included
\* (resolveIdempotentReplayOrConflict).
PlacedIsWhatWasSent ==
    [][\A i \in DOMAIN calls :
         (Served(i) /\ calls[i].kind = "place" /\ calls'[i].outcome = "done")
             => orders'[calls'[i].row].cart = calls[i].cart]_vars

\* Seen through its idempotency keys the service does what OrderIntake promises: one row
\* to a key, and a placed order keeps its key and its lines.
Held(phase, cart) == [phase |-> phase, cart |-> cart]

HeldBy(k) ==
    IF Holders(k) = {} THEN Held("UNUSED", EmptyCart)
    ELSE LET row == orders[CHOOSE r \in Holders(k) : TRUE]
         IN  IF row.status = "DRAFT" THEN Held("DRAFT", EmptyCart) ELSE Held("PLACED", row.cart)

Intake == INSTANCE OrderIntake WITH
    Keys <- 1..MaxKeys,
    Placed <- {Held("PLACED", cart) : cart \in Carts},
    Unused <- Held("UNUSED", EmptyCart),
    Draft <- Held("DRAFT", EmptyCart),
    holds <- [k \in 1..MaxKeys |-> HeldBy(k)]

IntakeRefined == Intake!Spec

\* Whatever a tab waits for, a save or a visit, it stops waiting for: a button that spins
\* comes back, whatever is lost (the finally of handleSaveDraft, the onFinish of the visits).
Awaited(i) == \E t \in Tabs : i \in {tab[t].saving, tab[t].visit}

SpinnersStop == \A i \in 1..MaxCalls : []<>~Awaited(i)
================================================================================
