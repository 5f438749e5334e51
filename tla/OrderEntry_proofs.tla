--------------------------- MODULE OrderEntry_proofs ---------------------------
(***************************************************************************)
(* Proofs about the order builder and the service behind it, for any tabs, *)
(* products and calls: no save overwrites lines its tab did not know of,   *)
(* what is reported as placed is what was sent, and the service implements *)
(* OrderIntake.                                                            *)
(*                                                                         *)
(* The inductive invariant, EInv, follows a draft's version around: a tab  *)
(* that shows a draft, a save on its way and an answer on its way back     *)
(* each hold a version with the lines that version had, so that a version  *)
(* that is still the row's vouches for the lines.  And no key has two      *)
(* orders, whichever of creating, saving and submitting came first.        *)
(***************************************************************************)
EXTENDS OrderEntry, FiniteSetTheorems, TLAPS

--------------------------------------------------------------------------------
\* The inductive invariant

\* OrderEntryTypeOK without the bounds, which only count calls.
Rows == [key : 1..MaxKeys, status : {"DRAFT", "SUBMITTED", "APPROVED", "DISCARDED"},
         version : Nat, cart : Carts, payments : Nat]

CallRows == [tab : Tabs, kind : {"save", "place", "submit", "discard"},
             row : Nat, version : Nat, key : 1..MaxKeys, cart : Carts, base : Carts,
             pay : Payment, stage : {"sent", "served", "over"}, outcome : Outcomes]

Windows == [page : Pages, step : {"customer", "catalog", "review"}, picked : BOOLEAN,
            cart : Carts, draft : Nat, version : Nat, key : 0..MaxKeys, base : Carts,
            saving : Nat, visit : Nat]

\* Version v of row r is over, or the row still holds cart c.
KnownIn(os, r, v, c) ==
    /\ r \in DOMAIN os
    /\ v <= os[r].version
    /\ v = os[r].version => os[r].cart = c

Known(r, v, c) == KnownIn(orders, r, v, c)

CallIn(os, c) ==
    /\ c \in CallRows
    /\ c.stage = "sent" /\ c.kind = "save" /\ c.row # 0 => KnownIn(os, c.row, c.version, c.base)
    /\ c.stage = "sent" /\ c.kind \in {"submit", "discard"} => c.row \in DOMAIN os
    /\ c.stage = "served" /\ c.kind = "save" /\ c.outcome = "done" =>
          KnownIn(os, c.row, c.version, c.cart)

CallSound(c) == CallIn(orders, c)

\* What the page b shows of a draft it knows, and what it waits for was sent.
Anchored(os, cs, b) ==
    /\ b.page = "draft" => b.draft # 0
    /\ b.draft # 0 => KnownIn(os, b.draft, b.version, b.base)
    /\ b.saving # 0 => b.saving \in DOMAIN cs /\ cs[b.saving].kind = "save"
    /\ b.visit # 0 => b.visit \in DOMAIN cs

WindowIn(os, cs, b) ==
    /\ b \in Windows
    /\ b.page # "closed" => b.key # 0
    /\ Anchored(os, cs, b)

WindowSound(b) == WindowIn(orders, calls, b)

KeysUnique == \A k \in 1..MaxKeys : \A r, s \in Holders(k) : r = s

RowsTyped ==
    /\ orders \in Seq(Rows)
    /\ calls \in Seq(CallRows)
    /\ keys \in 0..MaxKeys
    /\ storage # NoBackup => storage \in Backups

EInv ==
    /\ RowsTyped
    /\ KeysUnique
    /\ \A i \in DOMAIN calls : CallSound(calls[i])
    /\ tab = [t \in Tabs |-> tab[t]]
    /\ \A t \in Tabs : WindowSound(tab[t])

--------------------------------------------------------------------------------
\* Carts

LEMMA EmptyIsCart == ASSUME OrderEntryAssumption PROVE EmptyCart \in Carts
BY DEF OrderEntryAssumption, EmptyCart, Carts

LEMMA CartEdited ==
    ASSUME NEW c \in Carts, NEW p \in Products, NEW q \in 0..MaxQuantity \cup {Overridden}
    PROVE  [c EXCEPT ![p] = q] \in Carts
BY DEF Carts

LEMMA ClampedRange ==
    ASSUME OrderEntryAssumption, NEW q \in 0..(MaxQuantity + 1)
    PROVE  Clamped(q) \in 0..MaxQuantity
BY DEF OrderEntryAssumption, Clamped

--------------------------------------------------------------------------------
\* What a step does to the rows of orders

Alike(a, b) == a.key = b.key /\ a.status = b.status /\ a.version = b.version /\ a.cart = b.cart

Kept ==
    /\ DOMAIN orders' = DOMAIN orders
    /\ \A s \in DOMAIN orders : Alike(orders'[s], orders[s])

OthersKept(r) ==
    /\ r \in DOMAIN orders
    /\ DOMAIN orders' = DOMAIN orders
    /\ \A s \in DOMAIN orders : s # r => Alike(orders'[s], orders[s])

Created(k, status, cart) ==
    LET n == Len(orders) + 1 IN
    /\ Holders(k) = {}
    /\ n \notin DOMAIN orders /\ DOMAIN orders' = DOMAIN orders \cup {n}
    /\ \A s \in DOMAIN orders : Alike(orders'[s], orders[s])
    /\ orders'[n].key = k /\ orders'[n].status = status
    /\ orders'[n].cart = cart /\ orders'[n].version = 1

\* A draft becomes an order, under its key or under another one.
Promoted(r, k) ==
    /\ OthersKept(r) /\ orders[r].status = "DRAFT" /\ Holders(k) \ {r} = {}
    /\ orders'[r].key = k /\ orders'[r].status = "SUBMITTED"
    /\ orders'[r].version = orders[r].version /\ orders'[r].cart = orders[r].cart

Edited(r) ==
    /\ OthersKept(r) /\ orders[r].status = "DRAFT" /\ orders'[r].status = "DRAFT"
    /\ orders'[r].key = orders[r].key /\ orders'[r].version = orders[r].version + 1

\* The status moves from one of the three to the next.
Moved(r, from, to) ==
    /\ OthersKept(r) /\ orders[r].status = from /\ orders'[r].status = to
    /\ orders'[r].key = orders[r].key
    /\ orders'[r].version = orders[r].version /\ orders'[r].cart = orders[r].cart

RowStep ==
    /\ orders' \in Seq(Rows)
    /\ \/ Kept
       \/ \E k \in 1..MaxKeys, status \in {"DRAFT", "SUBMITTED"}, cart \in Carts : Created(k, status, cart)
       \/ \E r \in DOMAIN orders :
             \/ \E k \in 1..MaxKeys : Promoted(r, k)
             \/ Edited(r)
             \/ Moved(r, "DRAFT", "DISCARDED")
             \/ Moved(r, "SUBMITTED", "APPROVED")

LEMMA RowFields ==
    ASSUME orders \in Seq(Rows), NEW r \in DOMAIN orders
    PROVE  /\ r \in Nat \ {0} /\ orders[r] \in Rows
           /\ orders[r].version \in Nat /\ orders[r].cart \in Carts /\ orders[r].key \in 1..MaxKeys
<1>1. r \in Nat \ {0} /\ orders[r] \in Rows
  OBVIOUS
<1> QED
  BY <1>1 DEF Rows

\* A version that vouches for a cart goes on doing so, or is over.
LEMMA KnownStays ==
    ASSUME orders \in Seq(Rows), RowStep, NEW r, NEW v \in Nat, NEW c, Known(r, v, c)
    PROVE  KnownIn(orders', r, v, c)
<1>1. r \in DOMAIN orders /\ v <= orders[r].version /\ (v = orders[r].version => orders[r].cart = c)
  BY DEF Known, KnownIn
<1>2. orders[r].version \in Nat
  BY <1>1, RowFields
<1> DEFINE Later ==
             /\ r \in DOMAIN orders'
             /\ \/ orders'[r].version = orders[r].version /\ orders'[r].cart = orders[r].cart
                \/ orders'[r].version = orders[r].version + 1
<1>3. Later
  <2>1. CASE Kept
    BY <1>1, <2>1 DEF Kept, Alike
  <2>2. CASE \E k \in 1..MaxKeys, status \in {"DRAFT", "SUBMITTED"}, cart \in Carts : Created(k, status, cart)
    BY <1>1, <2>2, Zenon DEF Created, Alike
  <2>3. ASSUME NEW s \in DOMAIN orders,
               \/ \E k \in 1..MaxKeys : Promoted(s, k)
               \/ Edited(s) \/ Moved(s, "DRAFT", "DISCARDED") \/ Moved(s, "SUBMITTED", "APPROVED")
        PROVE  Later
    BY <1>1, <2>3, Zenon DEF Promoted, Edited, Moved, OthersKept, Alike
  <2> QED
    BY <2>1, <2>2, <2>3 DEF RowStep
<1>4. v <= orders'[r].version /\ (v = orders'[r].version => orders'[r].cart = c)
  BY <1>1, <1>2, <1>3
<1> QED
  BY <1>3, <1>4 DEF KnownIn

--------------------------------------------------------------------------------
\* Keys and the orders that hold them

HoldersIn(os, k) == {r \in DOMAIN os : os[r].key = k /\ os[r].status # "DISCARDED"}

OneHolder(os, k) == \A r, s \in HoldersIn(os, k) : r = s

\* HeldBy, of the rows os.
HeldIn(os, k) ==
    IF HoldersIn(os, k) = {} THEN Held("UNUSED", EmptyCart)
    ELSE LET row == os[CHOOSE r \in HoldersIn(os, k) : TRUE]
         IN  IF row.status = "DRAFT" THEN Held("DRAFT", EmptyCart) ELSE Held("PLACED", row.cart)

LEMMA HoldersAre ==
    /\ \A k : Holders(k) = HoldersIn(orders, k)
    /\ \A k : HeldBy(k) = HeldIn(orders, k)
    /\ KeysUnique <=> \A k \in 1..MaxKeys : OneHolder(orders, k)
BY DEF Holders, HoldersIn, HeldBy, HeldIn, KeysUnique, OneHolder

LEMMA SameHeld ==
    ASSUME NEW os, NEW qs, NEW k, HoldersIn(qs, k) = HoldersIn(os, k),
           \A r \in HoldersIn(os, k) : /\ qs[r].status = "DRAFT" <=> os[r].status = "DRAFT"
                                       /\ os[r].status # "DRAFT" => qs[r].cart = os[r].cart
    PROVE  HeldIn(qs, k) = HeldIn(os, k)
<1> DEFINE H == HoldersIn(os, k)
           one == CHOOSE x \in H : TRUE
<1>1. CASE H = {}
  BY <1>1 DEF HeldIn
<1>2. CASE H # {}
  <2> DEFINE Like(x) == /\ qs[x].status = "DRAFT" <=> os[x].status = "DRAFT"
                        /\ os[x].status # "DRAFT" => qs[x].cart = os[x].cart
  <2>0. \A x \in H : Like(x)
    OBVIOUS
  <2>1. one \in H
    BY <1>2
  <2>2. HeldIn(qs, k) = IF qs[one].status = "DRAFT" THEN Held("DRAFT", EmptyCart) ELSE Held("PLACED", qs[one].cart)
    BY <1>2 DEF HeldIn
  <2>3. HeldIn(os, k) = IF os[one].status = "DRAFT" THEN Held("DRAFT", EmptyCart) ELSE Held("PLACED", os[one].cart)
    BY <1>2 DEF HeldIn
  <2>4. Like(one)
    <3> HIDE DEF H, one, Like
    <3> QED
      BY <2>0, <2>1
  <2> HIDE DEF H, one
  <2> QED
    BY <2>2, <2>3, <2>4
<1> QED
  BY <1>1, <1>2

\* The key of a row that is its only holder stands for what the row is.
LEMMA HeldRow ==
    ASSUME NEW os, NEW k, NEW r, HoldersIn(os, k) = {r}
    PROVE  HeldIn(os, k) = IF os[r].status = "DRAFT" THEN Held("DRAFT", EmptyCart)
                           ELSE Held("PLACED", os[r].cart)
BY DEF HeldIn

LEMMA HeldNothing ==
    ASSUME NEW os, NEW k, HoldersIn(os, k) = {}
    PROVE  HeldIn(os, k) = Held("UNUSED", EmptyCart)
BY DEF HeldIn

\* Which rows hold a key after each kind of step.
LEMMA HoldersKept ==
    ASSUME Kept \/ (\E r \in DOMAIN orders : Edited(r) \/ Moved(r, "SUBMITTED", "APPROVED")), NEW k
    PROVE  /\ HoldersIn(orders', k) = HoldersIn(orders, k)
           /\ HeldIn(orders', k) = HeldIn(orders, k)
<1> DEFINE Like(s) == /\ orders'[s].key = orders[s].key
                      /\ orders'[s].status = "DISCARDED" <=> orders[s].status = "DISCARDED"
                      /\ orders'[s].status = "DRAFT" <=> orders[s].status = "DRAFT"
                      /\ orders[s].status # "DRAFT" => orders'[s].cart = orders[s].cart
           All == DOMAIN orders' = DOMAIN orders /\ \A s \in DOMAIN orders : Like(s)
<1>1. All
  <2>1. CASE Kept
    BY <2>1 DEF Kept, Alike
  <2>2. ASSUME NEW r \in DOMAIN orders, Edited(r) PROVE All
    BY <2>2 DEF Edited, OthersKept, Alike
  <2>3. ASSUME NEW r \in DOMAIN orders, Moved(r, "SUBMITTED", "APPROVED") PROVE All
    BY <2>3 DEF Moved, OthersKept, Alike
  <2> QED
    BY <2>1, <2>2, <2>3
<1>2. HoldersIn(orders', k) = HoldersIn(orders, k)
  BY <1>1 DEF HoldersIn
<1>3. \A r \in HoldersIn(orders, k) : Like(r)
  BY <1>1 DEF HoldersIn
<1> HIDE DEF Like
<1>4. HeldIn(orders', k) = HeldIn(orders, k)
  BY <1>2, <1>3, SameHeld DEF Like
<1> QED
  BY <1>2, <1>4

\* A new row holds its key alone.
LEMMA HoldersCreated ==
    ASSUME NEW k \in 1..MaxKeys, NEW status \in {"DRAFT", "SUBMITTED"}, NEW cart \in Carts,
           Created(k, status, cart), NEW j \in 1..MaxKeys
    PROVE  /\ j = k => HoldersIn(orders, k) = {} /\ HoldersIn(orders', k) = {Len(orders) + 1}
           /\ j # k => /\ HoldersIn(orders', j) = HoldersIn(orders, j)
                       /\ HeldIn(orders', j) = HeldIn(orders, j)
<1> DEFINE n == Len(orders) + 1
<1>1. /\ HoldersIn(orders, k) = {}
      /\ n \notin DOMAIN orders /\ DOMAIN orders' = DOMAIN orders \cup {n}
      /\ \A s \in DOMAIN orders : Alike(orders'[s], orders[s])
      /\ orders'[n].key = k /\ orders'[n].status # "DISCARDED"
  BY HoldersAre DEF Created
<1> HIDE DEF n
<1>2. ASSUME j = k PROVE HoldersIn(orders', k) = {n}
  BY <1>1 DEF HoldersIn, Alike
<1>3. ASSUME j # k PROVE HoldersIn(orders', j) = HoldersIn(orders, j) /\ HeldIn(orders', j) = HeldIn(orders, j)
  <2>1. HoldersIn(orders', j) = HoldersIn(orders, j)
    BY <1>1, <1>3 DEF HoldersIn, Alike
  <2>2. \A r \in HoldersIn(orders, j) : orders'[r].status = orders[r].status /\ orders'[r].cart = orders[r].cart
    BY <1>1 DEF HoldersIn, Alike
  <2> QED
    BY <2>1, <2>2, SameHeld
<1> QED
  BY <1>1, <1>2, <1>3 DEF n

\* A draft that is submitted gives its key up for the one it is submitted with.
LEMMA HoldersPromoted ==
    ASSUME NEW r \in DOMAIN orders, NEW k \in 1..MaxKeys, Promoted(r, k), NEW j \in 1..MaxKeys
    PROVE  /\ HoldersIn(orders', k) = {r}
           /\ j # k => HoldersIn(orders', j) = HoldersIn(orders, j) \ {r}
           /\ j # k /\ j # orders[r].key => HeldIn(orders', j) = HeldIn(orders, j)
<1>1. /\ DOMAIN orders' = DOMAIN orders
      /\ \A s \in DOMAIN orders : s # r => Alike(orders'[s], orders[s])
      /\ HoldersIn(orders, k) \ {r} = {}
      /\ orders'[r].key = k /\ orders'[r].status = "SUBMITTED"
  BY HoldersAre DEF Promoted, OthersKept
<1>2. HoldersIn(orders', k) = {r}
  BY <1>1 DEF HoldersIn, Alike
<1>3. j # k => HoldersIn(orders', j) = HoldersIn(orders, j) \ {r}
  BY <1>1 DEF HoldersIn, Alike
<1>4. ASSUME j # k, j # orders[r].key PROVE HeldIn(orders', j) = HeldIn(orders, j)
  <2>1. r \notin HoldersIn(orders, j)
    BY <1>4 DEF HoldersIn
  <2>2. HoldersIn(orders', j) = HoldersIn(orders, j)
    BY <1>3, <1>4, <2>1
  <2>3. \A s \in HoldersIn(orders, j) : orders'[s].status = orders[s].status /\ orders'[s].cart = orders[s].cart
    BY <1>1, <2>1 DEF HoldersIn, Alike
  <2> QED
    BY <2>2, <2>3, SameHeld
<1> QED
  BY <1>2, <1>3, <1>4

LEMMA HoldersDropped ==
    ASSUME NEW r \in DOMAIN orders, Moved(r, "DRAFT", "DISCARDED"), NEW j
    PROVE  /\ HoldersIn(orders', j) = HoldersIn(orders, j) \ {r}
           /\ j # orders[r].key => HeldIn(orders', j) = HeldIn(orders, j)
<1>1. /\ DOMAIN orders' = DOMAIN orders
      /\ \A s \in DOMAIN orders : s # r => Alike(orders'[s], orders[s])
      /\ orders'[r].status = "DISCARDED"
  BY DEF Moved, OthersKept
<1>2. HoldersIn(orders', j) = HoldersIn(orders, j) \ {r}
  BY <1>1 DEF HoldersIn, Alike
<1>3. ASSUME j # orders[r].key PROVE HeldIn(orders', j) = HeldIn(orders, j)
  <2>1. r \notin HoldersIn(orders, j)
    BY <1>3 DEF HoldersIn
  <2>2. HoldersIn(orders', j) = HoldersIn(orders, j)
    BY <1>2, <2>1
  <2>3. \A s \in HoldersIn(orders, j) : orders'[s].status = orders[s].status /\ orders'[s].cart = orders[s].cart
    BY <1>1, <2>1 DEF HoldersIn, Alike
  <2> QED
    BY <2>2, <2>3, SameHeld
<1> QED
  BY <1>2, <1>3

LEMMA OneHolderStays ==
    ASSUME RowStep, KeysUnique
    PROVE  KeysUnique'
<1> SUFFICES ASSUME NEW j \in 1..MaxKeys PROVE OneHolder(orders', j)
  BY DEF KeysUnique, OneHolder, Holders, HoldersIn
<1>1. OneHolder(orders, j)
  BY HoldersAre
<1>2. CASE HoldersIn(orders', j) \subseteq HoldersIn(orders, j)
  BY <1>1, <1>2 DEF OneHolder
<1>3. CASE \E r : HoldersIn(orders', j) = {r}
  BY <1>3 DEF OneHolder
<1>4. CASE Kept
  BY <1>2, <1>4, HoldersKept
<1>5. CASE \E k \in 1..MaxKeys, status \in {"DRAFT", "SUBMITTED"}, cart \in Carts : Created(k, status, cart)
  BY <1>2, <1>3, <1>5, HoldersCreated
<1>6. ASSUME NEW r \in DOMAIN orders, Edited(r) \/ Moved(r, "SUBMITTED", "APPROVED") PROVE OneHolder(orders', j)
  BY <1>2, <1>6, HoldersKept
<1>7. ASSUME NEW r \in DOMAIN orders, Moved(r, "DRAFT", "DISCARDED") PROVE OneHolder(orders', j)
  BY <1>2, <1>7, HoldersDropped
<1>8. ASSUME NEW r \in DOMAIN orders, NEW k \in 1..MaxKeys, Promoted(r, k) PROVE OneHolder(orders', j)
  <2>1. CASE j = k
    BY <1>3, <1>8, <2>1, HoldersPromoted
  <2>2. CASE j # k
    BY <1>2, <1>8, <2>2, HoldersPromoted
  <2> QED
    BY <2>1, <2>2
<1> QED
  BY <1>4, <1>5, <1>6, <1>7, <1>8 DEF RowStep

--------------------------------------------------------------------------------
\* Each kind of step is one of the intake, or none

Holding(os) == [k \in 1..MaxKeys |-> HeldIn(os, k)]

LEMMA HoldingIs ==
    /\ [k \in 1..MaxKeys |-> HeldBy(k)] = Holding(orders)
    /\ [k \in 1..MaxKeys |-> HeldBy(k)]' = Holding(orders')
<1>1. \A k : HeldBy(k) = HeldIn(orders, k)
  BY HoldersAre
<1>2. \A k : HeldBy(k)' = HeldIn(orders', k)
  BY DEF Holders, HoldersIn, HeldBy, HeldIn
<1> QED
  BY <1>1, <1>2 DEF Holding

LEMMA RowStepRefines ==
    ASSUME orders \in Seq(Rows), KeysUnique, RowStep
    PROVE  Intake!Next \/ UNCHANGED [k \in 1..MaxKeys |-> HeldBy(k)]
<1> DEFINE h == Holding(orders)
           g == Holding(orders')
           Nothing == Held("UNUSED", EmptyCart)
           Draft == Held("DRAFT", EmptyCart)
<1>1. /\ [k \in 1..MaxKeys |-> HeldBy(k)] = h
      /\ [k \in 1..MaxKeys |-> HeldBy(k)]' = g
  BY HoldingIs
<1>2. /\ h = [k \in 1..MaxKeys |-> h[k]] /\ g = [k \in 1..MaxKeys |-> g[k]]
      /\ \A k \in 1..MaxKeys : h[k] = HeldIn(orders, k) /\ g[k] = HeldIn(orders', k)
  BY DEF Holding
<1> HIDE DEF h, g
<1>3. ASSUME \A k \in 1..MaxKeys : HeldIn(orders', k) = HeldIn(orders, k)
      PROVE  UNCHANGED [k \in 1..MaxKeys |-> HeldBy(k)]
  BY <1>1, <1>2, <1>3
<1>4. CASE Kept
  BY <1>3, <1>4, HoldersKept
<1>5. ASSUME NEW r \in DOMAIN orders, Edited(r) \/ Moved(r, "SUBMITTED", "APPROVED")
      PROVE  UNCHANGED [k \in 1..MaxKeys |-> HeldBy(k)]
  BY <1>3, <1>5, HoldersKept
<1>6. ASSUME NEW k \in 1..MaxKeys, NEW cart \in Carts, Created(k, "DRAFT", cart)
      PROVE  Intake!Next
  <2>1. /\ HoldersIn(orders, k) = {} /\ HoldersIn(orders', k) = {Len(orders) + 1}
        /\ \A j \in 1..MaxKeys : j # k => HeldIn(orders', j) = HeldIn(orders, j)
    BY <1>6, HoldersCreated
  <2>2. orders'[Len(orders) + 1].status = "DRAFT"
    BY <1>6 DEF Created
  <2>3. h[k] = Nothing /\ g[k] = Draft
    BY <1>2, <2>1, <2>2, HeldNothing, HeldRow
  <2>4. g = [h EXCEPT ![k] = Draft]
    BY <1>2, <2>1, <2>3
  <2> HIDE DEF Nothing, Draft
  <2>5. Intake!Save(k)
    BY <1>1, <2>3, <2>4 DEF Intake!Save, Nothing, Draft
  <2> QED
    BY <2>5 DEF Intake!Next
<1>7. ASSUME NEW k \in 1..MaxKeys, NEW cart \in Carts, Created(k, "SUBMITTED", cart)
      PROVE  Intake!Next
  <2> DEFINE placed == Held("PLACED", cart)
  <2>1. /\ HoldersIn(orders, k) = {} /\ HoldersIn(orders', k) = {Len(orders) + 1}
        /\ \A j \in 1..MaxKeys : j # k => HeldIn(orders', j) = HeldIn(orders, j)
    BY <1>7, HoldersCreated
  <2>2. orders'[Len(orders) + 1].status = "SUBMITTED" /\ orders'[Len(orders) + 1].cart = cart
    BY <1>7 DEF Created
  <2>3. h[k] = Nothing /\ g[k] = placed
    BY <1>2, <2>1, <2>2, HeldNothing, HeldRow
  <2>4. g = [h EXCEPT ![k] = g[k]]
    BY <1>2, <2>1
  <2>5. placed \in {Held("PLACED", c) : c \in Carts}
    OBVIOUS
  <2> HIDE DEF Nothing, Draft, placed
  <2>6. Intake!Place(k)
    BY <1>1, <2>3, <2>4, <2>5 DEF Intake!Place, Nothing, Draft
  <2> QED
    BY <2>6 DEF Intake!Next
<1>8. ASSUME NEW r \in DOMAIN orders, Moved(r, "DRAFT", "DISCARDED")
      PROVE  Intake!Next
  <2> DEFINE k == orders[r].key
  <2>1. k \in 1..MaxKeys
    BY RowFields
  <2>2. r \in HoldersIn(orders, k) /\ orders[r].status = "DRAFT"
    BY <1>8 DEF HoldersIn, Moved
  <2>3. HoldersIn(orders, k) = {r}
    BY <2>1, <2>2, HoldersAre DEF OneHolder
  <2>4. HoldersIn(orders', k) = {}
    BY <1>8, <2>3, HoldersDropped
  <2>5. \A j \in 1..MaxKeys : j # k => HeldIn(orders', j) = HeldIn(orders, j)
    BY <1>8, HoldersDropped
  <2> HIDE DEF k
  <2>6. h[k] = Draft /\ g[k] = Nothing
    BY <1>2, <2>1, <2>2, <2>3, <2>4, HeldNothing, HeldRow
  <2>7. g = [h EXCEPT ![k] = Nothing]
    BY <1>2, <2>1, <2>5, <2>6
  <2> HIDE DEF Nothing, Draft
  <2>8. Intake!GiveUp(k)
    BY <1>1, <2>6, <2>7 DEF Intake!GiveUp, Nothing, Draft
  <2> QED
    BY <2>1, <2>8 DEF Intake!Next
<1>9. ASSUME NEW r \in DOMAIN orders, NEW k \in 1..MaxKeys, Promoted(r, k)
      PROVE  Intake!Next
  <2> DEFINE old == orders[r].key
             cart == orders[r].cart
             placed == Held("PLACED", cart)
  <2>1. old \in 1..MaxKeys /\ cart \in Carts
    BY RowFields
  <2>2. r \in HoldersIn(orders, old) /\ orders[r].status = "DRAFT"
    BY <1>9 DEF HoldersIn, Promoted
  <2>3. HoldersIn(orders, old) = {r}
    BY <2>1, <2>2, HoldersAre DEF OneHolder
  <2>4. HoldersIn(orders', k) = {r} /\ orders'[r].status = "SUBMITTED" /\ orders'[r].cart = cart
    BY <1>9, HoldersPromoted DEF Promoted
  <2>5. h[old] = Draft
    BY <1>2, <2>1, <2>2, <2>3, HeldRow
  <2>6. g[k] = placed
    BY <1>2, <2>4, HeldRow
  <2>7. placed \in {Held("PLACED", c) : c \in Carts}
    BY <2>1
  <2>8. \A j \in 1..MaxKeys : j # k /\ j # old => g[j] = h[j]
    BY <1>2, <1>9, HoldersPromoted
  <2> HIDE DEF placed, old
  <2>9. CASE k = old
    <3>1. g = [h EXCEPT ![k] = g[k]]
      BY <1>2, <2>8, <2>9
    <3> HIDE DEF Nothing, Draft
    <3>2. Intake!Place(k)
      BY <1>1, <2>5, <2>6, <2>7, <2>9, <3>1 DEF Intake!Place, Nothing, Draft
    <3> QED
      BY <3>2 DEF Intake!Next
  <2>10. CASE k # old
    <3>1. HoldersIn(orders, k) = {}
      <4>1. HoldersIn(orders, k) \ {r} = {}
        BY <1>9, HoldersAre DEF Promoted
      <4>2. r \notin HoldersIn(orders, k)
        BY <2>10 DEF HoldersIn, old
      <4> QED
        BY <4>1, <4>2
    <3>2. HoldersIn(orders', old) = {}
      BY <1>9, <2>1, <2>3, <2>10, HoldersPromoted
    <3>3. h[k] = Nothing /\ g[old] = Nothing
      BY <1>2, <2>1, <3>1, <3>2, HeldNothing
    <3>4. g = [h EXCEPT ![k] = g[k], ![old] = Nothing]
      <4> DEFINE mid == [h EXCEPT ![k] = g[k]]
      <4>1. mid = [j \in 1..MaxKeys |-> IF j = k THEN g[k] ELSE h[j]]
        BY <1>2
      <4>2. [h EXCEPT ![k] = g[k], ![old] = Nothing] = [mid EXCEPT ![old] = Nothing]
        OBVIOUS
      <4> HIDE DEF mid, Nothing
      <4>3. [mid EXCEPT ![old] = Nothing] = [j \in 1..MaxKeys |-> IF j = old THEN Nothing ELSE mid[j]]
        BY <4>1
      <4> QED
        BY <1>2, <2>8, <2>10, <3>3, <4>1, <4>2, <4>3
    <3> HIDE DEF Nothing, Draft
    <3>5. Intake!Place(k)
      BY <1>1, <2>1, <2>5, <2>6, <2>7, <2>10, <3>3, <3>4 DEF Intake!Place, Nothing, Draft
    <3> QED
      BY <3>5 DEF Intake!Next
  <2> QED
    BY <2>9, <2>10
<1> QED
  <2>1. CASE \E k \in 1..MaxKeys, status \in {"DRAFT", "SUBMITTED"}, cart \in Carts : Created(k, status, cart)
    <3>1. PICK k \in 1..MaxKeys, status \in {"DRAFT", "SUBMITTED"}, cart \in Carts : Created(k, status, cart)
      BY <2>1
    <3>2. CASE status = "DRAFT"
      BY <1>6, <3>1, <3>2
    <3>3. CASE status = "SUBMITTED"
      BY <1>7, <3>1, <3>3
    <3> QED
      BY <3>2, <3>3
  <2> QED
    BY <1>4, <1>5, <1>8, <1>9, <2>1 DEF RowStep

--------------------------------------------------------------------------------
\* Calls

LEMMA CallFields ==
    ASSUME calls \in Seq(CallRows), NEW i \in DOMAIN calls
    PROVE  /\ i \in Nat \ {0} /\ calls[i] \in CallRows
           /\ calls[i].row \in Nat /\ calls[i].version \in Nat /\ calls[i].key \in 1..MaxKeys
           /\ calls[i].cart \in Carts /\ calls[i].base \in Carts
           /\ calls[i].kind \in {"save", "place", "submit", "discard"}
<1>1. i \in Nat \ {0} /\ calls[i] \in CallRows
  OBVIOUS
<1> QED
  BY <1>1 DEF CallRows

OnlyCall(i) ==
    /\ calls' \in Seq(CallRows) /\ DOMAIN calls' = DOMAIN calls /\ i \in DOMAIN calls
    /\ \A k \in DOMAIN calls : k # i => calls'[k] = calls[k]

LEMMA Answered ==
    ASSUME calls \in Seq(CallRows), NEW i \in DOMAIN calls, NEW outcome \in Outcomes,
           NEW r \in Nat, NEW v \in Nat, Answer(i, outcome, r, v)
    PROVE  /\ OnlyCall(i)
           /\ calls'[i].stage = "served" /\ calls'[i].outcome = outcome /\ calls'[i].row = r
           /\ calls'[i].kind = calls[i].kind /\ calls'[i].cart = calls[i].cart
           /\ calls[i].kind = "save" => calls'[i].version = v
<1> DEFINE w == IF calls[i].kind = "save" THEN v ELSE 0
           new == [calls[i] EXCEPT !.stage = "served", !.outcome = outcome, !.row = r, !.version = w]
<1>1. calls[i] \in CallRows /\ w \in Nat
  BY CallFields
<1>2. calls' = [calls EXCEPT ![i].stage = "served", ![i].outcome = outcome, ![i].row = r,
                             ![i].version = w]
  BY DEF Answer
<1> HIDE DEF w
<1>3. DOMAIN calls' = DOMAIN calls /\ \A k \in DOMAIN calls : k # i => calls'[k] = calls[k]
  BY <1>2
<1>4. calls'[i] = new
  BY <1>2
<1>5. /\ new \in CallRows
      /\ new.stage = "served" /\ new.outcome = outcome /\ new.row = r /\ new.version = w
      /\ new.kind = calls[i].kind /\ new.cart = calls[i].cart
  BY <1>1 DEF CallRows
<1> HIDE DEF new
<1>6. calls' \in Seq(CallRows)
  <2>1. calls' = [calls EXCEPT ![i] = new]
    BY <1>2, <1>3, <1>4
  <2> QED
    BY <1>5, <2>1
<1> QED
  BY <1>3, <1>4, <1>5, <1>6 DEF OnlyCall, w

\* What serving call i does.
ServedWell(i) ==
    /\ RowStep /\ OnlyCall(i)
    /\ calls'[i].stage = "served" /\ calls'[i].kind = calls[i].kind
    /\ calls'[i].outcome = "done" /\ calls[i].kind = "save" =>
          /\ KnownIn(orders', calls'[i].row, calls'[i].version, calls'[i].cart)
          /\ calls[i].row # 0 => orders[calls[i].row].cart = calls[i].base
    /\ calls'[i].outcome = "done" /\ calls[i].kind = "place" =>
          orders'[calls'[i].row].cart = calls[i].cart

LEMMA RefusedWell ==
    ASSUME RowsTyped, NEW i \in DOMAIN calls, NEW outcome \in Outcomes \ {"done"},
           Refuse(i, outcome)
    PROVE  ServedWell(i)
<1>1. /\ OnlyCall(i)
      /\ calls'[i].stage = "served" /\ calls'[i].outcome = outcome /\ calls'[i].kind = calls[i].kind
  BY CallFields, Answered DEF RowsTyped, Refuse
<1>2. RowStep
  BY DEF RowsTyped, Refuse, RowStep, Kept, Alike
<1> QED
  BY <1>1, <1>2 DEF ServedWell

\* The payment recorded with an order changes nothing else of its row.
LEMMA Collected ==
    ASSUME calls \in Seq(CallRows), NEW i \in DOMAIN calls, NEW rows \in Seq(Rows), NEW r \in DOMAIN rows,
           Collect(i, rows, r)
    PROVE  /\ orders' \in Seq(Rows) /\ DOMAIN orders' = DOMAIN rows
           /\ \A s \in DOMAIN rows : Alike(orders'[s], rows[s])
           /\ OnlyCall(i) /\ calls'[i].stage = "served" /\ calls'[i].row = r
           /\ calls'[i].kind = calls[i].kind /\ calls'[i].cart = calls[i].cart
<1>1. PICK refused : /\ orders' = IF calls[i].pay # "none" /\ ~refused
                                  THEN [rows EXCEPT ![r].payments = @ + 1] ELSE rows
                     /\ Answer(i, IF refused THEN "refused" ELSE "done", r, rows[r].version)
  BY Zenon DEF Collect
<1>2. r \in Nat /\ rows[r] \in Rows /\ rows[r].version \in Nat /\ rows[r].payments + 1 \in Nat
  <2>1. r \in Nat /\ rows[r] \in Rows
    OBVIOUS
  <2> QED
    BY <2>1 DEF Rows
<1>3. /\ OnlyCall(i) /\ calls'[i].stage = "served" /\ calls'[i].row = r
      /\ calls'[i].kind = calls[i].kind /\ calls'[i].cart = calls[i].cart
  <2> DEFINE outcome == IF refused THEN "refused" ELSE "done"
  <2>1. outcome \in Outcomes
    BY DEF Outcomes
  <2>2. Answer(i, outcome, r, rows[r].version)
    BY <1>1
  <2> HIDE DEF outcome
  <2> QED
    BY <1>2, <2>1, <2>2, Answered
<1>4. CASE orders' = rows
  BY <1>3, <1>4 DEF Alike
<1>5. CASE orders' = [rows EXCEPT ![r].payments = @ + 1]
  <2> DEFINE paid == [rows[r] EXCEPT !.payments = @ + 1]
  <2>1. paid \in Rows /\ Alike(paid, rows[r])
    BY <1>2 DEF Rows, Alike
  <2>2. orders' = [rows EXCEPT ![r] = paid]
    BY <1>5
  <2> HIDE DEF paid
  <2>3. /\ orders' \in Seq(Rows) /\ DOMAIN orders' = DOMAIN rows /\ orders'[r] = paid
        /\ \A s \in DOMAIN rows : s # r => orders'[s] = rows[s]
    BY <2>1, <2>2
  <2>4. \A s \in DOMAIN rows : Alike(orders'[s], rows[s])
    BY <2>1, <2>3 DEF Alike
  <2> QED
    BY <1>3, <2>3, <2>4
<1> QED
  BY <1>1, <1>4, <1>5

\* An order or a draft is created.
LEMMA Grown ==
    ASSUME OrderEntryAssumption, orders \in Seq(Rows), NEW call \in CallRows,
           NEW status \in {"DRAFT", "SUBMITTED"}
    PROVE  LET n == Len(orders) + 1
               rows == Append(orders, NewRow(call, status))
           IN  /\ rows \in Seq(Rows) /\ n \in Nat /\ n \notin DOMAIN orders
               /\ DOMAIN rows = DOMAIN orders \cup {n}
               /\ \A s \in DOMAIN orders : rows[s] = orders[s]
               /\ rows[n].key = call.key /\ rows[n].status = status
               /\ rows[n].cart = call.cart /\ rows[n].version = 1
<1> DEFINE new == NewRow(call, status)
<1>1. /\ new \in Rows
      /\ new.key = call.key /\ new.status = status /\ new.cart = call.cart /\ new.version = 1
  BY DEF CallRows, NewRow, Rows
<1> DEFINE n == Len(orders) + 1
           rows == Append(orders, new)
<1> HIDE DEF new
<1>2. /\ rows \in Seq(Rows) /\ n \in Nat /\ n \notin DOMAIN orders
      /\ DOMAIN rows = DOMAIN orders \cup {n}
      /\ \A s \in DOMAIN orders : rows[s] = orders[s]
      /\ rows[n] = new
  BY <1>1
<1> HIDE DEF n, rows
<1> QED
  BY <1>1, <1>2 DEF n, rows, new

LEMMA createOrderWell ==
    ASSUME OrderEntryAssumption, RowsTyped, NEW i \in DOMAIN calls, calls[i].kind = "place",
           createOrder(i)
    PROVE  ServedWell(i)
<1> DEFINE call == calls[i]
<1>1. /\ orders \in Seq(Rows) /\ calls \in Seq(CallRows)
      /\ call \in CallRows /\ call.key \in 1..MaxKeys /\ call.cart \in Carts
  BY CallFields DEF RowsTyped
<1>2. CASE \E outcome \in Outcomes \ {"done"} : Refuse(i, outcome)
  BY <1>2, RefusedWell
<1>3. ASSUME NEW r \in Holders(call.key), Replays(orders[r], call), Collect(i, orders, r)
      PROVE  ServedWell(i)
  <2>1. r \in DOMAIN orders /\ orders[r].cart = call.cart
    BY <1>3 DEF Holders, Replays
  <2>2. /\ orders' \in Seq(Rows) /\ DOMAIN orders' = DOMAIN orders
        /\ \A s \in DOMAIN orders : Alike(orders'[s], orders[s])
        /\ OnlyCall(i) /\ calls'[i].stage = "served" /\ calls'[i].row = r
        /\ calls'[i].kind = calls[i].kind
    BY <1>1, <1>3, <2>1, Collected
  <2>3. RowStep
    BY <2>2 DEF RowStep, Kept
  <2> QED
    BY <2>1, <2>2, <2>3 DEF ServedWell, Alike
<1>4. ASSUME Holders(call.key) = {},
             Collect(i, Append(orders, NewRow(call, "SUBMITTED")), Len(orders) + 1)
      PROVE  ServedWell(i)
  <2> DEFINE n == Len(orders) + 1
             rows == Append(orders, NewRow(call, "SUBMITTED"))
  <2>1. /\ rows \in Seq(Rows) /\ n \in Nat /\ n \notin DOMAIN orders
        /\ DOMAIN rows = DOMAIN orders \cup {n}
        /\ \A s \in DOMAIN orders : rows[s] = orders[s]
        /\ rows[n].key = call.key /\ rows[n].status = "SUBMITTED"
        /\ rows[n].cart = call.cart /\ rows[n].version = 1
    BY <1>1, Grown
  <2>2. Collect(i, rows, n)
    BY <1>4
  <2> HIDE DEF rows, n
  <2>3. /\ orders' \in Seq(Rows) /\ DOMAIN orders' = DOMAIN rows
        /\ \A s \in DOMAIN rows : Alike(orders'[s], rows[s])
        /\ OnlyCall(i) /\ calls'[i].stage = "served" /\ calls'[i].row = n
        /\ calls'[i].kind = calls[i].kind
    BY <1>1, <2>1, <2>2, Collected
  <2>4. Created(call.key, "SUBMITTED", call.cart)
    BY <1>4, <2>1, <2>3 DEF Created, Alike, n
  <2>5. RowStep
    BY <1>1, <2>3, <2>4 DEF RowStep
  <2>6. orders'[n].cart = call.cart
    BY <2>1, <2>3 DEF Alike
  <2> QED
    BY <2>3, <2>5, <2>6 DEF ServedWell
<1> QED
  BY <1>2, <1>3, <1>4 DEF createOrder, Outcomes

LEMMA submitDraftWell ==
    ASSUME OrderEntryAssumption, RowsTyped, NEW i \in DOMAIN calls, calls[i].kind = "submit",
           calls[i].row \in DOMAIN orders, submitDraft(i)
    PROVE  ServedWell(i)
<1> DEFINE call == calls[i]
           r == call.row
           row == orders[r]
<1>1. /\ orders \in Seq(Rows) /\ calls \in Seq(CallRows) /\ r \in DOMAIN orders
      /\ call \in CallRows /\ call.key \in 1..MaxKeys
  BY CallFields DEF RowsTyped
<1>2. CASE \E outcome \in Outcomes \ {"done"} : Refuse(i, outcome)
  BY <1>2, RefusedWell
<1>3. ASSUME Collect(i, orders, r) PROVE ServedWell(i)
  <2>1. /\ orders' \in Seq(Rows) /\ DOMAIN orders' = DOMAIN orders
        /\ \A s \in DOMAIN orders : Alike(orders'[s], orders[s])
        /\ OnlyCall(i) /\ calls'[i].stage = "served" /\ calls'[i].kind = calls[i].kind
    BY <1>1, <1>3, Collected
  <2> QED
    BY <2>1 DEF ServedWell, RowStep, Kept
<1>4. ASSUME row.status = "DRAFT", Holders(call.key) \ {r} = {},
             Collect(i, [orders EXCEPT ![r].status = "SUBMITTED", ![r].key = call.key], r)
      PROVE  ServedWell(i)
  <2> DEFINE new == [row EXCEPT !.status = "SUBMITTED", !.key = call.key]
             rows == [orders EXCEPT ![r] = new]
  <2>1. row \in Rows
    BY <1>1
  <2>2. /\ new \in Rows /\ new.status = "SUBMITTED" /\ new.key = call.key
        /\ new.version = row.version /\ new.cart = row.cart
    BY <1>1, <2>1 DEF Rows
  <2>3. [orders EXCEPT ![r].status = "SUBMITTED", ![r].key = call.key] = rows
    BY <1>1
  <2> HIDE DEF new
  <2>4. /\ rows \in Seq(Rows) /\ DOMAIN rows = DOMAIN orders /\ r \in DOMAIN rows /\ rows[r] = new
        /\ \A s \in DOMAIN orders : s # r => rows[s] = orders[s]
    BY <1>1, <2>2
  <2>5. Collect(i, rows, r)
    BY <1>4, <2>3
  <2> HIDE DEF rows, r, call, row
  <2>6. /\ orders' \in Seq(Rows) /\ DOMAIN orders' = DOMAIN rows
        /\ \A s \in DOMAIN rows : Alike(orders'[s], rows[s])
        /\ OnlyCall(i) /\ calls'[i].stage = "served" /\ calls'[i].kind = calls[i].kind
    BY <1>1, <2>4, <2>5, Collected
  <2>7. Promoted(r, call.key)
    BY <1>1, <1>4, <2>2, <2>4, <2>6 DEF Promoted, OthersKept, Alike, row
  <2>8. RowStep
    BY <1>1, <2>6, <2>7 DEF RowStep
  <2> QED
    BY <2>6, <2>8 DEF ServedWell
<1> QED
  BY <1>2, <1>3, <1>4 DEF submitDraft, Outcomes

LEMMA createDraftWell ==
    ASSUME OrderEntryAssumption, RowsTyped, NEW i \in DOMAIN calls, calls[i].kind = "save",
           calls[i].row = 0, createDraft(i)
    PROVE  ServedWell(i)
<1> DEFINE call == calls[i]
           n == Len(orders) + 1
           rows == Append(orders, NewRow(call, "DRAFT"))
<1>1. /\ orders \in Seq(Rows) /\ calls \in Seq(CallRows)
      /\ call \in CallRows /\ call.key \in 1..MaxKeys /\ call.cart \in Carts
  BY CallFields DEF RowsTyped
<1>2. CASE Refuse(i, "refused")
  BY <1>2, RefusedWell DEF Outcomes
<1>3. ASSUME Holders(call.key) = {}, orders' = rows, Answer(i, "done", n, 1)
      PROVE  ServedWell(i)
  <2>1. /\ rows \in Seq(Rows) /\ n \in Nat /\ n \notin DOMAIN orders
        /\ DOMAIN rows = DOMAIN orders \cup {n}
        /\ \A s \in DOMAIN orders : rows[s] = orders[s]
        /\ rows[n].key = call.key /\ rows[n].status = "DRAFT"
        /\ rows[n].cart = call.cart /\ rows[n].version = 1
    BY <1>1, Grown
  <2>2. orders' = rows /\ Answer(i, "done", n, 1)
    BY <1>3
  <2> HIDE DEF rows, n
  <2>3. /\ OnlyCall(i) /\ calls'[i].stage = "served" /\ calls'[i].row = n
        /\ calls'[i].kind = call.kind /\ calls'[i].cart = call.cart /\ calls'[i].version = 1
    BY <1>1, <2>1, <2>2, Answered DEF Outcomes
  <2>4. Created(call.key, "DRAFT", call.cart)
    BY <1>3, <2>1, <2>2 DEF Created, Alike, n
  <2>5. RowStep
    BY <1>1, <2>1, <2>2, <2>4 DEF RowStep
  <2>6. KnownIn(orders', n, 1, call.cart)
    BY <2>1, <2>2 DEF KnownIn
  <2> QED
    BY <2>3, <2>5, <2>6 DEF ServedWell
<1> QED
  BY <1>2, <1>3 DEF createDraft

LEMMA updateDraftWell ==
    ASSUME RowsTyped, NEW i \in DOMAIN calls, calls[i].kind = "save", calls[i].row # 0,
           Known(calls[i].row, calls[i].version, calls[i].base), updateDraft(i)
    PROVE  ServedWell(i)
<1> DEFINE call == calls[i]
           r == call.row
           row == orders[r]
<1>1. /\ orders \in Seq(Rows) /\ calls \in Seq(CallRows) /\ r \in DOMAIN orders
      /\ call \in CallRows /\ call.cart \in Carts
  BY CallFields DEF RowsTyped, Known, KnownIn
<1>2. CASE \E outcome \in Outcomes \ {"done"} : Refuse(i, outcome)
  BY <1>2, RefusedWell
<1>3. ASSUME row.status = "DRAFT", ~Stale(row, call),
             orders' = [orders EXCEPT ![r].cart = call.cart, ![r].version = @ + 1],
             Answer(i, "done", r, row.version + 1)
      PROVE  ServedWell(i)
  <2> DEFINE new == [row EXCEPT !.cart = call.cart, !.version = @ + 1]
  <2>1. row \in Rows /\ row.version \in Nat /\ r \in Nat
    BY <1>1, RowFields
  <2>2. /\ new \in Rows /\ new.status = "DRAFT" /\ new.key = row.key
        /\ new.version = row.version + 1 /\ new.cart = call.cart
    <3> DEFINE mid == [row EXCEPT !.cart = call.cart]
    <3> HIDE DEF r, call, row
    <3>1. /\ mid \in Rows /\ mid.status = "DRAFT" /\ mid.key = row.key
          /\ mid.version = row.version /\ mid.cart = call.cart
      BY <1>1, <1>3, <2>1 DEF Rows
    <3>2. new = [mid EXCEPT !.version = mid.version + 1]
      BY <2>1, <3>1 DEF Rows
    <3> HIDE DEF mid, new
    <3> QED
      BY <2>1, <3>1, <3>2 DEF Rows
  <2>3. orders' = [orders EXCEPT ![r] = new]
    BY <1>1, <1>3
  <2>4. orders[r].cart = call.base
    BY <1>3 DEF Known, KnownIn, Stale
  <2>5. Answer(i, "done", r, row.version + 1)
    BY <1>3
  <2> HIDE DEF new
  <2>6. /\ orders' \in Seq(Rows) /\ DOMAIN orders' = DOMAIN orders /\ orders'[r] = new
        /\ \A s \in DOMAIN orders : s # r => orders'[s] = orders[s]
    BY <1>1, <2>2, <2>3
  <2> HIDE DEF r, call, row
  <2>7. call = calls[i] /\ r = call.row /\ row = orders[r]
    BY DEF r, call, row
  <2>8. /\ OnlyCall(i) /\ calls'[i].stage = "served" /\ calls'[i].row = r
        /\ calls'[i].kind = call.kind /\ calls'[i].cart = call.cart
        /\ calls'[i].version = row.version + 1
    BY <1>1, <2>1, <2>5, <2>7, Answered DEF Outcomes
  <2>9. Edited(r)
    BY <1>1, <1>3, <2>2, <2>6, <2>7 DEF Edited, OthersKept, Alike
  <2>10. RowStep
    BY <1>1, <2>6, <2>9 DEF RowStep
  <2>11. KnownIn(orders', r, row.version + 1, call.cart)
    BY <1>1, <2>1, <2>2, <2>6 DEF KnownIn
  <2> QED
    BY <2>4, <2>7, <2>8, <2>10, <2>11 DEF ServedWell
<1> QED
  BY <1>2, <1>3 DEF updateDraft, Outcomes

\* A status is moved on.
LEMMA MovedRow ==
    ASSUME orders \in Seq(Rows), NEW r \in DOMAIN orders,
           NEW to \in {"DRAFT", "SUBMITTED", "APPROVED", "DISCARDED"},
           orders' = [orders EXCEPT ![r].status = to]
    PROVE  orders' \in Seq(Rows) /\ Moved(r, orders[r].status, to)
<1> DEFINE new == [orders[r] EXCEPT !.status = to]
<1>1. orders[r] \in Rows
  OBVIOUS
<1>2. /\ new \in Rows /\ new.status = to /\ new.key = orders[r].key
      /\ new.version = orders[r].version /\ new.cart = orders[r].cart
  BY <1>1 DEF Rows
<1>3. orders' = [orders EXCEPT ![r] = new]
  OBVIOUS
<1> HIDE DEF new
<1>4. /\ orders' \in Seq(Rows) /\ DOMAIN orders' = DOMAIN orders /\ orders'[r] = new
      /\ \A s \in DOMAIN orders : s # r => orders'[s] = orders[s]
  BY <1>2, <1>3
<1> QED
  BY <1>2, <1>4 DEF Moved, OthersKept, Alike

LEMMA discardDraftWell ==
    ASSUME RowsTyped, NEW i \in DOMAIN calls, calls[i].kind = "discard",
           calls[i].row \in DOMAIN orders, discardDraft(i)
    PROVE  ServedWell(i)
<1> DEFINE r == calls[i].row
<1>1. orders \in Seq(Rows) /\ calls \in Seq(CallRows) /\ r \in DOMAIN orders /\ r \in Nat
  BY CallFields DEF RowsTyped
<1>2. CASE \E outcome \in Outcomes \ {"done"} : Refuse(i, outcome)
  BY <1>2, RefusedWell
<1>3. ASSUME orders[r].status = "DRAFT", orders' = [orders EXCEPT ![r].status = "DISCARDED"],
             Answer(i, "done", r, orders[r].version)
      PROVE  ServedWell(i)
  <2>1. orders' \in Seq(Rows) /\ Moved(r, "DRAFT", "DISCARDED")
    BY <1>1, <1>3, MovedRow
  <2>2. OnlyCall(i) /\ calls'[i].stage = "served" /\ calls'[i].kind = calls[i].kind
    <3>1. orders[r].version \in Nat
      BY <1>1, RowFields
    <3> QED
      BY <1>1, <1>3, <3>1, Answered DEF Outcomes
  <2>3. RowStep
    BY <1>1, <2>1 DEF RowStep
  <2> QED
    BY <2>2, <2>3 DEF ServedWell
<1> QED
  BY <1>2, <1>3 DEF discardDraft, Discardable, Outcomes

\* Whatever call i asks for, serving it is one of the steps above.
LEMMA ServesWell ==
    ASSUME OrderEntryAssumption, EInv, NEW i \in DOMAIN calls, Serve(i)
    PROVE  ServedWell(i)
<1>1. RowsTyped /\ CallSound(calls[i]) /\ calls[i].stage = "sent"
  BY DEF EInv, Serve
<1>2. CASE calls[i].kind = "place" /\ createOrder(i)
  BY <1>1, <1>2, createOrderWell
<1>3. CASE calls[i].kind = "submit" /\ submitDraft(i)
  BY <1>1, <1>3, submitDraftWell DEF CallSound, CallIn
<1>4. CASE calls[i].kind = "save" /\ calls[i].row = 0 /\ createDraft(i)
  BY <1>1, <1>4, createDraftWell
<1>5. CASE calls[i].kind = "save" /\ calls[i].row # 0 /\ updateDraft(i)
  BY <1>1, <1>5, updateDraftWell DEF CallSound, CallIn, Known
<1>6. CASE calls[i].kind = "discard" /\ discardDraft(i)
  BY <1>1, <1>6, discardDraftWell DEF CallSound, CallIn
<1> QED
  BY <1>2, <1>3, <1>4, <1>5, <1>6 DEF Serve

--------------------------------------------------------------------------------
\* What is sound stays sound

CallsGrow ==
    /\ DOMAIN calls \subseteq DOMAIN calls'
    /\ \A i \in DOMAIN calls : calls'[i].kind \in {calls[i].kind, "save"}

LEMMA NoRowStep == ASSUME orders \in Seq(Rows), UNCHANGED orders PROVE RowStep
BY DEF RowStep, Kept, Alike

LEMMA NoCall ==
    ASSUME EInv, UNCHANGED <<orders, calls>>
    PROVE  /\ CallsGrow /\ RowStep /\ calls' \in Seq(CallRows)
           /\ \A i \in DOMAIN calls' : CallIn(orders', calls'[i])
BY NoRowStep DEF EInv, RowsTyped, CallsGrow, CallSound

LEMMA CallStays ==
    ASSUME orders \in Seq(Rows), RowStep, NEW c, CallSound(c)
    PROVE  CallIn(orders', c)
<1>1. c \in CallRows /\ c.version \in Nat
  BY DEF CallSound, CallIn, CallRows
<1>2. \A cart : Known(c.row, c.version, cart) => KnownIn(orders', c.row, c.version, cart)
  BY <1>1, KnownStays
<1>3. DOMAIN orders \subseteq DOMAIN orders'
  BY DEF RowStep, Kept, Created, Promoted, Edited, Moved, OthersKept
<1> QED
  BY <1>1, <1>2, <1>3, Zenon DEF CallSound, CallIn, Known

LEMMA WindowStays ==
    ASSUME orders \in Seq(Rows), RowStep, CallsGrow, NEW b, WindowSound(b)
    PROVE  WindowIn(orders', calls', b)
<1>1. b \in Windows /\ b.version \in Nat
  BY DEF WindowSound, WindowIn, Windows
<1>2. b.draft # 0 => KnownIn(orders', b.draft, b.version, b.base)
  BY <1>1, KnownStays DEF WindowSound, WindowIn, Anchored, Known
<1>3. /\ b.saving # 0 => b.saving \in DOMAIN calls' /\ calls'[b.saving].kind = "save"
      /\ b.visit # 0 => b.visit \in DOMAIN calls'
  BY DEF WindowSound, WindowIn, Anchored, CallsGrow
<1> QED
  BY <1>1, <1>2, <1>3 DEF WindowSound, WindowIn, Anchored

\* A step is sound when its new windows and calls are.
LEMMA StaysSound ==
    ASSUME EInv, RowStep, CallsGrow,
           calls' \in Seq(CallRows), \A i \in DOMAIN calls' : CallIn(orders', calls'[i]),
           keys' \in 0..MaxKeys, storage' # NoBackup => storage' \in Backups,
           tab' = [t \in Tabs |-> tab'[t]],
           \A t \in Tabs : tab'[t] = tab[t] \/ WindowIn(orders', calls', tab'[t])
    PROVE  EInv'
<1>1. orders \in Seq(Rows) /\ KeysUnique /\ \A t \in Tabs : WindowSound(tab[t])
  BY DEF EInv, RowsTyped
<1>2. RowsTyped' /\ KeysUnique'
  BY <1>1, OneHolderStays DEF RowsTyped, RowStep
<1>3. \A t \in Tabs : WindowIn(orders', calls', tab'[t])
  BY <1>1, WindowStays
<1> QED
  BY <1>2, <1>3 DEF EInv, CallSound, WindowSound

\* Tab t shows b and nobody else is concerned.
LEMMA PageChanges ==
    ASSUME EInv, NEW t \in Tabs, NEW b, WindowSound(b), tab' = [tab EXCEPT ![t] = b],
           UNCHANGED <<orders, calls>>, keys' \in 0..MaxKeys,
           storage' \in {storage, Backup(b), NoBackup}
    PROVE  EInv'
<1>1. tab' = [x \in Tabs |-> tab'[x]] /\ \A x \in Tabs : tab'[x] = tab[x] \/ tab'[x] = b
  BY DEF EInv
<1>2. WindowIn(orders', calls', b)
  BY DEF WindowSound
<1>3. Backup(b) \in Backups
  BY DEF WindowSound, WindowIn, Windows, Backup, Backups
<1>4. storage' # NoBackup => storage' \in Backups
  BY <1>3 DEF EInv, RowsTyped
<1> QED
  BY <1>1, <1>2, <1>4, NoCall, StaysSound

LEMMA ClosedSound ==
    ASSUME OrderEntryAssumption
    PROVE  WindowSound(Closed)
<1>1. EmptyCart \in Carts /\ 0 \in 0..MaxKeys
  BY EmptyIsCart DEF OrderEntryAssumption
<1> QED
  BY <1>1 DEF WindowSound, WindowIn, Anchored, Windows, Closed, Pages

LEMMA WindowFields ==
    ASSUME EInv, NEW t \in Tabs
    PROVE  /\ WindowSound(tab[t]) /\ tab[t] \in Windows
           /\ tab[t].cart \in Carts /\ tab[t].base \in Carts
           /\ tab[t].draft \in Nat /\ tab[t].version \in Nat
           /\ tab[t].page # "closed" => tab[t].key \in 1..MaxKeys
<1>1. WindowSound(tab[t]) /\ tab[t] \in Windows
  BY DEF EInv, WindowSound, WindowIn
<1>2. tab[t].page # "closed" => tab[t].key \in 0..MaxKeys /\ tab[t].key # 0
  BY <1>1 DEF WindowSound, WindowIn, Windows
<1> QED
  BY <1>1, <1>2 DEF Windows

LEMMA RestoredSound ==
    ASSUME EInv, NEW b \in Windows, Anchored(orders, calls, b), NEW k \in 1..MaxKeys
    PROVE  WindowSound(Restored(b, k))
<1>1. k \in 0..MaxKeys /\ k # 0
  BY DEF EInv, RowsTyped
<1>2. CASE b.page = "new for"
  <2>1. Restored(b, k) = [b EXCEPT !.key = k, !.picked = TRUE, !.step = "catalog"]
    BY <1>2 DEF Restored
  <2> QED
    BY <1>1, <2>1 DEF WindowSound, WindowIn, Anchored, Windows
<1>3. CASE b.page # "new for" /\ storage = NoBackup
  <2>1. Restored(b, k) = [b EXCEPT !.key = k]
    BY <1>3 DEF Restored
  <2> QED
    BY <1>1, <2>1 DEF WindowSound, WindowIn, Anchored, Windows
<1>4. CASE b.page # "new for" /\ storage # NoBackup
  <2> DEFINE c == storage.cart
             p == b.picked \/ storage.picked
             step == IF storage.picked THEN "catalog" ELSE b.step
  <2>1. Restored(b, k) = [b EXCEPT !.key = k, !.cart = c, !.picked = p, !.step = step]
    BY <1>4 DEF Restored
  <2>2. c \in Carts /\ p \in BOOLEAN /\ step \in {"customer", "catalog", "review"}
    <3>1. storage \in Backups
      BY <1>4 DEF EInv, RowsTyped
    <3>2. c \in Carts /\ storage.picked \in BOOLEAN
      BY <3>1 DEF Backups
    <3>3. b.picked \in BOOLEAN /\ b.step \in {"customer", "catalog", "review"}
      BY DEF Windows
    <3> HIDE DEF c
    <3>4. p \in BOOLEAN
      BY <3>2, <3>3, Zenon
    <3>5. step \in {"customer", "catalog", "review"}
      BY <3>3
    <3> QED
      BY <3>2, <3>4, <3>5
  <2> HIDE DEF c, p, step
  <2> QED
    BY <1>1, <2>1, <2>2 DEF WindowSound, WindowIn, Anchored, Windows
<1> QED
  BY <1>2, <1>3, <1>4

LEMMA ResumedSound ==
    ASSUME EInv, NEW b \in Windows, Anchored(orders, calls, b), NEW r \in DOMAIN orders
    PROVE  WindowSound(Resumed(b, r))
<1>1. /\ r \in Nat \ {0} /\ orders[r].version \in Nat /\ orders[r].cart \in Carts
      /\ orders[r].key \in 0..MaxKeys /\ orders[r].key # 0
  BY RowFields DEF EInv, RowsTyped
<1>2. /\ Resumed(b, r) \in Windows /\ Resumed(b, r).key = orders[r].key
      /\ Resumed(b, r).draft = r /\ Resumed(b, r).version = orders[r].version
      /\ Resumed(b, r).base = orders[r].cart
      /\ Resumed(b, r).saving = b.saving /\ Resumed(b, r).visit = b.visit
  BY <1>1 DEF Resumed, Windows, Pages
<1> QED
  BY <1>1, <1>2 DEF WindowSound, WindowIn, Anchored, KnownIn
--------------------------------------------------------------------------------
\* The steps of a tab

LEMMA NewKeyFits ==
    ASSUME OrderEntryAssumption, EInv, NewKey
    PROVE  keys + 1 \in 1..MaxKeys /\ keys' \in 0..MaxKeys
<1>1. keys \in 0..MaxKeys /\ MaxKeys \in Nat
  BY DEF EInv, RowsTyped, OrderEntryAssumption
<1>2. keys < MaxKeys /\ keys' = keys + 1
  BY DEF NewKey
<1> QED
  BY <1>1, <1>2

LEMMA OpensSound ==
    ASSUME OrderEntryAssumption, EInv, NEW t \in Tabs
    PROVE  /\ \A page \in {"new", "new for"} : OpenBuilder(t, page) => EInv'
           /\ \A r \in DOMAIN orders : OpenDraft(t, r) => EInv'
           /\ CloseTab(t) => EInv'
<1>1. /\ WindowSound(Closed) /\ Closed \in Windows /\ Anchored(orders, calls, Closed)
  BY ClosedSound DEF WindowSound, WindowIn
<1>2. keys \in 0..MaxKeys /\ keys \in Nat
  BY DEF EInv, RowsTyped, OrderEntryAssumption
<1>3. ASSUME NEW page \in {"new", "new for"}, OpenBuilder(t, page) PROVE EInv'
  <2> DEFINE b == [Closed EXCEPT !.page = page]
             c == Restored(b, keys + 1)
  <2>1. b \in Windows /\ Anchored(orders, calls, b)
    BY <1>1 DEF Anchored, Windows, Closed, Pages
  <2>2. tab' = [tab EXCEPT ![t] = c] /\ storage' = Backup(c) /\ UNCHANGED <<orders, calls>>
    BY <1>3 DEF OpenBuilder, Show, serverVars
  <2>3. keys + 1 \in 1..MaxKeys /\ keys' \in 0..MaxKeys
    BY <1>3, NewKeyFits DEF OpenBuilder
  <2> HIDE DEF b
  <2>4. WindowSound(c)
    BY <2>1, <2>3, RestoredSound
  <2> HIDE DEF c
  <2> QED
    BY <2>2, <2>3, <2>4, PageChanges
<1>4. ASSUME NEW r \in DOMAIN orders, OpenDraft(t, r) PROVE EInv'
  <2>1. /\ tab' = [tab EXCEPT ![t] = Resumed(Closed, r)] /\ storage' = Backup(Resumed(Closed, r))
        /\ UNCHANGED <<orders, calls, keys>>
    BY <1>4 DEF OpenDraft, Show, serverVars
  <2>2. WindowSound(Resumed(Closed, r))
    BY <1>1, ResumedSound
  <2> QED
    BY <1>2, <2>1, <2>2, PageChanges
<1>5. ASSUME CloseTab(t) PROVE EInv'
  <2>1. tab' = [tab EXCEPT ![t] = Closed] /\ UNCHANGED <<orders, calls, storage, keys>>
    BY <1>5 DEF CloseTab, serverVars
  <2> QED
    BY <1>1, <1>2, <2>1, PageChanges
<1> QED
  BY <1>3, <1>4, <1>5

\* What a tab shows of the step and of the customer does not matter.
LEMMA StepsSound ==
    ASSUME OrderEntryAssumption, EInv, NEW t \in Tabs
    PROVE  /\ PickCustomer(t) => EInv'
           /\ \A step \in {"catalog", "review"} : GoTo(t, step) => EInv'
           /\ FilterCatalogue(t) => EInv'
<1>1. WindowSound(tab[t]) /\ tab[t] \in Windows /\ keys \in 0..MaxKeys /\ t \in DOMAIN tab
  BY WindowFields DEF EInv, RowsTyped
<1>2. ASSUME PickCustomer(t) PROVE EInv'
  <2> DEFINE b == [tab[t] EXCEPT !.picked = TRUE, !.step = "catalog"]
  <2>1. WindowSound(b)
    BY <1>1 DEF WindowSound, WindowIn, Anchored, Windows
  <2>2. tab' = [tab EXCEPT ![t] = b] /\ storage' = Backup(b) /\ UNCHANGED <<orders, calls, keys>>
    BY <1>2 DEF PickCustomer, Show, serverVars
  <2> HIDE DEF b
  <2> QED
    BY <1>1, <2>1, <2>2, PageChanges
<1>3. ASSUME NEW step \in {"catalog", "review"}, GoTo(t, step) PROVE EInv'
  <2> DEFINE b == [tab[t] EXCEPT !.step = step]
  <2>1. WindowSound(b)
    BY <1>1 DEF WindowSound, WindowIn, Anchored, Windows
  <2>2. tab' = [tab EXCEPT ![t] = b] /\ UNCHANGED <<orders, calls, storage, keys>>
    BY <1>1, <1>3 DEF GoTo, serverVars
  <2> HIDE DEF b
  <2> QED
    BY <1>1, <2>1, <2>2, PageChanges
<1>4. ASSUME FilterCatalogue(t) PROVE EInv'
  <2> DEFINE page == IF tab[t].draft # 0 THEN "draft" ELSE "new for"
             b == [tab[t] EXCEPT !.visit = 0, !.page = page]
  <2>1. /\ page \in Pages /\ tab[t].key # 0
        /\ page = "draft" => tab[t].draft # 0
    BY <1>1, <1>4 DEF FilterCatalogue, WindowSound, WindowIn, Pages
  <2>2. tab' = [tab EXCEPT ![t] = b] /\ UNCHANGED <<orders, calls, storage, keys>>
    BY <1>1, <1>4 DEF FilterCatalogue, serverVars
  <2> HIDE DEF page
  <2>3. WindowSound(b)
    BY <1>1, <2>1 DEF WindowSound, WindowIn, Anchored, Windows
  <2> HIDE DEF b
  <2> QED
    BY <1>1, <2>2, <2>3, PageChanges
<1> QED
  BY <1>2, <1>3, <1>4

\* The cart of a tab is its own.
LEMMA EditSound ==
    ASSUME EInv, NEW t \in Tabs, NEW cart \in Carts, Edit(t, cart)
    PROVE  EInv'
<1> DEFINE b == [tab[t] EXCEPT !.cart = cart]
<1>1. WindowSound(tab[t]) /\ tab[t] \in Windows /\ keys \in 0..MaxKeys
  BY WindowFields DEF EInv, RowsTyped
<1>2. WindowSound(b)
  BY <1>1 DEF WindowSound, WindowIn, Anchored, Windows
<1>3. tab' = [tab EXCEPT ![t] = b] /\ storage' = Backup(b) /\ UNCHANGED <<orders, calls, keys>>
  BY DEF Edit, Show, serverVars
<1> HIDE DEF b
<1> QED
  BY <1>1, <1>2, <1>3, PageChanges

LEMMA EditsSound ==
    ASSUME OrderEntryAssumption, EInv, NEW t \in Tabs, NEW p \in Products
    PROVE  /\ \A q \in 0..(MaxQuantity + 1) : AddToCart(t, p, q) \/ SetQuantity(t, p, q) => EInv'
           /\ ApplyOverride(t, p) \/ RemoveLine(t, p) => EInv'
<1>1. \A q \in 0..MaxQuantity \cup {Overridden} : [tab[t].cart EXCEPT ![p] = q] \in Carts
  BY WindowFields, CartEdited
<1>2. \A q \in 0..(MaxQuantity + 1) : Clamped(q) \in 0..MaxQuantity \cup {Overridden}
  BY ClampedRange
<1>3. 0 \in 0..MaxQuantity
  BY DEF OrderEntryAssumption
<1>4. ASSUME NEW q \in 0..MaxQuantity \cup {Overridden}, Edit(t, [tab[t].cart EXCEPT ![p] = q])
      PROVE  EInv'
  BY <1>1, <1>4, EditSound
<1> QED
  BY <1>2, <1>3, <1>4, Zenon DEF AddToCart, SetQuantity, ApplyOverride, RemoveLine

--------------------------------------------------------------------------------
\* Calls that are sent, answered and over

\* Tab t sends a call that it then waits for.
LEMMA SendSound ==
    ASSUME EInv, NEW t \in Tabs, NEW call, CallSound(call), Send(call),
           UNCHANGED <<orders, storage, keys>>,
           \/ tab' = [tab EXCEPT ![t].visit = Len(calls) + 1]
           \/ tab' = [tab EXCEPT ![t].saving = Len(calls) + 1] /\ call.kind = "save"
    PROVE  EInv'
<1> DEFINE n == Len(calls) + 1
<1>1. /\ calls \in Seq(CallRows) /\ orders \in Seq(Rows) /\ keys \in 0..MaxKeys
      /\ storage # NoBackup => storage \in Backups
      /\ call \in CallRows
  BY DEF EInv, RowsTyped, CallSound, CallIn
<1>2. /\ calls' \in Seq(CallRows) /\ n \in Nat /\ DOMAIN calls' = DOMAIN calls \cup {n}
      /\ calls'[n] = call /\ \A i \in DOMAIN calls : calls'[i] = calls[i]
  BY <1>1 DEF Send
<1>3. CallsGrow /\ RowStep
  BY <1>1, <1>2, NoRowStep DEF CallsGrow
<1>4. \A i \in DOMAIN calls' : CallIn(orders', calls'[i])
  BY <1>2 DEF CallSound, EInv
<1>5. WindowIn(orders', calls', tab[t]) /\ tab[t] \in Windows
  BY <1>1, <1>3, WindowStays, WindowFields
<1> HIDE DEF n
<1>6. CASE tab' = [tab EXCEPT ![t].visit = n]
  <2> DEFINE b == [tab[t] EXCEPT !.visit = n]
  <2>1. WindowIn(orders', calls', b)
    BY <1>2, <1>5 DEF WindowIn, Anchored, Windows
  <2>2. /\ tab' = [x \in Tabs |-> tab'[x]]
        /\ \A x \in Tabs : tab'[x] = tab[x] \/ tab'[x] = b
    BY <1>6 DEF EInv
  <2> HIDE DEF b
  <2> QED
    BY <1>1, <1>2, <1>3, <1>4, <2>1, <2>2, StaysSound
<1>7. CASE tab' = [tab EXCEPT ![t].saving = n] /\ call.kind = "save"
  <2> DEFINE b == [tab[t] EXCEPT !.saving = n]
  <2>1. WindowIn(orders', calls', b)
    BY <1>2, <1>5, <1>7 DEF WindowIn, Anchored, Windows
  <2>2. /\ tab' = [x \in Tabs |-> tab'[x]]
        /\ \A x \in Tabs : tab'[x] = tab[x] \/ tab'[x] = b
    BY <1>7 DEF EInv
  <2> HIDE DEF b
  <2> QED
    BY <1>1, <1>2, <1>3, <1>4, <2>1, <2>2, StaysSound
<1> QED
  BY <1>6, <1>7 DEF n

LEMMA SendsSound ==
    ASSUME OrderEntryAssumption, EInv, NEW t \in Tabs
    PROVE  /\ SaveDraft(t) => EInv'
           /\ \A pay \in Payment : SubmitOrder(t, pay) => EInv'
           /\ DiscardDraft(t) => EInv'
<1>1. /\ WindowSound(tab[t]) /\ tab[t].cart \in Carts /\ tab[t].base \in Carts
      /\ tab[t].draft \in Nat /\ tab[t].version \in Nat /\ EmptyCart \in Carts
      /\ tab[t].page # "closed" => tab[t].key \in 1..MaxKeys
      /\ tab[t].draft # 0 => KnownIn(orders, tab[t].draft, tab[t].version, tab[t].base)
  BY WindowFields, EmptyIsCart DEF WindowSound, WindowIn, Anchored
<1>2. ASSUME SaveDraft(t) PROVE EInv'
  <2>1. CASE tab[t].draft = 0
    <3>1. CallSound(Call(t, "save")) /\ Call(t, "save").kind = "save"
      BY <1>1, <1>2, <2>1 DEF SaveDraft, Call, CallSound, CallIn, CallRows, Payment, Outcomes
    <3> QED
      BY <1>2, <2>1, <3>1, SendSound DEF SaveDraft, serverVars
  <2>2. CASE tab[t].draft # 0
    <3> DEFINE call == [Call(t, "save") EXCEPT !.version = tab[t].version, !.base = tab[t].base]
    <3>1. CallSound(call) /\ call.kind = "save"
      BY <1>1, <1>2, <2>2 DEF SaveDraft, Call, CallSound, CallIn, CallRows, Payment, Outcomes
    <3>2. /\ Send(call) /\ tab' = [tab EXCEPT ![t].saving = Len(calls) + 1]
          /\ UNCHANGED <<orders, storage, keys>>
      BY <1>2, <2>2 DEF SaveDraft, serverVars
    <3> HIDE DEF call
    <3> QED
      BY <3>1, <3>2, SendSound
  <2> QED
    BY <2>1, <2>2
<1>3. ASSUME NEW pay \in Payment, SubmitOrder(t, pay) PROVE EInv'
  <2> DEFINE kind == IF tab[t].draft = 0 THEN "place" ELSE "submit"
             call == [Call(t, kind) EXCEPT !.pay = pay]
  <2>1. kind \in {"place", "submit"} /\ (kind = "submit" => tab[t].draft \in DOMAIN orders)
    BY <1>1 DEF KnownIn
  <2>2. Send(call) /\ tab' = [tab EXCEPT ![t].visit = Len(calls) + 1] /\ UNCHANGED <<orders, storage, keys>>
    BY <1>3 DEF SubmitOrder, serverVars
  <2>3. tab[t].key \in 1..MaxKeys
    BY <1>1, <1>3 DEF SubmitOrder
  <2> HIDE DEF kind
  <2>4. CallSound(call)
    BY <1>1, <2>1, <2>3 DEF Call, CallSound, CallIn, CallRows, Payment, Outcomes
  <2> HIDE DEF call
  <2> QED
    BY <2>2, <2>4, SendSound
<1>4. ASSUME DiscardDraft(t) PROVE EInv'
  <2> DEFINE call == [Call(t, "discard") EXCEPT !.cart = EmptyCart]
  <2>1. tab[t].key \in 1..MaxKeys /\ tab[t].draft \in DOMAIN orders
    BY <1>1, <1>4 DEF DiscardDraft, KnownIn
  <2>2. Send(call) /\ tab' = [tab EXCEPT ![t].visit = Len(calls) + 1] /\ UNCHANGED <<orders, storage, keys>>
    BY <1>4 DEF DiscardDraft, serverVars
  <2>3. CallSound(call)
    BY <1>1, <2>1 DEF Call, CallSound, CallIn, CallRows, Payment, Outcomes
  <2> HIDE DEF call
  <2> QED
    BY <2>2, <2>3, SendSound
<1> QED
  BY <1>2, <1>3, <1>4

LEMMA ServeSound ==
    ASSUME OrderEntryAssumption, EInv, NEW i \in DOMAIN calls, Serve(i)
    PROVE  EInv'
<1>1. ServedWell(i) /\ RowStep /\ OnlyCall(i)
  BY ServesWell DEF ServedWell
<1>2. orders \in Seq(Rows) /\ keys \in 0..MaxKeys /\ (storage # NoBackup => storage \in Backups)
  BY DEF EInv, RowsTyped
<1>3. CallsGrow
  BY <1>1 DEF CallsGrow, OnlyCall, ServedWell
<1>4. \A k \in DOMAIN calls' : CallIn(orders', calls'[k])
  <2> TAKE k \in DOMAIN calls'
  <2>1. CASE k # i
    BY <1>1, <1>2, <2>1, CallStays DEF OnlyCall, EInv
  <2>2. CASE k = i
    <3>1. calls'[i] \in CallRows
      BY <1>1 DEF OnlyCall
    <3> QED
      BY <1>1, <2>2, <3>1 DEF ServedWell, CallIn
  <2> QED
    BY <2>1, <2>2
<1>5. UNCHANGED <<storage, tab, keys>>
  BY DEF Serve
<1>6. tab' = [t \in Tabs |-> tab'[t]]
  BY <1>5 DEF EInv
<1> QED
  BY <1>1, <1>2, <1>3, <1>4, <1>5, <1>6, StaysSound DEF OnlyCall

LEMMA OthersSound ==
    ASSUME EInv
    PROVE  /\ \A r \in DOMAIN orders : ApproveOrder(r) => EInv' /\ RowStep
           /\ HoldCustomer => EInv'
<1>1. orders \in Seq(Rows) /\ calls \in Seq(CallRows) /\ keys \in 0..MaxKeys
  BY DEF EInv, RowsTyped
<1>2. ASSUME NEW r \in DOMAIN orders, ApproveOrder(r) PROVE EInv' /\ RowStep
  <2>1. orders' \in Seq(Rows) /\ Moved(r, "SUBMITTED", "APPROVED")
    BY <1>1, <1>2, MovedRow DEF ApproveOrder
  <2>2. RowStep
    BY <2>1 DEF RowStep
  <2>3. UNCHANGED <<storage, tab, calls, keys>>
    BY <1>2 DEF ApproveOrder
  <2>4. CallsGrow /\ calls' \in Seq(CallRows)
    BY <1>1, <2>3 DEF CallsGrow
  <2>5. \A i \in DOMAIN calls' : CallIn(orders', calls'[i])
    BY <1>1, <2>2, <2>3, CallStays DEF EInv
  <2> QED
    BY <2>2, <2>3, <2>4, <2>5, StaysSound DEF EInv, RowsTyped
<1>3. ASSUME HoldCustomer PROVE EInv'
  <2>1. UNCHANGED <<orders, storage, tab, calls, keys>>
    BY <1>3 DEF HoldCustomer
  <2> QED
    BY <2>1, NoCall, StaysSound DEF EInv, RowsTyped
<1> QED
  BY <1>2, <1>3

\* What is over binds nobody.
LEMMA SpentSound ==
    ASSUME OrderEntryAssumption, EInv, NEW i \in DOMAIN calls, Spent(i), UNCHANGED orders
    PROVE  /\ CallsGrow /\ RowStep /\ calls' \in Seq(CallRows)
           /\ \A k \in DOMAIN calls' : CallIn(orders', calls'[k])
           /\ calls'[i].stage = "over" /\ \A k \in DOMAIN calls : k # i => calls'[k] = calls[k]
<1> DEFINE over == [tab |-> calls[i].tab, kind |-> "save", row |-> 0, version |-> 0, key |-> 1,
                    cart |-> EmptyCart, base |-> EmptyCart, pay |-> "none", stage |-> "over",
                    outcome |-> "none"]
<1>1. orders \in Seq(Rows) /\ calls \in Seq(CallRows)
  BY DEF EInv, RowsTyped
<1>2. calls[i].tab \in Tabs /\ 1 \in 1..MaxKeys /\ EmptyCart \in Carts
  BY <1>1, CallFields, EmptyIsCart DEF CallRows, OrderEntryAssumption
<1>3. over \in CallRows /\ over.stage = "over" /\ over.kind = "save"
  BY <1>2 DEF CallRows, Payment, Outcomes
<1>4. calls' = [calls EXCEPT ![i] = over]
  <2> DEFINE call == Call(calls[i].tab, "save")
             made == [call EXCEPT
                        !.row = 0, !.version = 0, !.key = 1, !.cart = EmptyCart, !.base = EmptyCart,
                        !.pay = "none", !.stage = "over"]
  <2>1. made = over
    <3>1. /\ DOMAIN call = {"tab", "kind", "row", "version", "key", "cart", "base", "pay", "stage", "outcome"}
          /\ call = [f \in DOMAIN call |-> call[f]]
          /\ call.tab = calls[i].tab /\ call.kind = "save" /\ call.outcome = "none"
      BY DEF Call
    <3> HIDE DEF call
    <3>2. /\ DOMAIN made = DOMAIN call /\ made = [f \in DOMAIN call |-> made[f]]
          /\ made.tab = call.tab /\ made.kind = call.kind /\ made.outcome = call.outcome
          /\ made.row = 0 /\ made.version = 0 /\ made.key = 1
          /\ made.cart = EmptyCart /\ made.base = EmptyCart
          /\ made.pay = "none" /\ made.stage = "over"
      BY <3>1
    <3> HIDE DEF made
    <3> QED
      BY <3>1, <3>2
  <2>2. calls' = [calls EXCEPT ![i] = made]
    BY DEF Spent
  <2> HIDE DEF made, over
  <2> QED
    BY <2>1, <2>2
<1> HIDE DEF over
<1>5. /\ calls' \in Seq(CallRows) /\ DOMAIN calls' = DOMAIN calls /\ calls'[i] = over
      /\ \A k \in DOMAIN calls : k # i => calls'[k] = calls[k]
  BY <1>1, <1>3, <1>4
<1>6. \A k \in DOMAIN calls' : CallIn(orders', calls'[k])
  BY <1>3, <1>5 DEF CallIn, EInv, CallSound
<1>7. CallsGrow
  BY <1>3, <1>5 DEF CallsGrow
<1> QED
  BY <1>1, <1>3, <1>5, <1>6, <1>7, NoRowStep


LEMMA SaveReturnsSound ==
    ASSUME OrderEntryAssumption, EInv, NEW t \in Tabs, SaveReturns(t)
    PROVE  EInv'
<1> DEFINE i == tab[t].saving
           call == calls[i]
<1>1. /\ WindowSound(tab[t]) /\ tab[t] \in Windows /\ t \in DOMAIN tab
      /\ keys \in 0..MaxKeys /\ (storage # NoBackup => storage \in Backups)
  BY WindowFields DEF EInv, RowsTyped
<1>2. i # 0 /\ i \in DOMAIN calls /\ call.kind = "save" /\ call.stage = "served"
  BY <1>1 DEF SaveReturns, WindowSound, WindowIn, Anchored
<1>3. Spent(i) /\ UNCHANGED <<orders, keys>>
  BY DEF SaveReturns, serverVars
<1>4. /\ CallsGrow /\ RowStep /\ calls' \in Seq(CallRows)
      /\ \A k \in DOMAIN calls' : CallIn(orders', calls'[k])
  BY <1>2, <1>3, SpentSound
<1>5. WindowIn(orders', calls', tab[t])
  BY <1>1, <1>4, WindowStays DEF EInv, RowsTyped
<1>6. ASSUME NEW b, WindowIn(orders', calls', b), tab' = [tab EXCEPT ![t] = b],
             storage' \in {storage, Backup(b)}
      PROVE  EInv'
  <2>1. tab' = [x \in Tabs |-> tab'[x]] /\ \A x \in Tabs : tab'[x] = tab[x] \/ tab'[x] = b
    BY <1>6 DEF EInv
  <2>2. storage' # NoBackup => storage' \in Backups
    BY <1>1, <1>6 DEF WindowIn, Windows, Backup, Backups
  <2> QED
    BY <1>1, <1>3, <1>4, <1>6, <2>1, <2>2, StaysSound
<1>7. CASE call.outcome = "done"
  <2> DEFINE b == [tab[t] EXCEPT !.saving = 0, !.draft = call.row, !.version = call.version,
                                 !.base = call.cart]
  <2>1. /\ CallSound(call) /\ call.row \in Nat /\ call.version \in Nat /\ call.cart \in Carts
    BY <1>2, CallFields DEF EInv, RowsTyped
  <2>2. KnownIn(orders', call.row, call.version, call.cart) /\ call.row # 0
    <3>1. KnownIn(orders, call.row, call.version, call.cart)
      BY <1>2, <1>7, <2>1 DEF CallSound, CallIn
    <3> QED
      BY <1>3, <3>1, RowFields DEF KnownIn, EInv, RowsTyped
  <2>3. Show(t, b)
    BY <1>7 DEF SaveReturns
  <2> HIDE DEF call, i
  <2>4. WindowIn(orders', calls', b)
    BY <1>1, <1>5, <2>1, <2>2 DEF WindowIn, Anchored, Windows
  <2> HIDE DEF b
  <2> QED
    BY <1>6, <2>3, <2>4 DEF Show
<1>8. CASE call.outcome # "done"
  <2> DEFINE b == SaveFailed(tab[t])
  <2>1. tab' = [tab EXCEPT ![t] = b] /\ UNCHANGED storage
    BY <1>1, <1>8 DEF SaveReturns
  <2>2. WindowIn(orders', calls', b)
    BY <1>1, <1>5 DEF SaveFailed, WindowIn, Anchored, Windows
  <2> HIDE DEF b
  <2> QED
    BY <1>6, <2>1, <2>2
<1> QED
  BY <1>7, <1>8

LEMMA VisitReturnsSound ==
    ASSUME OrderEntryAssumption, EInv, NEW t \in Tabs, VisitReturns(t)
    PROVE  EInv'
<1> DEFINE i == tab[t].visit
           call == calls[i]
           here == [tab[t] EXCEPT !.visit = 0]
<1>1. /\ WindowSound(tab[t]) /\ tab[t] \in Windows /\ t \in DOMAIN tab
      /\ orders \in Seq(Rows) /\ keys \in 0..MaxKeys /\ (storage # NoBackup => storage \in Backups)
  BY WindowFields DEF EInv, RowsTyped
<1>2. i \in DOMAIN calls
  BY <1>1 DEF VisitReturns, WindowSound, WindowIn, Anchored
<1>3. Spent(i) /\ UNCHANGED orders
  BY DEF VisitReturns, serverVars
<1>4. /\ CallsGrow /\ RowStep /\ calls' \in Seq(CallRows)
      /\ \A k \in DOMAIN calls' : CallIn(orders', calls'[k])
  BY <1>2, <1>3, SpentSound
<1>5. WindowSound(here) /\ here \in Windows /\ Anchored(orders, calls, here)
  BY <1>1 DEF WindowSound, WindowIn, Anchored, Windows
<1>6. ASSUME NEW b, WindowSound(b), tab' = [tab EXCEPT ![t] = b],
             storage' \in {storage, Backup(b), NoBackup}, keys' \in 0..MaxKeys
      PROVE  EInv'
  <2>1. tab' = [x \in Tabs |-> tab'[x]] /\ \A x \in Tabs : tab'[x] = tab[x] \/ tab'[x] = b
    BY <1>6 DEF EInv
  <2>2. Backup(b) \in Backups
    BY <1>6 DEF WindowSound, WindowIn, Windows, Backup, Backups
  <2>3. storage' # NoBackup => storage' \in Backups
    BY <1>1, <1>6, <2>2
  <2>4. WindowIn(orders', calls', b)
    BY <1>1, <1>4, <1>6, WindowStays
  <2> QED
    BY <1>4, <1>6, <2>1, <2>3, <2>4, StaysSound
<1>7. ASSUME NEW kind, Leave(t, kind), UNCHANGED keys PROVE EInv'
  BY <1>1, <1>6, <1>7, ClosedSound DEF Leave
<1>8. CASE call.outcome = "conflict" /\ tab' = [tab EXCEPT ![t].visit = 0] /\ UNCHANGED <<storage, keys>>
  <2>1. tab' = [tab EXCEPT ![t] = here]
    BY <1>1, <1>8
  <2> HIDE DEF here
  <2> QED
    BY <1>1, <1>5, <1>6, <1>8, <2>1
<1>9. CASE Refilled(t, call.kind)
  <2> HIDE DEF i, call
  <2>1. CASE here.page # "draft"
    <3> DEFINE c == Restored(here, keys + 1)
    <3>1. NewKey /\ tab' = [tab EXCEPT ![t] = c] /\ storage' = Backup(c)
      BY <1>9, <2>1 DEF Refilled, Show
    <3>2. keys + 1 \in 1..MaxKeys /\ keys' \in 0..MaxKeys
      BY <3>1, NewKeyFits
    <3> HIDE DEF here
    <3>3. WindowSound(c)
      BY <1>5, <3>2, RestoredSound
    <3> HIDE DEF c
    <3> QED
      BY <1>6, <3>1, <3>2, <3>3
  <2>2. CASE here.page = "draft"
    <3> DEFINE c == Resumed(here, here.draft)
    <3>1. UNCHANGED keys /\ (Show(t, c) \/ Leave(t, call.kind))
      BY <1>9, <2>2 DEF Refilled
    <3> HIDE DEF here
    <3>2. here.draft \in DOMAIN orders
      BY <1>5, <2>2 DEF Anchored, KnownIn
    <3>3. WindowSound(c)
      BY <1>5, <3>2, ResumedSound
    <3> HIDE DEF c
    <3>4. CASE Show(t, c)
      BY <1>1, <1>6, <3>1, <3>3, <3>4 DEF Show
    <3> QED
      BY <1>7, <3>1, <3>4
  <2> QED
    BY <2>1, <2>2
<1> QED
  BY <1>7, <1>8, <1>9 DEF VisitReturns

LEMMA FailSound ==
    ASSUME OrderEntryAssumption, EInv, NEW i \in DOMAIN calls, Fail(i)
    PROVE  EInv'
<1> DEFINE Told(b) == [b EXCEPT !.saving = IF @ = i THEN 0 ELSE @,
                                !.visit = IF @ = i THEN 0 ELSE @]
<1>1. Spent(i) /\ UNCHANGED <<orders, storage, keys>> /\ tab' = [t \in Tabs |-> Told(tab[t])]
  BY DEF Fail, serverVars
<1>2. /\ CallsGrow /\ RowStep /\ calls' \in Seq(CallRows)
      /\ \A k \in DOMAIN calls' : CallIn(orders', calls'[k])
  BY <1>1, SpentSound
<1>3. \A t \in Tabs : WindowIn(orders', calls', tab[t])
  BY <1>2, WindowStays DEF EInv, RowsTyped
<1>4. ASSUME NEW b, WindowIn(orders', calls', b) PROVE WindowIn(orders', calls', Told(b))
  <2> DEFINE saving == IF b.saving = i THEN 0 ELSE b.saving
             visit == IF b.visit = i THEN 0 ELSE b.visit
  <2>1. b \in Windows
    BY <1>4 DEF WindowIn
  <2>2. /\ Told(b) = [b EXCEPT !.saving = saving, !.visit = visit]
        /\ saving \in Nat /\ visit \in Nat
        /\ saving # 0 => saving = b.saving
        /\ visit # 0 => visit = b.visit
    BY <2>1 DEF Windows
  <2> HIDE DEF Told, saving, visit
  <2> QED
    BY <1>4, <2>1, <2>2 DEF WindowIn, Anchored, Windows
<1>5. \A t \in Tabs : WindowIn(orders', calls', tab'[t])
  <2> HIDE DEF Told
  <2> QED
    BY <1>1, <1>3, <1>4
<1>6. tab' = [t \in Tabs |-> tab'[t]]
  BY <1>1
<1> QED
  BY <1>1, <1>2, <1>5, <1>6, StaysSound DEF EInv, RowsTyped


--------------------------------------------------------------------------------
\* The steps of the specification

\* Only serving a call answers it.
OnlyServingAnswers == \A i \in DOMAIN calls : Served(i) => Serve(i)

LEMMA InitSound == ASSUME OrderEntryAssumption, Init PROVE EInv
<1> DEFINE row == [key |-> 1, status |-> "DRAFT", version |-> 1,
                   cart |-> [p \in Products |-> 1], payments |-> 0]
<1>1. row \in Rows
  <2>1. 1 \in 1..MaxKeys /\ [p \in Products |-> 1] \in Carts
    BY DEF OrderEntryAssumption, Carts
  <2> QED
    BY <2>1 DEF Rows
<1> HIDE DEF row
<1>2. orders = <<>> \/ orders = <<row>>
  BY DEF Init, row
<1>3. /\ orders \in Seq(Rows) /\ Len(orders) \in 0..1
      /\ \A r, s \in DOMAIN orders : r = s
  <2>1. CASE orders = <<>>
    <3>1. DOMAIN orders = {} /\ Len(orders) = 0 /\ orders \in Seq(Rows)
      BY <2>1
    <3> QED
      BY <3>1
  <2>2. CASE orders = <<row>>
    <3>1. Len(orders) = 1 /\ DOMAIN orders = {1}
      BY <2>2
    <3>2. orders \in Seq(Rows)
      BY <1>1, <2>2
    <3> QED
      BY <3>1, <3>2
  <2> QED
    BY <1>2, <2>1, <2>2
<1>4. calls \in Seq(CallRows) /\ DOMAIN calls = {}
  BY DEF Init
<1>5. RowsTyped /\ KeysUnique
  BY <1>3, <1>4 DEF Init, RowsTyped, KeysUnique, Holders, OrderEntryAssumption
<1>6. tab = [t \in Tabs |-> tab[t]] /\ \A t \in Tabs : WindowSound(tab[t])
  BY ClosedSound DEF Init
<1> QED
  BY <1>4, <1>5, <1>6 DEF EInv

LEMMA UserNextSound ==
    ASSUME OrderEntryAssumption, EInv, NEW t \in Tabs, UserNext(t)
    PROVE  EInv'
BY OpensSound, StepsSound, EditsSound, SendsSound, Zenon DEF UserNext

LEMMA NextSound ==
    ASSUME OrderEntryAssumption, EInv, [Next]_vars
    PROVE  EInv'
<1>1. ASSUME NEW t \in Tabs, UserNext(t) \/ SaveReturns(t) \/ VisitReturns(t) PROVE EInv'
  BY <1>1, UserNextSound, SaveReturnsSound, VisitReturnsSound
<1>2. ASSUME NEW i \in DOMAIN calls, Serve(i) \/ Fail(i) PROVE EInv'
  BY <1>2, ServeSound, FailSound
<1>3. CASE UNCHANGED vars
  <2>1. UNCHANGED <<orders, calls, tab, keys, storage>>
    BY <1>3 DEF vars
  <2> QED
    BY <2>1, NoCall, StaysSound DEF EInv, RowsTyped
<1> QED
  BY <1>1, <1>2, <1>3, OthersSound, Zenon DEF Next

LEMMA StepsOfRows ==
    ASSUME OrderEntryAssumption, EInv, [Next]_vars
    PROVE  RowStep
<1>1. orders \in Seq(Rows)
  BY DEF EInv, RowsTyped
<1>2. CASE UNCHANGED orders
  BY <1>1, <1>2, NoRowStep
<1>3. ASSUME NEW i \in DOMAIN calls, Serve(i) PROVE RowStep
  BY <1>3, ServesWell DEF ServedWell
<1>4. ASSUME NEW r \in DOMAIN orders, ApproveOrder(r) PROVE RowStep
  BY <1>4, OthersSound
<1>5. ASSUME NEW t \in Tabs, UserNext(t) PROVE UNCHANGED orders
  BY <1>5, Zenon DEF UserNext, OpenBuilder, OpenDraft, CloseTab, PickCustomer, GoTo, FilterCatalogue, Edit,
            AddToCart, SetQuantity, ApplyOverride, RemoveLine, SubmitOrder, SaveDraft, DiscardDraft,
            serverVars
<1>6. ASSUME NEW t \in Tabs, SaveReturns(t) \/ VisitReturns(t) PROVE UNCHANGED orders
  BY <1>6 DEF SaveReturns, VisitReturns, serverVars
<1>7. ASSUME NEW i \in DOMAIN calls, Fail(i) PROVE UNCHANGED orders
  BY <1>7 DEF Fail, serverVars
<1>8. ASSUME HoldCustomer PROVE UNCHANGED orders
  BY <1>8 DEF HoldCustomer
<1>9. ASSUME UNCHANGED vars PROVE UNCHANGED orders
  BY <1>9 DEF vars
<1> QED
  BY <1>2, <1>3, <1>4, <1>5, <1>6, <1>7, <1>8, <1>9, Zenon DEF Next

LEMMA ServedInServe ==
    ASSUME OrderEntryAssumption, EInv, [Next]_vars
    PROVE  OnlyServingAnswers
<1>1. calls \in Seq(CallRows)
  BY DEF EInv, RowsTyped
<1>2. ASSUME \A i \in DOMAIN calls : calls'[i].stage \in {calls[i].stage, "over"}
      PROVE  OnlyServingAnswers
  BY <1>2 DEF OnlyServingAnswers, Served
<1>3. CASE UNCHANGED calls
  BY <1>2, <1>3
<1>4. ASSUME NEW call, Send(call) PROVE OnlyServingAnswers
  <2>1. \A i \in DOMAIN calls : calls'[i] = calls[i]
    BY <1>1, <1>4 DEF Send
  <2> QED
    BY <1>2, <2>1
<1>5. ASSUME NEW i \in DOMAIN calls, Spent(i), UNCHANGED orders PROVE OnlyServingAnswers
  <2>1. calls'[i].stage = "over" /\ \A k \in DOMAIN calls : k # i => calls'[k] = calls[k]
    BY <1>5, SpentSound
  <2>2. \A k \in DOMAIN calls : calls'[k].stage \in {calls[k].stage, "over"}
    BY <2>1
  <2> QED
    BY <1>2, <2>2
<1>6. ASSUME NEW i \in DOMAIN calls, Serve(i) PROVE OnlyServingAnswers
  <2>1. \A k \in DOMAIN calls : k # i => calls'[k] = calls[k]
    BY <1>6, ServesWell DEF ServedWell, OnlyCall
  <2>2. \A k \in DOMAIN calls : k # i => ~Served(k)
    BY <2>1 DEF Served
  <2> QED
    BY <1>6, <2>2, Zenon DEF OnlyServingAnswers
<1>7. ASSUME NEW t \in Tabs, UserNext(t) PROVE OnlyServingAnswers
  <2>1. UNCHANGED calls \/ \E call : Send(call)
    BY <1>7, Zenon DEF UserNext, OpenBuilder, OpenDraft, CloseTab, PickCustomer, GoTo, FilterCatalogue, Edit,
            AddToCart, SetQuantity, ApplyOverride, RemoveLine, SubmitOrder, SaveDraft, DiscardDraft
  <2> QED
    BY <1>3, <1>4, <2>1
<1>8. ASSUME NEW t \in Tabs, SaveReturns(t) \/ VisitReturns(t) PROVE OnlyServingAnswers
  <2>1. WindowSound(tab[t])
    BY WindowFields
  <2>2. \E i \in DOMAIN calls : Spent(i) /\ UNCHANGED orders
    BY <1>8, <2>1 DEF SaveReturns, VisitReturns, serverVars, WindowSound, WindowIn, Anchored
  <2> QED
    BY <1>5, <2>2
<1>9. ASSUME NEW i \in DOMAIN calls, Fail(i) PROVE OnlyServingAnswers
  BY <1>5, <1>9 DEF Fail, serverVars
<1>10. ASSUME \/ \E r \in DOMAIN orders : ApproveOrder(r)
              \/ HoldCustomer \/ UNCHANGED vars
       PROVE  UNCHANGED calls
  BY <1>10 DEF ApproveOrder, HoldCustomer, vars
<1> QED
  BY <1>3, <1>6, <1>7, <1>8, <1>9, <1>10, Zenon DEF Next

--------------------------------------------------------------------------------
\* The theorems

\* The inductive invariant: versions vouch for the lines they are remembered with, in tabs,
\* in requests and in answers, and no key has two orders.
THEOREM OrderEntryIsSound == Spec => []EInv
<1>1. Init => EInv
  BY OrderEntryAssumption, InitSound
<1>2. EInv /\ [Next]_vars => EInv'
  BY OrderEntryAssumption, NextSound
<1> QED
  BY <1>1, <1>2, PTL DEF Spec

\* However late a save arrives and whatever other tabs saved in the meantime, a save that
\* is accepted replaces only lines its tab had been shown or had sent itself
\* (expected_version in saveDraft).
THEOREM NothingOverwrittenUnseen == Spec => NoBlindOverwrite
<1>1. EInv /\ [Next]_vars =>
        \A i \in DOMAIN calls :
          (Served(i) /\ calls[i].kind = "save" /\ calls[i].row # 0 /\ calls'[i].outcome = "done")
              => orders[calls[i].row].cart = calls[i].base
  <2> SUFFICES ASSUME EInv, [Next]_vars, NEW i \in DOMAIN calls, Served(i),
                      calls[i].kind = "save", calls[i].row # 0, calls'[i].outcome = "done"
               PROVE  orders[calls[i].row].cart = calls[i].base
    OBVIOUS
  <2>1. Serve(i)
    BY OrderEntryAssumption, ServedInServe DEF OnlyServingAnswers
  <2> QED
    BY <2>1, OrderEntryAssumption, ServesWell DEF ServedWell
<1> QED
  BY <1>1, OrderEntryIsSound, PTL DEF Spec, NoBlindOverwrite

\* An order reported as placed holds the cart that was sent with its key, replays included
\* (resolveIdempotentReplayOrConflict).
THEOREM PlacedAsSent == Spec => PlacedIsWhatWasSent
<1>1. EInv /\ [Next]_vars =>
        \A i \in DOMAIN calls :
          (Served(i) /\ calls[i].kind = "place" /\ calls'[i].outcome = "done")
              => orders'[calls'[i].row].cart = calls[i].cart
  <2> SUFFICES ASSUME EInv, [Next]_vars, NEW i \in DOMAIN calls, Served(i),
                      calls[i].kind = "place", calls'[i].outcome = "done"
               PROVE  orders'[calls'[i].row].cart = calls[i].cart
    OBVIOUS
  <2>1. Serve(i)
    BY OrderEntryAssumption, ServedInServe DEF OnlyServingAnswers
  <2> QED
    BY <2>1, OrderEntryAssumption, ServesWell DEF ServedWell
<1> QED
  BY <1>1, OrderEntryIsSound, PTL DEF Spec, PlacedIsWhatWasSent

\* The service with its tabs, retries and lost messages implements what an idempotency key
\* promises: at most one order to a key, and a placed order keeps its key and its lines.
THEOREM ImplementsOrderIntake == Spec => IntakeRefined
<1> DEFINE h == [k \in 1..MaxKeys |-> HeldBy(k)]
<1>1. Init => Intake!Init
  <2> SUFFICES ASSUME Init PROVE Intake!Init
    OBVIOUS
  <2> DEFINE row == [key |-> 1, status |-> "DRAFT", version |-> 1,
                     cart |-> [p \in Products |-> 1], payments |-> 0]
  <2>1. \A r \in DOMAIN orders : orders[r].status = "DRAFT"
    <3>1. row.status = "DRAFT"
      OBVIOUS
    <3>2. orders = <<>> \/ orders = <<row>>
      BY DEF Init
    <3> HIDE DEF row
    <3> QED
      BY <3>1, <3>2
  <2>2. \A k \in 1..MaxKeys : HeldBy(k) \in {Held("UNUSED", EmptyCart), Held("DRAFT", EmptyCart)}
    <3> TAKE k \in 1..MaxKeys
    <3>1. CASE Holders(k) = {}
      BY <3>1 DEF HeldBy
    <3>2. CASE Holders(k) # {}
      <4> DEFINE one == CHOOSE r \in Holders(k) : TRUE
      <4>1. one \in DOMAIN orders
        BY <3>2 DEF Holders
      <4>2. HeldBy(k) = IF orders[one].status = "DRAFT" THEN Held("DRAFT", EmptyCart)
                        ELSE Held("PLACED", orders[one].cart)
        BY <3>2 DEF HeldBy
      <4> HIDE DEF one
      <4> QED
        BY <2>1, <4>1, <4>2
    <3> QED
      BY <3>1, <3>2
  <2> QED
    BY <2>2 DEF Intake!Init
<1>2. EInv /\ [Next]_vars => [Intake!Next]_h
  <2> SUFFICES ASSUME EInv, [Next]_vars PROVE Intake!Next \/ UNCHANGED h
    OBVIOUS
  <2>1. orders \in Seq(Rows) /\ KeysUnique /\ RowStep
    BY OrderEntryAssumption, StepsOfRows DEF EInv, RowsTyped
  <2> QED
    BY <2>1, RowStepRefines
<1> QED
  BY <1>1, <1>2, OrderEntryIsSound, PTL DEF Spec, IntakeRefined, Intake!Spec

================================================================================
