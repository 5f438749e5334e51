--------------------------- MODULE Inventory_proofs ---------------------------
(***************************************************************************)
(* Proofs about Inventory, for every set of products, every stock and      *)
(* every bound.                                                            *)
(*                                                                         *)
(* The inductive invariant is the one TLC checks: the rows are well typed, *)
(* every balance is legal and every ledger reconciles with its balance.    *)
(* A booking is described by its flow, the change of the three buckets     *)
(* its movement row states; what has to be shown of an operation is that   *)
(* the balance it saves is legal and follows the flow it records.          *)
(***************************************************************************)
EXTENDS Inventory, Sums_proofs

IInv == TypeOK /\ BalanceMath /\ LedgerReconciles

\* The change of bucket s when q units move from one stock state to another.
Change(s, from, to, q) == (IF to = s THEN q ELSE 0) - (IF from = s THEN q ELSE 0)

Flow(b, c, from, to, q) ==
    /\ c.available = b.available + Change("AVAILABLE", from, to, q)
    /\ c.reserved = b.reserved + Change("RESERVED", from, to, q)
    /\ c.damaged = b.damaged + Change("DAMAGED", from, to, q)

\* A product's balance row and its ledger, as every operation needs them.
Legal(b, l) == b \in Balances /\ l \in Ledgers /\ LegalBalance(b)

StockLegal ==
    /\ balance \in [Products -> Balances]
    /\ ledger \in [Products -> Ledgers]
    /\ \A p \in Products : Legal(balance[p], ledger[p])

\* The rows (c, k) are legal, and explain each other if (b, l) did.  Orders bring
\* about histories where they do not; legality alone carries every other fact.
StaysSound(b, l, c, k) == Legal(c, k) /\ (Reconciled(b, l) => Reconciled(c, k))

StockStaysSound ==
    /\ balance' \in [Products -> Balances]
    /\ ledger' \in [Products -> Ledgers]
    /\ \A p \in Products : StaysSound(balance[p], ledger[p], balance'[p], ledger'[p])

\* What the services save is the row with available recomputed and the version
\* advanced, and it is legal when the clamp has nothing to cut off.
LEMMA SavedIsLegal ==
    ASSUME NEW b \in Balances,
           b.onHand >= 0, b.reserved >= 0, b.damaged >= 0, b.reserved + b.damaged <= b.onHand
    PROVE  /\ Saved(b) \in Balances
           /\ LegalBalance(Saved(b))
           /\ Saved(b).onHand = b.onHand
           /\ Saved(b).reserved = b.reserved
           /\ Saved(b).damaged = b.damaged
           /\ Saved(b).available = b.onHand - b.reserved - b.damaged
           /\ Saved(b).version = b.version + 1
<1>1. b.onHand - b.reserved - b.damaged \in Nat
  BY DEF Balances
<1>2. AtLeastZero(b.onHand - b.reserved - b.damaged) = b.onHand - b.reserved - b.damaged
  BY <1>1 DEF AtLeastZero
<1>3. Recalculated(b) = [b EXCEPT !.available = b.onHand - b.reserved - b.damaged]
  BY <1>2 DEF Recalculated
<1> DEFINE r == [b EXCEPT !.available = b.onHand - b.reserved - b.damaged]
<1>4. /\ r \in Balances
      /\ r.onHand = b.onHand /\ r.reserved = b.reserved /\ r.damaged = b.damaged
      /\ r.available = b.onHand - b.reserved - b.damaged
      /\ r.version = b.version
  BY <1>1 DEF Balances
<1>5. Saved(b) = [r EXCEPT !.version = @ + 1]
  BY <1>3 DEF Saved
<1> HIDE DEF r
<1> QED
  BY <1>4, <1>5 DEF Balances, LegalBalance

\* A row that records the flow its balance followed keeps ledger and balance together.
LEMMA RecordedStaysSound ==
    ASSUME NEW b \in Balances, NEW l \in Ledgers, NEW c \in Balances, LegalBalance(c),
           NEW from \in StockStates, NEW to \in StockStates, from # to, NEW q \in Nat,
           Flow(b, c, from, to, q)
    PROVE  StaysSound(b, l, c, Recorded(l, from, to, q, c))
<1> DEFINE l2 == Recorded(l, from, to, q, c)
<1>1. /\ l2.rows = l.rows + 1
      /\ l2.net = [l.net EXCEPT ![from] = @ - q, ![to] = @ + q]
      /\ l2.disposed = IF from = "DAMAGED" /\ to = "NONE" THEN l.disposed + q ELSE l.disposed
      /\ l2.last = Snapshot(c)
      /\ l2 = [rows |-> l2.rows, net |-> l2.net, disposed |-> l2.disposed, last |-> l2.last]
  BY DEF Recorded
<1>2. l.net \in [StockStates -> Int]
  BY DEF Ledgers
<1>3. \A s \in StockStates : l2.net[s] = l.net[s] + Change(s, from, to, q)
  BY <1>1, <1>2 DEF Change, StockStates
<1>4. l2.net \in [StockStates -> Int]
  BY <1>1, <1>2
<1>5. Snapshot(c) \in Snapshots
  BY DEF Snapshot, Snapshots, Balances
<1>6. l2.rows \in Nat /\ l2.disposed \in Nat
  BY <1>1 DEF Ledgers
<1>7. l2 \in Ledgers
  BY <1>1, <1>4, <1>5, <1>6 DEF Ledgers
<1>8. Reconciled(b, l) => Reconciled(c, l2)
  BY <1>1, <1>3 DEF Reconciled, Flow, StockStates
<1> QED
  BY <1>7, <1>8 DEF StaysSound, Legal

--------------------------------------------------------------------------------
\* One transaction

\* What a transaction does to the abstract stock, and to the optimistic versions.
Explained == \A p \in Products : Stock!Booking(BucketsOf(balance[p]), BucketsOf(balance'[p]))

Versioned ==
    \A p \in Products : balance'[p] = balance[p] \/ balance'[p].version = balance[p].version + 1

VersionedUnlessReturned ==
    \A p \in Products \ ReturnProducts :
       balance'[p] = balance[p] \/ balance'[p].version = balance[p].version + 1

\* Units never come into the reserved bucket from outside the warehouse.
Movable(from, to) ==
    from # to /\ (to = "RESERVED" => from \in {"AVAILABLE", "DAMAGED"})

\* The row x, before it is saved, has followed a flow from b.
Follows(b, x, from, to, q) ==
    /\ x \in Balances
    /\ x.onHand >= 0 /\ x.reserved >= 0 /\ x.damaged >= 0
    /\ x.reserved + x.damaged <= x.onHand
    /\ x.onHand - x.reserved - x.damaged = b.available + Change("AVAILABLE", from, to, q)
    /\ x.reserved = b.reserved + Change("RESERVED", from, to, q)
    /\ x.damaged = b.damaged + Change("DAMAGED", from, to, q)
    /\ x.version = b.version

LEMMA SavedFollows ==
    ASSUME NEW b, NEW x, NEW from, NEW to, NEW q, Follows(b, x, from, to, q)
    PROVE  /\ Saved(x) \in Balances
           /\ LegalBalance(Saved(x))
           /\ Flow(b, Saved(x), from, to, q)
           /\ Saved(x).version = b.version + 1
BY SavedIsLegal DEF Follows, Flow

\* A flow is a receipt, a removal or a transfer of the abstract stock.
LEMMA FlowIsBooking ==
    ASSUME NEW b \in Balances, NEW c \in Balances, LegalBalance(b), LegalBalance(c),
           NEW from \in StockStates, NEW to \in StockStates, Movable(from, to), NEW q \in Nat,
           Flow(b, c, from, to, q)
    PROVE  Stock!Booking(BucketsOf(b), BucketsOf(c))
<1> DEFINE B == BucketsOf(b)
           C == BucketsOf(c)
<1>1. /\ B["AVAILABLE"] = b.available /\ B["RESERVED"] = b.reserved /\ B["DAMAGED"] = b.damaged
      /\ C["AVAILABLE"] = c.available /\ C["RESERVED"] = c.reserved /\ C["DAMAGED"] = c.damaged
  BY DEF BucketsOf
<1>2. /\ b.available \in Int /\ b.reserved \in Int /\ b.damaged \in Int
      /\ c.available \in Int /\ c.reserved \in Int /\ c.damaged \in Int
  BY DEF Balances
<1> HIDE DEF B, C
<1>3. CASE from \in {"EXTERNAL", "DISPATCHED", "NONE"}
  <2>1. Stock!Receipt(B, C)
    BY <1>1, <1>2, <1>3 DEF Stock!Receipt, Flow, Change, Movable, StockStates
  <2> QED
    BY <2>1 DEF Stock!Booking, B, C
<1>4. CASE from \in Stock!Buckets /\ to \notin Stock!Buckets
  <2>1. Stock!Removal(B, C)
    BY <1>1, <1>2, <1>4 DEF Stock!Removal, Stock!Buckets, Flow, Change
  <2> QED
    BY <2>1 DEF Stock!Booking, B, C
<1>5. CASE from \in Stock!Buckets /\ to \in Stock!Buckets
  <2>1. Stock!Transfer(B, C)
    BY <1>1, <1>2, <1>5 DEF Stock!Transfer, Stock!Units, Stock!Buckets, Flow, Change, Movable
  <2> QED
    BY <2>1 DEF Stock!Booking, B, C
<1> QED
  BY <1>3, <1>4, <1>5 DEF StockStates, Stock!Buckets

LEMMA NoFlowIsBooking ==
    ASSUME NEW b \in Balances
    PROVE  Stock!Booking(BucketsOf(b), BucketsOf(b))
BY DEF Balances, BucketsOf, Stock!Booking, Stock!Receipt

\* One booking keeps every row legal, and is a step of the abstract stock.
LEMMA BookIsSound ==
    ASSUME StockLegal, NEW p \in Products, NEW x,
           NEW from \in StockStates, NEW to \in StockStates, Movable(from, to), NEW q \in Nat,
           Follows(balance[p], x, from, to, q), Book(p, Saved(x), from, to, q)
    PROVE  StockStaysSound /\ Explained /\ Versioned
<1> DEFINE c == Saved(x)
<1>1. /\ c \in Balances /\ LegalBalance(c)
      /\ Flow(balance[p], c, from, to, q)
      /\ c.version = balance[p].version + 1
  BY SavedFollows
<1> HIDE DEF c
<1>2. StaysSound(balance[p], ledger[p], c, Recorded(ledger[p], from, to, q, c))
  BY <1>1, RecordedStaysSound DEF StockLegal, Movable
<1>3. /\ balance' = [balance EXCEPT ![p] = c]
      /\ ledger' = [ledger EXCEPT ![p] = Recorded(ledger[p], from, to, q, c)]
  BY DEF Book, c
<1>4. Stock!Booking(BucketsOf(balance[p]), BucketsOf(c))
  BY <1>1, FlowIsBooking DEF StockLegal, Legal
<1>5. \A r \in Products : balance[r] \in Balances
  BY DEF StockLegal
<1>6. StockStaysSound
  BY <1>2, <1>3 DEF StockLegal, StockStaysSound, StaysSound, Legal
<1>7. Explained
  BY <1>3, <1>4, <1>5, NoFlowIsBooking DEF Explained, StockLegal
<1>8. Versioned
  BY <1>1, <1>3 DEF Versioned, StockLegal
<1> QED
  BY <1>6, <1>7, <1>8

--------------------------------------------------------------------------------
\* The operations that book one movement row

LEMMA IncreaseIsSound ==
    ASSUME StockLegal, NEW p \in Products, NEW q \in Nat, NEW viaForm, IncreaseOnHand(p, q, viaForm)
    PROVE  StockStaysSound /\ Explained /\ Versioned
<1> DEFINE x == [balance[p] EXCEPT !.onHand = @ + q]
<1>1. Follows(balance[p], x, "EXTERNAL", "AVAILABLE", q)
  BY DEF StockLegal, Legal, LegalBalance, Balances, Follows, Change
<1>2. Book(p, Saved(x), "EXTERNAL", "AVAILABLE", q)
  BY DEF IncreaseOnHand
<1> HIDE DEF x
<1> QED
  BY <1>1, <1>2, BookIsSound DEF StockStates, Movable

LEMMA DecreaseIsSound ==
    ASSUME StockLegal, NEW p \in Products, NEW q \in Nat, NEW viaForm, DecreaseOnHand(p, q, viaForm)
    PROVE  StockStaysSound /\ Explained /\ Versioned
<1> DEFINE x == [balance[p] EXCEPT !.onHand = @ - q]
<1>1. /\ balance[p].available >= q
      /\ Book(p, Saved(x), "AVAILABLE", "NONE", q)
  BY DEF DecreaseOnHand
<1>2. Follows(balance[p], x, "AVAILABLE", "NONE", q)
  BY <1>1 DEF StockLegal, Legal, LegalBalance, Balances, Follows, Change
<1> HIDE DEF x
<1> QED
  BY <1>1, <1>2, BookIsSound DEF StockStates, Movable

LEMMA TransferIsSound ==
    ASSUME StockLegal, NEW p \in Products, NEW q \in Nat, NEW viaForm, TransferToDamaged(p, q, viaForm)
    PROVE  StockStaysSound /\ Explained /\ Versioned
<1> DEFINE x == [balance[p] EXCEPT !.damaged = @ + q]
<1>1. /\ balance[p].available >= q
      /\ Book(p, Saved(x), "AVAILABLE", "DAMAGED", q)
  BY DEF TransferToDamaged
<1>2. Follows(balance[p], x, "AVAILABLE", "DAMAGED", q)
  BY <1>1 DEF StockLegal, Legal, LegalBalance, Balances, Follows, Change
<1> HIDE DEF x
<1> QED
  BY <1>1, <1>2, BookIsSound DEF StockStates, Movable

LEMMA DisposeIsSound ==
    ASSUME StockLegal, NEW p \in Products, NEW q \in Nat, NEW viaForm, DisposeDamaged(p, q, viaForm)
    PROVE  StockStaysSound /\ Explained /\ Versioned
<1> DEFINE y == [balance[p] EXCEPT !.damaged = @ - q]
           x == [y EXCEPT !.onHand = @ - q]
<1>1. /\ balance[p].damaged >= q
      /\ Book(p, Saved(x), "DAMAGED", "NONE", q)
  BY DEF DisposeDamaged
<1>2. balance[p] \in Balances /\ LegalBalance(balance[p])
  BY DEF StockLegal, Legal
<1>3. /\ y \in Balances /\ y.damaged = balance[p].damaged - q /\ y.onHand = balance[p].onHand
      /\ y.reserved = balance[p].reserved /\ y.version = balance[p].version
  BY <1>2 DEF Balances
<1> HIDE DEF y
<1>4. /\ x \in Balances /\ x.damaged = balance[p].damaged - q /\ x.onHand = balance[p].onHand - q
      /\ x.reserved = balance[p].reserved /\ x.version = balance[p].version
  BY <1>2, <1>3 DEF Balances
<1> HIDE DEF x
<1>5. Follows(balance[p], x, "DAMAGED", "NONE", q)
  BY <1>1, <1>2, <1>4 DEF LegalBalance, Balances, Follows, Change
<1> QED
  BY <1>1, <1>5, BookIsSound DEF StockStates, Movable

\* Both sources of a ticket: the guard on the source leaves the clamp nothing to cut.
LEMMA ReportIsSound ==
    ASSUME StockLegal, NEW p \in Products, NEW source, NEW q \in Nat, ReportException(p, source, q)
    PROVE  StockStaysSound /\ Explained /\ Versioned
<1>1. CASE source = "AVAILABLE"
  <2> DEFINE x == [balance[p] EXCEPT !.damaged = @ + q]
  <2>1. /\ balance[p].available >= q
        /\ Book(p, Saved(x), "AVAILABLE", "DAMAGED", q)
    BY <1>1 DEF ReportException
  <2>2. Follows(balance[p], x, "AVAILABLE", "DAMAGED", q)
    BY <2>1 DEF StockLegal, Legal, LegalBalance, Balances, Follows, Change
  <2> HIDE DEF x
  <2> QED
    BY <2>1, <2>2, BookIsSound DEF StockStates, Movable
<1>2. CASE source = "RESERVED"
  <2> DEFINE y == [balance[p] EXCEPT !.damaged = @ + q]
             x == [y EXCEPT !.reserved = AtLeastZero(@ - q)]
  <2>1. /\ balance[p].reserved >= q
        /\ Book(p, Saved(x), "RESERVED", "DAMAGED", q)
    BY <1>2 DEF ReportException
  <2>2. AtLeastZero(balance[p].reserved - q) = balance[p].reserved - q
    BY <2>1 DEF AtLeastZero, StockLegal, Balances
  <2>3. balance[p] \in Balances /\ LegalBalance(balance[p])
    BY DEF StockLegal, Legal
  <2>4. /\ y \in Balances /\ y.damaged = balance[p].damaged + q /\ y.onHand = balance[p].onHand
        /\ y.reserved = balance[p].reserved /\ y.version = balance[p].version
    BY <2>3 DEF Balances
  <2> HIDE DEF y
  <2>5. /\ x \in Balances /\ x.damaged = balance[p].damaged + q /\ x.reserved = balance[p].reserved - q
        /\ x.onHand = balance[p].onHand /\ x.version = balance[p].version
    BY <2>2, <2>3, <2>4 DEF Balances
  <2> HIDE DEF x
  <2>6. Follows(balance[p], x, "RESERVED", "DAMAGED", q)
    BY <2>1, <2>3, <2>5 DEF LegalBalance, Balances, Follows, Change
  <2> QED
    BY <2>1, <2>6, BookIsSound DEF StockStates, Movable
<1> QED
  BY <1>1, <1>2 DEF ReportException

\* Units put back out of quarantine, wherever the ticket had taken them from.
LEMMA UnquarantinedFollows ==
    ASSUME NEW b \in Balances, LegalBalance(b), NEW e \in Exceptions, NEW q \in Nat, q <= b.damaged
    PROVE  \E x : /\ Unquarantined(b, e, q) = Saved(x)
                  /\ Follows(b, x, "DAMAGED", e.source, q)
<1>1. AtLeastZero(b.damaged - q) = b.damaged - q
  BY DEF AtLeastZero, Balances
<1> DEFINE y == [b EXCEPT !.damaged = b.damaged - q]
<1>2. /\ y \in Balances /\ y.damaged = b.damaged - q /\ y.onHand = b.onHand
      /\ y.reserved = b.reserved /\ y.version = b.version
  BY DEF Balances
<1>3. CASE e.source = "AVAILABLE"
  <2> DEFINE x == [y EXCEPT !.reserved = b.reserved]
  <2>1. Unquarantined(b, e, q) = Saved(x)
    BY <1>1, <1>3 DEF Unquarantined
  <2> HIDE DEF y
  <2>2. /\ x \in Balances /\ x.damaged = b.damaged - q /\ x.reserved = b.reserved
        /\ x.onHand = b.onHand /\ x.version = b.version
    BY <1>2 DEF Balances
  <2> HIDE DEF x
  <2>3. Follows(b, x, "DAMAGED", "AVAILABLE", q)
    BY <2>2 DEF LegalBalance, Balances, Follows, Change
  <2> QED
    BY <1>3, <2>1, <2>3
<1>4. CASE e.source = "RESERVED"
  <2> DEFINE x == [y EXCEPT !.reserved = b.reserved + q]
  <2>1. Unquarantined(b, e, q) = Saved(x)
    BY <1>1, <1>4 DEF Unquarantined
  <2> HIDE DEF y
  <2>2. /\ x \in Balances /\ x.damaged = b.damaged - q /\ x.reserved = b.reserved + q
        /\ x.onHand = b.onHand /\ x.version = b.version
    BY <1>2 DEF Balances
  <2> HIDE DEF x
  <2>3. Follows(b, x, "DAMAGED", "RESERVED", q)
    BY <2>2 DEF LegalBalance, Balances, Follows, Change
  <2> QED
    BY <1>4, <2>1, <2>3
<1> QED
  BY <1>3, <1>4 DEF Exceptions

\* A dismissal either leaves the stock alone or puts back what is still quarantined.
LEMMA DismissIsSound ==
    ASSUME StockLegal, exceptions \in Seq(Exceptions), NEW i \in DOMAIN exceptions, NEW revert,
           DismissException(i, revert)
    PROVE  StockStaysSound /\ Explained /\ Versioned
<1> DEFINE e == exceptions[i]
           p == e.product
           q == Reverted(balance[p], e)
<1>1. e \in Exceptions
  OBVIOUS
<1>2. p \in Products /\ e.source \in {"AVAILABLE", "RESERVED"} /\ e.quantity \in Nat
  BY <1>1 DEF Exceptions
<1> HIDE DEF e
<1>3. balance[p] \in Balances /\ LegalBalance(balance[p])
  BY <1>2 DEF StockLegal, Legal
<1>4. q \in Nat /\ q <= balance[p].damaged
  BY <1>2, <1>3 DEF Reverted, Smaller, LegalBalance, Balances
<1>5. CASE revert /\ q > 0
  <2>1. Book(p, Unquarantined(balance[p], e, q), "DAMAGED", e.source, q)
    BY <1>5 DEF DismissException, e
  <2> HIDE DEF q, p
  <2>2. PICK x : /\ Unquarantined(balance[p], e, q) = Saved(x)
                 /\ Follows(balance[p], x, "DAMAGED", e.source, q)
    BY <1>1, <1>3, <1>4, UnquarantinedFollows
  <2> QED
    BY <1>2, <1>4, <2>1, <2>2, BookIsSound DEF StockStates, Movable
<1>6. CASE ~(revert /\ q > 0)
  <2>1. UNCHANGED <<balance, ledger>>
    BY <1>6 DEF DismissException, e
  <2> QED
    BY <2>1, NoFlowIsBooking DEF StockLegal, StockStaysSound, StaysSound, Legal, Explained, Versioned
<1> QED
  BY <1>5, <1>6

--------------------------------------------------------------------------------
\* The operations that book several rows

\* One line of an order, booked on its own row.
LEMMA LineIsSound ==
    ASSUME NEW b, NEW l, Legal(b, l), NEW x,
           NEW from \in StockStates, NEW to \in StockStates, Movable(from, to), NEW q \in Nat,
           Follows(b, x, from, to, q)
    PROVE  /\ StaysSound(b, l, Saved(x), Recorded(l, from, to, q, Saved(x)))
           /\ Stock!Booking(BucketsOf(b), BucketsOf(Saved(x)))
           /\ Saved(x).version = b.version + 1
<1> DEFINE c == Saved(x)
<1>1. c \in Balances /\ LegalBalance(c) /\ Flow(b, c, from, to, q) /\ c.version = b.version + 1
  BY SavedFollows
<1> HIDE DEF c
<1>2. StaysSound(b, l, c, Recorded(l, from, to, q, c))
  BY <1>1, RecordedStaysSound DEF Legal, Movable
<1>3. Stock!Booking(BucketsOf(b), BucketsOf(c))
  BY <1>1, FlowIsBooking DEF Legal
<1> QED
  BY <1>1, <1>2, <1>3 DEF c

LEMMA ReserveIsSound ==
    ASSUME StockLegal, NEW demand \in [Products -> Nat], ReserveStock(demand)
    PROVE  StockStaysSound /\ Explained /\ Versioned
<1> DEFINE x(p) == [balance[p] EXCEPT !.reserved = @ + demand[p]]
           B(p) == IF demand[p] > 0 THEN Saved(x(p)) ELSE balance[p]
           L(p) == IF demand[p] > 0
                   THEN Recorded(ledger[p], "AVAILABLE", "RESERVED", demand[p], B(p))
                   ELSE ledger[p]
<1>1. balance' = [p \in Products |-> B(p)] /\ \A p \in Products : balance'[p] = B(p)
  BY DEF ReserveStock
<1>2. ledger' = [p \in Products |-> L(p)]
  BY <1>1 DEF ReserveStock
<1>3. ASSUME NEW p \in Products
      PROVE  /\ StaysSound(balance[p], ledger[p], B(p), L(p))
             /\ Stock!Booking(BucketsOf(balance[p]), BucketsOf(B(p)))
             /\ B(p) = balance[p] \/ B(p).version = balance[p].version + 1
  <2>1. Legal(balance[p], ledger[p]) /\ balance[p] \in Balances
    BY DEF StockLegal, Legal
  <2>2. CASE demand[p] > 0
    <3>1. balance[p].available >= demand[p]
      BY <2>2 DEF ReserveStock, Reservable
    <3>2. Follows(balance[p], x(p), "AVAILABLE", "RESERVED", demand[p])
      BY <2>1, <3>1 DEF Legal, LegalBalance, Balances, Follows, Change
    <3> HIDE DEF x
    <3>3. /\ StaysSound(balance[p], ledger[p], Saved(x(p)), Recorded(ledger[p], "AVAILABLE", "RESERVED", demand[p], Saved(x(p))))
          /\ Stock!Booking(BucketsOf(balance[p]), BucketsOf(Saved(x(p))))
          /\ Saved(x(p)).version = balance[p].version + 1
      BY <2>1, <3>2, LineIsSound DEF StockStates, Movable
    <3> QED
      BY <2>2, <3>3
  <2>3. CASE ~(demand[p] > 0)
    BY <2>1, <2>3, NoFlowIsBooking DEF StaysSound
  <2> QED
    BY <2>2, <2>3
<1> HIDE DEF x, B, L
<1>4. StockStaysSound
  BY <1>1, <1>2, <1>3 DEF StockStaysSound, StaysSound, Legal
<1>5. Explained /\ Versioned
  BY <1>1, <1>3 DEF Explained, Versioned
<1> QED
  BY <1>4, <1>5

LEMMA ReleaseIsSound ==
    ASSUME StockLegal, NEW claim \in [Products -> Nat], ReleaseStock(claim)
    PROVE  StockStaysSound /\ Explained /\ Versioned
<1> DEFINE q(p) == ActualRelease(p, claim)
           x(p) == [balance[p] EXCEPT !.reserved = AtLeastZero(@ - q(p))]
           B(p) == IF q(p) > 0 THEN Saved(x(p)) ELSE balance[p]
           L(p) == IF q(p) > 0 THEN Recorded(ledger[p], "RESERVED", "AVAILABLE", q(p), B(p)) ELSE ledger[p]
<1>1. balance' = [p \in Products |-> B(p)] /\ \A p \in Products : balance'[p] = B(p)
  BY DEF ReleaseStock
<1>2. ledger' = [p \in Products |-> L(p)]
  BY <1>1 DEF ReleaseStock
<1>3. ASSUME NEW p \in Products
      PROVE  /\ StaysSound(balance[p], ledger[p], B(p), L(p))
             /\ Stock!Booking(BucketsOf(balance[p]), BucketsOf(B(p)))
             /\ B(p) = balance[p] \/ B(p).version = balance[p].version + 1
  <2>1. Legal(balance[p], ledger[p]) /\ balance[p] \in Balances
    BY DEF StockLegal, Legal
  <2>2. q(p) \in Nat /\ q(p) <= balance[p].reserved
    BY <2>1 DEF ActualRelease, Smaller, Legal, LegalBalance, Balances
  <2> HIDE DEF q
  <2>3. CASE q(p) > 0
    <3>1. AtLeastZero(balance[p].reserved - q(p)) = balance[p].reserved - q(p)
      BY <2>1, <2>2 DEF AtLeastZero, Balances
    <3>2. x(p) = [balance[p] EXCEPT !.reserved = balance[p].reserved - q(p)]
      BY <3>1
    <3> HIDE DEF x
    <3>3. Follows(balance[p], x(p), "RESERVED", "AVAILABLE", q(p))
      BY <2>1, <2>2, <3>2 DEF Legal, LegalBalance, Balances, Follows, Change
    <3>4. /\ StaysSound(balance[p], ledger[p], Saved(x(p)), Recorded(ledger[p], "RESERVED", "AVAILABLE", q(p), Saved(x(p))))
          /\ Stock!Booking(BucketsOf(balance[p]), BucketsOf(Saved(x(p))))
          /\ Saved(x(p)).version = balance[p].version + 1
      BY <2>1, <2>2, <3>3, LineIsSound DEF StockStates, Movable
    <3> QED
      BY <2>3, <3>4
  <2>4. CASE ~(q(p) > 0)
    BY <2>1, <2>4, NoFlowIsBooking DEF StaysSound
  <2> QED
    BY <2>3, <2>4
<1> HIDE DEF x, B, L, q
<1>4. StockStaysSound
  BY <1>1, <1>2, <1>3 DEF StockStaysSound, StaysSound, Legal
<1>5. Explained /\ Versioned
  BY <1>1, <1>3 DEF Explained, Versioned
<1> QED
  BY <1>4, <1>5

\* The two halves of a return, column by column.
LEMMA RestockedColumns ==
    ASSUME NEW b \in Balances, NEW good \in Nat
    PROVE  /\ Restocked(b, good) \in Balances
           /\ Restocked(b, good).onHand = b.onHand + good
           /\ Restocked(b, good).available = b.available + good
           /\ Restocked(b, good).reserved = b.reserved
           /\ Restocked(b, good).damaged = b.damaged
<1> DEFINE y == [b EXCEPT !.onHand = @ + good]
<1>1. /\ y \in Balances /\ y.onHand = b.onHand + good /\ y.available = b.available
      /\ y.reserved = b.reserved /\ y.damaged = b.damaged
  BY DEF Balances
<1>2. Restocked(b, good) = [y EXCEPT !.available = @ + good]
  BY DEF Restocked
<1> HIDE DEF y
<1> QED
  BY <1>1, <1>2 DEF Balances

LEMMA QuarantinedColumns ==
    ASSUME NEW b \in Balances, NEW bad \in Nat
    PROVE  /\ Quarantined(b, bad) \in Balances
           /\ Quarantined(b, bad).onHand = b.onHand + bad
           /\ Quarantined(b, bad).available = b.available
           /\ Quarantined(b, bad).reserved = b.reserved
           /\ Quarantined(b, bad).damaged = b.damaged + bad
<1> DEFINE y == [b EXCEPT !.onHand = @ + bad]
<1>1. /\ y \in Balances /\ y.onHand = b.onHand + bad /\ y.available = b.available
      /\ y.reserved = b.reserved /\ y.damaged = b.damaged
  BY DEF Balances
<1>2. Quarantined(b, bad) = [y EXCEPT !.damaged = @ + bad]
  BY DEF Quarantined
<1> HIDE DEF y
<1> QED
  BY <1>1, <1>2 DEF Balances

\* One half of a return, recorded only when it is not empty.
LEMMA HalfReturnIsSound ==
    ASSUME NEW b, NEW l, Legal(b, l), NEW c \in Balances, LegalBalance(c),
           NEW to \in {"AVAILABLE", "DAMAGED"}, NEW q \in Nat, Flow(b, c, "EXTERNAL", to, q)
    PROVE  StaysSound(b, l, c, ReturnRecorded(l, c, to, q))
<1>1. CASE q > 0
  BY <1>1, RecordedStaysSound DEF ReturnRecorded, StockStates, Legal
<1>2. CASE q = 0
  <2>1. ReturnRecorded(l, c, to, q) = l
    BY <1>2 DEF ReturnRecorded
  <2>2. /\ b \in Balances /\ LegalBalance(b)
        /\ c.available = b.available /\ c.reserved = b.reserved /\ c.damaged = b.damaged
    BY <1>2 DEF Flow, Change, Legal, Balances
  <2>3. c.onHand = b.onHand
    BY <2>2 DEF LegalBalance, Balances
  <2> QED
    BY <2>1, <2>2, <2>3 DEF StaysSound, Legal, Reconciled, Snapshot
<1> QED
  BY <1>1, <1>2

\* A return saves the row twice: both halves are sound, and together they are one
\* receipt.  The version stays where it was, so Versioned is not among the results.
LEMMA DispositionIsSound ==
    ASSUME StockLegal, NEW p \in Products, NEW good \in Nat, NEW bad \in Nat,
           ExecuteDisposition(p, good, bad)
    PROVE  StockStaysSound /\ Explained
<1> DEFINE b == balance[p]
           b1 == Restocked(b, good)
           b2 == Quarantined(b1, bad)
           l1 == ReturnRecorded(ledger[p], b1, "AVAILABLE", good)
           l2 == ReturnRecorded(l1, b2, "DAMAGED", bad)
<1>1. balance' = [balance EXCEPT ![p] = b2] /\ ledger' = [ledger EXCEPT ![p] = l2]
  BY DEF ExecuteDisposition
<1>2. Legal(b, ledger[p]) /\ b \in Balances /\ LegalBalance(b)
  BY DEF StockLegal, Legal
<1> HIDE DEF b
<1>3. /\ b1 \in Balances /\ b1.onHand = b.onHand + good /\ b1.available = b.available + good
      /\ b1.reserved = b.reserved /\ b1.damaged = b.damaged
  BY <1>2, RestockedColumns
<1> HIDE DEF b1
<1>4. LegalBalance(b1) /\ Flow(b, b1, "EXTERNAL", "AVAILABLE", good)
  BY <1>2, <1>3 DEF LegalBalance, Flow, Change, Balances
<1>5. StaysSound(b, ledger[p], b1, l1)
  BY <1>2, <1>3, <1>4, HalfReturnIsSound
<1>6. /\ b2 \in Balances /\ b2.onHand = b1.onHand + bad /\ b2.available = b1.available
      /\ b2.reserved = b1.reserved /\ b2.damaged = b1.damaged + bad
  BY <1>3, QuarantinedColumns
<1> HIDE DEF b2, l1
<1>7. LegalBalance(b2) /\ Flow(b1, b2, "EXTERNAL", "DAMAGED", bad)
  BY <1>3, <1>4, <1>6 DEF LegalBalance, Flow, Change, Balances
<1>8. StaysSound(b1, l1, b2, l2)
  BY <1>5, <1>6, <1>7, HalfReturnIsSound DEF StaysSound
<1> HIDE DEF l2
<1>9. Stock!Receipt(BucketsOf(b), BucketsOf(b2))
  BY <1>2, <1>3, <1>6 DEF Stock!Receipt, BucketsOf, Balances
<1>10. StockStaysSound
  BY <1>1, <1>5, <1>6, <1>8 DEF StockLegal, StockStaysSound, StaysSound, Legal, b
<1>11. Explained
  BY <1>1, <1>9, NoFlowIsBooking DEF Explained, StockLegal, Stock!Booking, b
<1> QED
  BY <1>10, <1>11

--------------------------------------------------------------------------------
\* The whole component

LEMMA IInvIsSound == IInv <=> /\ StockLegal /\ LedgerReconciles
                              /\ exceptions \in Seq(Exceptions)
                              /\ form \in Forms \cup {NoForm}
BY DEF IInv, TypeOK, BalanceMath, StockLegal, Legal

LEMMA InitIsSound == InventoryInit => IInv
<1> SUFFICES ASSUME InventoryInit PROVE IInv
  OBVIOUS
<1>1. ZeroBalance \in Balances /\ LegalBalance(ZeroBalance)
  BY DEF ZeroBalance, Balances, LegalBalance
<1>2. Legal(ZeroBalance, EmptyLedger) /\ Reconciled(ZeroBalance, EmptyLedger)
  BY <1>1 DEF Legal, EmptyLedger, ZeroBalance, Ledgers, Snapshots, Snapshot, Reconciled, StockStates
<1>3. Legal(OpeningBalance, OpeningLedger) /\ Reconciled(OpeningBalance, OpeningLedger)
  <2>1. CASE OpeningStock = 0
    BY <2>1, <1>2 DEF OpeningBalance, OpeningLedger
  <2>2. CASE OpeningStock # 0
    <3> DEFINE x == [ZeroBalance EXCEPT !.onHand = OpeningStock]
    <3>1. Follows(ZeroBalance, x, "EXTERNAL", "AVAILABLE", OpeningStock)
      BY InventoryAssumption DEF ZeroBalance, Balances, Follows, Change
    <3>2. OpeningBalance = Saved(x)
      BY <2>2 DEF OpeningBalance
    <3>3. OpeningLedger = Recorded(EmptyLedger, "EXTERNAL", "AVAILABLE", OpeningStock, OpeningBalance)
      BY <2>2 DEF OpeningLedger
    <3> HIDE DEF x
    <3>4. StaysSound(ZeroBalance, EmptyLedger, OpeningBalance, OpeningLedger)
      BY <1>2, <3>1, <3>2, <3>3, LineIsSound, InventoryAssumption DEF StockStates, Movable
    <3> QED
      BY <1>2, <3>4 DEF StaysSound
  <2> QED
    BY <2>1, <2>2
<1>4. StockLegal /\ LedgerReconciles
  BY <1>3 DEF InventoryInit, StockLegal, Legal, LedgerReconciles
<1>5. exceptions \in Seq(Exceptions) /\ form \in Forms \cup {NoForm}
  BY DEF InventoryInit
<1> QED
  BY <1>4, <1>5, IInvIsSound

\* Every transaction keeps the rows sound and is explained by the abstract stock;
\* where nothing is returned they advance the version of each row they change.
LEMMA StepIsSound ==
    ASSUME StockLegal, exceptions \in Seq(Exceptions), InventoryNext
    PROVE  StockStaysSound /\ Explained /\ VersionedUnlessReturned
<1>1. StockLegal /\ exceptions \in Seq(Exceptions)
  OBVIOUS
<1>2. /\ Quantities \subseteq Nat
      /\ Demands \subseteq [Products -> Nat]
      /\ ReturnQuantities \cup {0} \subseteq Nat
      /\ FormProducts \subseteq Products /\ ReturnProducts \subseteq Products
  <2>1. /\ Quantities \subseteq Nat /\ ReturnQuantities \subseteq Nat
        /\ FormProducts \subseteq Products /\ ReturnProducts \subseteq Products
    BY InventoryAssumption
  <2>2. Quantities \cup {0} \subseteq Nat /\ ReturnQuantities \cup {0} \subseteq Nat
    BY <2>1
  <2>3. ASSUME NEW d \in [Products -> Quantities \cup {0}]
        PROVE  d \in [Products -> Nat]
    BY <2>2
  <2> QED
    BY <2>1, <2>2, <2>3 DEF Demands
<1>0. Versioned => VersionedUnlessReturned
  BY DEF Versioned, VersionedUnlessReturned
<1>3. ASSUME UNCHANGED <<balance, ledger>>
      PROVE  StockStaysSound /\ Explained /\ VersionedUnlessReturned
  BY <1>1, <1>3, NoFlowIsBooking
     DEF StockLegal, StockStaysSound, StaysSound, Legal, Explained, VersionedUnlessReturned
<1>4. CASE StaffNext
  <2>1. CASE \E p \in FormProducts : OpenForm(p)
    BY <2>1, <1>3 DEF OpenForm
  <2>2. CASE \E p \in Products, q \in Quantities, viaForm \in BOOLEAN : IncreaseOnHand(p, q, viaForm)
    BY <1>0, <1>1, <1>2, <2>2, IncreaseIsSound
  <2>3. CASE \E p \in Products, q \in Quantities, viaForm \in BOOLEAN : DecreaseOnHand(p, q, viaForm)
    BY <1>0, <1>1, <1>2, <2>3, DecreaseIsSound
  <2>4. CASE \E p \in Products, q \in Quantities, viaForm \in BOOLEAN : TransferToDamaged(p, q, viaForm)
    BY <1>0, <1>1, <1>2, <2>4, TransferIsSound
  <2>5. CASE \E p \in Products, q \in Quantities, viaForm \in BOOLEAN : DisposeDamaged(p, q, viaForm)
    BY <1>0, <1>1, <1>2, <2>5, DisposeIsSound
  <2>6. CASE \E p \in Products, source \in ExceptionSources, q \in Quantities : ReportException(p, source, q)
    BY <1>0, <1>1, <1>2, <2>6, ReportIsSound
  <2>7. CASE \E i \in DOMAIN exceptions : ResolveException(i)
    BY <2>7, <1>3 DEF ResolveException
  <2>8. CASE \E i \in DOMAIN exceptions, revert \in BOOLEAN : DismissException(i, revert)
    BY <1>0, <1>1, <2>8, DismissIsSound
  <2> QED
    BY <1>4, <2>1, <2>2, <2>3, <2>4, <2>5, <2>6, <2>7, <2>8 DEF StaffNext
<1>5. CASE \E demand \in Demands : ReserveStock(demand)
  BY <1>0, <1>1, <1>2, <1>5, ReserveIsSound
<1>6. CASE \E claim \in Demands : ReleaseStock(claim)
  BY <1>0, <1>1, <1>2, <1>6, ReleaseIsSound
<1>7. CASE \E p \in ReturnProducts, good, bad \in ReturnQuantities \cup {0} : ExecuteDisposition(p, good, bad)
  <2>1. StockStaysSound /\ Explained
    BY <1>1, <1>2, <1>7, DispositionIsSound
  <2>2. PICK p \in ReturnProducts : \E b : balance' = [balance EXCEPT ![p] = b]
    BY <1>7 DEF ExecuteDisposition
  <2>3. VersionedUnlessReturned
    BY <1>1, <2>2 DEF VersionedUnlessReturned, StockLegal
  <2> QED
    BY <2>1, <2>3
<1> QED
  BY <1>4, <1>5, <1>6, <1>7 DEF InventoryNext

\* What a transaction does to the tickets and to the open form.
LEMMA StepIsTyped ==
    ASSUME exceptions \in Seq(Exceptions), InventoryNext
    PROVE  /\ exceptions' \in Seq(Exceptions)
           /\ \/ form' = form
              \/ form' = NoForm
              \/ \E p \in FormProducts : /\ form' = [product |-> p, seen |-> balance[p]]
                                         /\ balance' = balance
<1>1. exceptions \in Seq(Exceptions)
  OBVIOUS
<1>2. Quantities \subseteq Nat /\ FormProducts \subseteq Products /\ ExceptionSources \subseteq {"AVAILABLE", "RESERVED"}
  BY InventoryAssumption
<1>3. CASE StaffNext
  <2>1. CASE \E p \in FormProducts : OpenForm(p)
    BY <1>1, <1>2, <2>1 DEF OpenForm
  <2>2. CASE \E p \in Products, q \in Quantities, viaForm \in BOOLEAN :
                \/ IncreaseOnHand(p, q, viaForm) \/ DecreaseOnHand(p, q, viaForm)
                \/ TransferToDamaged(p, q, viaForm) \/ DisposeDamaged(p, q, viaForm)
    BY <1>1, <2>2 DEF IncreaseOnHand, DecreaseOnHand, TransferToDamaged, DisposeDamaged, Posted
  <2>3. CASE \E p \in Products, source \in ExceptionSources, q \in Quantities : ReportException(p, source, q)
    <3>1. PICK p \in Products, source \in ExceptionSources, q \in Quantities : ReportException(p, source, q)
      BY <2>3
    <3>2. NewException(p, source, q) \in Exceptions
      BY <1>2 DEF NewException, Exceptions
    <3>3. exceptions' = Append(exceptions, NewException(p, source, q)) /\ form' = form
      BY <3>1 DEF ReportException
    <3> QED
      BY <1>1, <3>2, <3>3
  <2>4. CASE \E i \in DOMAIN exceptions : \/ ResolveException(i)
                                          \/ \E revert \in BOOLEAN : DismissException(i, revert)
    <3>1. PICK i \in DOMAIN exceptions, s \in {"RESOLVED", "DISMISSED"} :
             exceptions' = [exceptions EXCEPT ![i].status = s] /\ form' = form
      BY <2>4 DEF ResolveException, DismissException
    <3>2. exceptions[i] \in Exceptions
      BY <1>1
    <3>3. [exceptions[i] EXCEPT !.status = s] \in Exceptions
      BY <3>2 DEF Exceptions
    <3>4. exceptions' = [exceptions EXCEPT ![i] = [exceptions[i] EXCEPT !.status = s]]
      BY <3>1
    <3> QED
      BY <1>1, <3>1, <3>3, <3>4
  <2> QED
    BY <1>3, <2>1, <2>2, <2>3, <2>4 DEF StaffNext
<1>4. CASE \/ \E demand \in Demands : ReserveStock(demand)
           \/ \E claim \in Demands : ReleaseStock(claim)
           \/ \E p \in ReturnProducts, good, bad \in ReturnQuantities \cup {0} : ExecuteDisposition(p, good, bad)
  BY <1>1, <1>4 DEF ReserveStock, ReleaseStock, ExecuteDisposition
<1> QED
  BY <1>3, <1>4 DEF InventoryNext

LEMMA IInvIsInductive == IInv /\ [InventoryNext]_invVars => IInv'
<1> SUFFICES ASSUME IInv, [InventoryNext]_invVars PROVE IInv'
  OBVIOUS
<1>1. CASE InventoryNext
  <2>1. StockStaysSound /\ exceptions' \in Seq(Exceptions)
    BY <1>1, IInvIsSound, StepIsSound, StepIsTyped
  <2>2. form \in Forms \cup {NoForm} /\ \A p \in Products : balance[p] \in Balances
    BY IInvIsSound DEF StockLegal
  <2>3. form' \in Forms \cup {NoForm}
    BY <1>1, <2>2, IInvIsSound, StepIsTyped, InventoryAssumption DEF Forms
  <2> QED
    BY <2>1, <2>3 DEF IInv, TypeOK, BalanceMath, LedgerReconciles, StockStaysSound, StaysSound, Legal
<1>2. CASE UNCHANGED invVars
  BY <1>2 DEF invVars, IInv, TypeOK, BalanceMath, LedgerReconciles, LegalBalance, Reconciled, Snapshot
<1> QED
  BY <1>1, <1>2

--------------------------------------------------------------------------------
\* Theorems

\* Every reachable inventory keeps its rows well typed, its balances legal and its
\* ledger reconciled, whatever the products, the quantities and the bounds are.
THEOREM InventoryIsSound == InventorySpec => []IInv
<1>1. InventoryInit => IInv
  BY InitIsSound
<1>2. IInv /\ [InventoryNext]_invVars => IInv'
  BY IInvIsInductive
<1> QED
  BY <1>1, <1>2, PTL DEF InventorySpec

\* Type correctness: every service writes whole quantities and known statuses.
THEOREM TypeCorrect == InventorySpec => []TypeOK
<1>1. IInv => TypeOK
  BY DEF IInv
<1> QED
  BY <1>1, InventoryIsSound, PTL

\* Available is on hand less reserved less damaged, and nothing is negative, after
\* any number of transactions of any of the services that write inventory_balances.
THEOREM BalanceIsExact == InventorySpec => []BalanceMath
<1>1. IInv => BalanceMath
  BY DEF IInv
<1> QED
  BY <1>1, InventoryIsSound, PTL

\* Replaying the movement rows of a product always gives its balance row.
THEOREM LedgerExplainsBalance == InventorySpec => []LedgerReconciles
<1>1. IInv => LedgerReconciles
  BY DEF IInv
<1> QED
  BY <1>1, InventoryIsSound, PTL

--------------------------------------------------------------------------------
\* The optimistic version of the adjustment form

\* The open form is behind the row by its version, or reads exactly like the row.
FormFresh ==
    form # NoForm => /\ form.product \in FormProducts
                     /\ form.seen.version <= balance[form.product].version
                     /\ form.seen.version = balance[form.product].version
                           => form.seen = balance[form.product]

LEMMA FormStaysFresh ==
    ASSUME FormProducts \cap ReturnProducts = {}, IInv, FormFresh, [InventoryNext]_invVars
    PROVE  FormFresh'
<1>1. CASE InventoryNext
  <2>1. /\ form \in Forms \cup {NoForm}
        /\ \A p \in Products : balance[p] \in Balances
    BY IInvIsSound DEF StockLegal
  <2>2. CASE form' = NoForm
    BY <2>2 DEF FormFresh
  <2>3. CASE form' = form
    <3>1. CASE form = NoForm
      BY <2>3, <3>1 DEF FormFresh
    <3>2. CASE form # NoForm
      <4>1. /\ form.product \in Products /\ form.seen \in Balances
            /\ form.product \in FormProducts /\ form.product \notin ReturnProducts
        BY <2>1, <3>2 DEF Forms, FormFresh
      <4>2. \/ balance'[form.product] = balance[form.product]
            \/ balance'[form.product].version = balance[form.product].version + 1
        BY <1>1, <4>1, IInvIsSound, StepIsSound DEF VersionedUnlessReturned
      <4>3. form.seen.version \in Nat /\ balance[form.product].version \in Nat
        BY <2>1, <4>1 DEF Balances
      <4> QED
        BY <2>3, <3>2, <4>2, <4>3 DEF FormFresh
    <3> QED
      BY <3>1, <3>2
  <2>4. CASE \E p \in FormProducts : form' = [product |-> p, seen |-> balance[p]] /\ balance' = balance
    BY <2>1, <2>4, InventoryAssumption DEF FormFresh, Balances
  <2> QED
    BY <1>1, <2>2, <2>3, <2>4, IInvIsSound, StepIsTyped
<1>2. CASE UNCHANGED invVars
  BY <1>2 DEF invVars, FormFresh
<1> QED
  BY <1>1, <1>2

\* For a product that nobody returns, an adjustment posted from a form is applied only to
\* the numbers the form showed: the version every other service advances is a sound
\* witness.  A return, which advances no version, would break it.
THEOREM FormGuardsAdjustment ==
    ASSUME FormProducts \cap ReturnProducts = {}
    PROVE  InventorySpec => NoLostUpdate
<1>1. InventoryInit => FormFresh
  BY DEF InventoryInit, FormFresh
<1>2. IInv /\ FormFresh /\ [InventoryNext]_invVars => FormFresh'
  BY FormStaysFresh
<1>3. IInv /\ FormFresh /\ [InventoryNext]_invVars
        => [ (form # NoForm /\ form' = NoForm) =>
                Snapshot(balance[form.product]) = Snapshot(form.seen) ]_invVars
  <2> SUFFICES ASSUME FormFresh, InventoryNext, form # NoForm, form' = NoForm
               PROVE  Snapshot(balance[form.product]) = Snapshot(form.seen)
    BY DEF invVars
  <2>1. form.seen.version = balance[form.product].version
    <3>1. ASSUME NEW p, OpenForm(p) PROVE FALSE
      <4>1. DOMAIN form' = {"product", "seen"} /\ DOMAIN NoForm = {"product"}
        BY <3>1 DEF OpenForm, NoForm
      <4> QED
        BY <4>1
    <3>2. ASSUME NEW p, NEW viaForm, Posted(p, viaForm)
          PROVE  form.seen.version = balance[form.product].version
      BY <3>2 DEF Posted
    <3>3. CASE \E p \in Products, q \in Quantities, viaForm \in BOOLEAN :
                  \/ IncreaseOnHand(p, q, viaForm) \/ DecreaseOnHand(p, q, viaForm)
                  \/ TransferToDamaged(p, q, viaForm) \/ DisposeDamaged(p, q, viaForm)
      BY <3>2, <3>3 DEF IncreaseOnHand, DecreaseOnHand, TransferToDamaged, DisposeDamaged
    <3>4. CASE \/ \E p \in Products, source \in ExceptionSources, q \in Quantities : ReportException(p, source, q)
               \/ \E k \in DOMAIN exceptions : ResolveException(k)
               \/ \E k \in DOMAIN exceptions, revert \in BOOLEAN : DismissException(k, revert)
               \/ \E demand \in Demands : ReserveStock(demand)
               \/ \E claim \in Demands : ReleaseStock(claim)
               \/ \E p \in ReturnProducts, good, bad \in ReturnQuantities \cup {0} : ExecuteDisposition(p, good, bad)
      BY <3>4 DEF ReportException, ResolveException, DismissException, ReserveStock, ReleaseStock, ExecuteDisposition
    <3> QED
      BY <3>1, <3>3, <3>4 DEF InventoryNext, StaffNext
  <2> QED
    BY <2>1 DEF FormFresh
<1> QED
  BY <1>1, <1>2, <1>3, InventoryIsSound, PTL DEF InventorySpec, NoLostUpdate

--------------------------------------------------------------------------------
\* The refinement

LEMMA BucketsAreTyped ==
    ASSUME NEW b \in Balances, LegalBalance(b)
    PROVE  BucketsOf(b) \in Stock!BucketType
BY DEF Balances, LegalBalance, BucketsOf, Stock!BucketType, Stock!Buckets

\* The inventory implements the abstract stock: each transaction, whichever service
\* runs it and however many rows it writes, is for every product one receipt, one
\* removal or one transfer of units.
THEOREM ImplementsStockLedger == InventorySpec => StockRefined
<1> DEFINE mapped == [p \in Products |-> BucketsOf(balance[p])]
<1>1. IInv => mapped \in [Products -> Stock!BucketType]
  BY IInvIsSound, BucketsAreTyped DEF StockLegal, Legal
<1>2. InventoryInit => Stock!Init
  BY <1>1, InitIsSound DEF Stock!Init
<1>3. IInv /\ [InventoryNext]_invVars => [Stock!Next]_mapped
  <2> SUFFICES ASSUME IInv, [InventoryNext]_invVars
               PROVE  [Stock!Next]_mapped
    OBVIOUS
  <2>1. CASE InventoryNext
    <3>1. StockStaysSound /\ Explained
      BY <2>1, IInvIsSound, StepIsSound
    <3>2. mapped' \in [Products -> Stock!BucketType]
      BY <3>1, BucketsAreTyped DEF StockStaysSound, StaysSound, Legal
    <3>3. \A p \in Products : Stock!Booking(mapped[p], mapped'[p])
      BY <3>1 DEF Explained
    <3> QED
      BY <3>2, <3>3 DEF Stock!Next
  <2>2. CASE UNCHANGED invVars
    BY <2>2 DEF invVars
  <2> QED
    BY <2>1, <2>2
<1> QED
  BY <1>2, <1>3, InventoryIsSound, PTL DEF InventorySpec, StockRefined, Stock!Spec

--------------------------------------------------------------------------------
\* Columns the proofs count, which no legality is needed for

StockTyped == balance \in [Products -> Balances] /\ ledger \in [Products -> Ledgers]

\* Units of a product that are in quarantine or were thrown away from there.
Held(b, l) == b.damaged + l.disposed

\* The reserved column of p changes by claims, what is held of p by units, and nothing
\* of p leaves on a van.
Counts(p, claims, units) ==
    /\ balance'[p].reserved = balance[p].reserved + claims
    /\ Held(balance'[p], ledger'[p]) = Held(balance[p], ledger[p]) + units
    /\ ledger'[p].net["DISPATCHED"] = ledger[p].net["DISPATCHED"]

LEMMA SavedIsTyped ==
    ASSUME NEW b \in Balances
    PROVE  /\ Saved(b) \in Balances
           /\ Saved(b).reserved = b.reserved
           /\ Saved(b).damaged = b.damaged
<1>1. AtLeastZero(b.onHand - b.reserved - b.damaged) \in Int
  BY DEF AtLeastZero, Balances
<1> DEFINE r == Recalculated(b)
<1>2. r \in Balances /\ r.reserved = b.reserved /\ r.damaged = b.damaged
  BY <1>1 DEF Recalculated, Balances
<1>3. Saved(b) = [r EXCEPT !.version = @ + 1]
  BY DEF Saved
<1> HIDE DEF r
<1> QED
  BY <1>2, <1>3 DEF Balances

LEMMA RecordedIsTyped ==
    ASSUME NEW l \in Ledgers, NEW c \in Balances,
           NEW from \in StockStates, NEW to \in StockStates, NEW q \in Nat
    PROVE  /\ Recorded(l, from, to, q, c) \in Ledgers
           /\ Recorded(l, from, to, q, c).disposed =
                 l.disposed + IF from = "DAMAGED" /\ to = "NONE" THEN q ELSE 0
           /\ Recorded(l, from, to, q, c).net["DISPATCHED"] =
                 l.net["DISPATCHED"] + Change("DISPATCHED", from, to, q)
<1> DEFINE l2 == Recorded(l, from, to, q, c)
<1>1. /\ l2.rows = l.rows + 1
      /\ l2.net = [l.net EXCEPT ![from] = @ - q, ![to] = @ + q]
      /\ l2.disposed = IF from = "DAMAGED" /\ to = "NONE" THEN l.disposed + q ELSE l.disposed
      /\ l2.last = Snapshot(c)
      /\ l2 = [rows |-> l2.rows, net |-> l2.net, disposed |-> l2.disposed, last |-> l2.last]
  BY DEF Recorded
<1>2. l.net \in [StockStates -> Int] /\ l.rows \in Nat /\ l.disposed \in Nat
  BY DEF Ledgers
<1>3. /\ l2.net \in [StockStates -> Int]
      /\ l2.net["DISPATCHED"] = l.net["DISPATCHED"] + Change("DISPATCHED", from, to, q)
  BY <1>1, <1>2 DEF Change, StockStates
<1>4. Snapshot(c) \in Snapshots
  BY DEF Snapshot, Snapshots, Balances
<1> HIDE DEF l2
<1>5. l2 \in Ledgers /\ l2.disposed = l.disposed + IF from = "DAMAGED" /\ to = "NONE" THEN q ELSE 0
  BY <1>1, <1>2, <1>3, <1>4 DEF Ledgers
<1> QED
  BY <1>3, <1>5 DEF l2

\* One row booked for b, which becomes Saved(x).
LEMMA RowCounts ==
    ASSUME NEW b \in Balances, NEW l \in Ledgers, NEW x \in Balances,
           NEW from \in StockStates, NEW to \in StockStates, NEW q \in Nat
    PROVE  /\ Saved(x) \in Balances /\ Recorded(l, from, to, q, Saved(x)) \in Ledgers
           /\ Saved(x).reserved = x.reserved
           /\ Held(Saved(x), Recorded(l, from, to, q, Saved(x))) =
                 Held(b, l) + (x.damaged - b.damaged) + IF from = "DAMAGED" /\ to = "NONE" THEN q ELSE 0
           /\ Recorded(l, from, to, q, Saved(x)).net["DISPATCHED"] =
                 l.net["DISPATCHED"] + Change("DISPATCHED", from, to, q)
<1> DEFINE k == Recorded(l, from, to, q, Saved(x))
<1>1. Saved(x) \in Balances /\ Saved(x).reserved = x.reserved /\ Saved(x).damaged = x.damaged
  BY SavedIsTyped
<1>2. /\ k \in Ledgers
      /\ k.disposed = l.disposed + IF from = "DAMAGED" /\ to = "NONE" THEN q ELSE 0
      /\ k.net["DISPATCHED"] = l.net["DISPATCHED"] + Change("DISPATCHED", from, to, q)
  BY <1>1, RecordedIsTyped
<1> HIDE DEF k
<1>3. /\ x.reserved \in Int /\ x.damaged \in Int /\ b.reserved \in Int /\ b.damaged \in Int
      /\ l.disposed \in Int
  BY DEF Balances, Ledgers
<1> QED
  BY <1>1, <1>2, <1>3 DEF Held, k

\* The same where nothing is thrown away and no van is loaded.
LEMMA PlainRowCounts ==
    ASSUME NEW b \in Balances, NEW l \in Ledgers, NEW x \in Balances,
           NEW from \in StockStates \ {"DISPATCHED", "DAMAGED"}, NEW to \in StockStates \ {"DISPATCHED"},
           NEW q \in Nat, x.damaged = b.damaged
    PROVE  /\ Saved(x) \in Balances /\ Recorded(l, from, to, q, Saved(x)) \in Ledgers
           /\ Saved(x).reserved = x.reserved
           /\ Held(Saved(x), Recorded(l, from, to, q, Saved(x))) = Held(b, l)
           /\ Recorded(l, from, to, q, Saved(x)).net["DISPATCHED"] = l.net["DISPATCHED"]
<1> DEFINE k == Recorded(l, from, to, q, Saved(x))
<1>1. /\ Saved(x) \in Balances /\ k \in Ledgers
      /\ Saved(x).reserved = x.reserved
      /\ Held(Saved(x), k) = Held(b, l) + (x.damaged - b.damaged) + IF from = "DAMAGED" /\ to = "NONE" THEN q ELSE 0
      /\ k.net["DISPATCHED"] = l.net["DISPATCHED"] + Change("DISPATCHED", from, to, q)
  BY RowCounts
<1>2. b.damaged \in Int /\ Held(b, l) \in Int /\ l.net["DISPATCHED"] \in Int
  BY DEF Balances, Ledgers, Held, StockStates
<1>3. Change("DISPATCHED", from, to, q) = 0 /\ ~(from = "DAMAGED" /\ to = "NONE")
  BY DEF Change
<1> HIDE DEF k
<1>4. Held(Saved(x), k) = Held(b, l)
  BY <1>1, <1>2, <1>3
<1>5. k.net["DISPATCHED"] = l.net["DISPATCHED"]
  BY <1>1, <1>2, <1>3
<1> QED
  BY <1>1, <1>4, <1>5 DEF k

LEMMA NothingCounts ==
    ASSUME StockTyped, NEW p \in Products, balance'[p] = balance[p], ledger'[p] = ledger[p]
    PROVE  Counts(p, 0, 0)
<1>1. balance[p].reserved \in Int /\ Held(balance[p], ledger[p]) \in Int
  BY DEF StockTyped, Balances, Ledgers, Held
<1> QED
  BY <1>1 DEF Counts

LEMMA BookCounts ==
    ASSUME StockTyped, NEW p \in Products, NEW x \in Balances,
           NEW from \in StockStates \ {"DISPATCHED"}, NEW to \in StockStates \ {"DISPATCHED"},
           NEW q \in Nat, Book(p, Saved(x), from, to, q),
           NEW claims \in Int, x.reserved = balance[p].reserved + claims,
           NEW units \in Int,
           x.damaged = balance[p].damaged + units - IF from = "DAMAGED" /\ to = "NONE" THEN q ELSE 0
    PROVE  StockTyped' /\ Counts(p, claims, units) /\ \A r \in Products \ {p} : Counts(r, 0, 0)
<1> DEFINE k == Recorded(ledger[p], from, to, q, Saved(x))
<1>1. /\ balance' = [balance EXCEPT ![p] = Saved(x)] /\ ledger' = [ledger EXCEPT ![p] = k]
      /\ balance[p] \in Balances /\ ledger[p] \in Ledgers
      /\ from \in StockStates /\ to \in StockStates
  BY DEF Book, StockTyped
<1>2. /\ Saved(x) \in Balances /\ k \in Ledgers
      /\ Saved(x).reserved = x.reserved
      /\ Held(Saved(x), k) = Held(balance[p], ledger[p]) + (x.damaged - balance[p].damaged)
                             + IF from = "DAMAGED" /\ to = "NONE" THEN q ELSE 0
      /\ k.net["DISPATCHED"] = ledger[p].net["DISPATCHED"] + Change("DISPATCHED", from, to, q)
  BY <1>1, RowCounts
<1> HIDE DEF k
<1>3. StockTyped' /\ balance'[p] = Saved(x) /\ ledger'[p] = k
  BY <1>1, <1>2 DEF StockTyped
<1>4. /\ balance[p].reserved \in Int /\ balance[p].damaged \in Int
      /\ Held(balance[p], ledger[p]) \in Int /\ ledger[p].net["DISPATCHED"] \in Int
  BY <1>1 DEF Balances, Ledgers, Held, StockStates
<1>5. k.net["DISPATCHED"] = ledger[p].net["DISPATCHED"]
  BY <1>2, <1>4 DEF Change
<1>6. Saved(x).reserved = balance[p].reserved + claims
  BY <1>2, <1>4
<1>7. Held(Saved(x), k) = Held(balance[p], ledger[p]) + units
  <2>1. CASE from = "DAMAGED" /\ to = "NONE"
    BY <1>2, <1>4, <2>1
  <2>2. CASE ~(from = "DAMAGED" /\ to = "NONE")
    BY <1>2, <1>4, <2>2
  <2> QED
    BY <2>1, <2>2
<1>8. Counts(p, claims, units)
  BY <1>3, <1>5, <1>6, <1>7 DEF Counts
<1>9. \A r \in Products \ {p} : Counts(r, 0, 0)
  BY <1>1, NothingCounts DEF StockTyped
<1> QED
  BY <1>3, <1>8, <1>9

--------------------------------------------------------------------------------
\* What the operations of staff do to those columns, and to the tickets

OnlyOf(p) == \A r \in Products \ {p} : Counts(r, 0, 0)

NoTicket == exceptions' = exceptions /\ \A p \in Products : \E u \in Nat : Counts(p, 0, u)

TicketOpened ==
    \E p \in Products, source \in {"AVAILABLE", "RESERVED"}, q \in Nat, c \in Int :
       /\ exceptions' = Append(exceptions, NewException(p, source, q))
       /\ source = "AVAILABLE" => c = 0
       /\ Counts(p, c, q) /\ OnlyOf(p)

TicketClosed ==
    \E i \in DOMAIN exceptions, s \in {"RESOLVED", "DISMISSED"}, c \in Int, u \in Int :
       /\ Pending(i)
       /\ exceptions' = [exceptions EXCEPT ![i].status = s]
       /\ exceptions[i].source = "AVAILABLE" => c = 0
       /\ 0 <= u + exceptions[i].quantity
       /\ Counts(exceptions[i].product, c, u) /\ OnlyOf(exceptions[i].product)

LEMMA UntouchedCounts ==
    ASSUME StockTyped, UNCHANGED <<balance, ledger>>
    PROVE  StockTyped' /\ \A p \in Products : Counts(p, 0, 0)
BY NothingCounts DEF StockTyped

LEMMA AdjustmentCounts ==
    ASSUME StockTyped, NEW p \in Products, NEW q \in Nat, NEW viaForm,
           \/ IncreaseOnHand(p, q, viaForm) \/ DecreaseOnHand(p, q, viaForm)
           \/ TransferToDamaged(p, q, viaForm) \/ DisposeDamaged(p, q, viaForm)
    PROVE  StockTyped' /\ NoTicket
<1>1. balance[p] \in Balances
  BY DEF StockTyped
<1>2. ASSUME NEW u \in Nat, StockTyped', Counts(p, 0, u), OnlyOf(p), exceptions' = exceptions
      PROVE  StockTyped' /\ NoTicket
  BY <1>2 DEF NoTicket, OnlyOf
<1>3. {"EXTERNAL", "AVAILABLE", "DAMAGED", "NONE"} \subseteq StockStates \ {"DISPATCHED"}
  BY DEF StockStates
<1>4. CASE IncreaseOnHand(p, q, viaForm)
  <2> DEFINE x == [balance[p] EXCEPT !.onHand = @ + q]
  <2>1. x \in Balances /\ x.reserved = balance[p].reserved + 0 /\ x.damaged = balance[p].damaged + 0 - 0
    BY <1>1 DEF Balances
  <2>2. Book(p, Saved(x), "EXTERNAL", "AVAILABLE", q) /\ exceptions' = exceptions
    BY <1>4 DEF IncreaseOnHand
  <2> HIDE DEF x
  <2>3. StockTyped' /\ Counts(p, 0, 0) /\ OnlyOf(p)
    BY <1>3, <2>1, <2>2, BookCounts DEF OnlyOf
  <2> QED
    BY <1>2, <2>2, <2>3
<1>5. CASE DecreaseOnHand(p, q, viaForm)
  <2> DEFINE x == [balance[p] EXCEPT !.onHand = @ - q]
  <2>1. x \in Balances /\ x.reserved = balance[p].reserved + 0 /\ x.damaged = balance[p].damaged + 0 - 0
    BY <1>1 DEF Balances
  <2>2. Book(p, Saved(x), "AVAILABLE", "NONE", q) /\ exceptions' = exceptions
    BY <1>5 DEF DecreaseOnHand
  <2> HIDE DEF x
  <2>3. StockTyped' /\ Counts(p, 0, 0) /\ OnlyOf(p)
    BY <1>3, <2>1, <2>2, BookCounts DEF OnlyOf
  <2> QED
    BY <1>2, <2>2, <2>3
<1>6. CASE TransferToDamaged(p, q, viaForm)
  <2> DEFINE x == [balance[p] EXCEPT !.damaged = @ + q]
  <2>1. x \in Balances /\ x.reserved = balance[p].reserved + 0 /\ x.damaged = balance[p].damaged + q - 0
    BY <1>1 DEF Balances
  <2>2. Book(p, Saved(x), "AVAILABLE", "DAMAGED", q) /\ exceptions' = exceptions
    BY <1>6 DEF TransferToDamaged
  <2> HIDE DEF x
  <2>3. StockTyped' /\ Counts(p, 0, q) /\ OnlyOf(p)
    BY <1>3, <2>1, <2>2, BookCounts DEF OnlyOf
  <2> QED
    BY <1>2, <2>2, <2>3
<1>7. CASE DisposeDamaged(p, q, viaForm)
  <2> DEFINE y == [balance[p] EXCEPT !.damaged = @ - q]
             x == [y EXCEPT !.onHand = @ - q]
  <2>1. /\ y \in Balances /\ y.damaged = balance[p].damaged - q /\ y.onHand = balance[p].onHand
        /\ y.reserved = balance[p].reserved
    BY <1>1 DEF Balances
  <2>2. Book(p, Saved(x), "DAMAGED", "NONE", q) /\ exceptions' = exceptions
    BY <1>7 DEF DisposeDamaged
  <2> HIDE DEF y
  <2>3. x \in Balances /\ x.reserved = balance[p].reserved + 0 /\ x.damaged = balance[p].damaged + 0 - q
    BY <1>1, <2>1 DEF Balances
  <2> HIDE DEF x
  <2>4. StockTyped' /\ Counts(p, 0, 0) /\ OnlyOf(p)
    BY <1>3, <2>2, <2>3, BookCounts DEF OnlyOf
  <2> QED
    BY <1>2, <2>2, <2>4
<1> QED
  BY <1>4, <1>5, <1>6, <1>7

LEMMA ReportCounts ==
    ASSUME StockTyped, NEW p \in Products, NEW source \in {"AVAILABLE", "RESERVED"}, NEW q \in Nat,
           ReportException(p, source, q)
    PROVE  StockTyped' /\ TicketOpened
<1> DEFINE y == [balance[p] EXCEPT !.damaged = @ + q]
           n == AtLeastZero(balance[p].reserved - q)
           x == IF source = "AVAILABLE" THEN y ELSE [y EXCEPT !.reserved = n]
           c == x.reserved - balance[p].reserved
<1>1. balance[p] \in Balances /\ n \in Int
  BY DEF StockTyped, Balances, AtLeastZero
<1>2. /\ y \in Balances /\ y.damaged = balance[p].damaged + q
      /\ y.reserved = balance[p].reserved
  BY <1>1 DEF Balances
<1>3. Book(p, Saved(x), source, "DAMAGED", q) /\ exceptions' = Append(exceptions, NewException(p, source, q))
  BY DEF ReportException
<1> HIDE DEF y, n
<1>4. /\ x \in Balances /\ x.damaged = balance[p].damaged + q
      /\ source = "AVAILABLE" => x.reserved = balance[p].reserved
  BY <1>1, <1>2 DEF Balances
<1> HIDE DEF x
<1>5. /\ c \in Int /\ x.reserved = balance[p].reserved + c /\ (source = "AVAILABLE" => c = 0)
      /\ x.damaged = balance[p].damaged + q - 0
  BY <1>1, <1>4 DEF Balances
<1> HIDE DEF c
<1>6. source \in StockStates \ {"DISPATCHED"} /\ "DAMAGED" \in StockStates \ {"DISPATCHED"}
  BY DEF StockStates
<1>7. StockTyped' /\ Counts(p, c, q) /\ OnlyOf(p)
  BY <1>3, <1>4, <1>5, <1>6, BookCounts DEF OnlyOf
<1> QED
  BY <1>3, <1>5, <1>7 DEF TicketOpened

LEMMA ClosedUntouched ==
    ASSUME StockTyped, exceptions \in Seq(Exceptions), UNCHANGED <<balance, ledger>>,
           NEW i \in DOMAIN exceptions, Pending(i), NEW s \in {"RESOLVED", "DISMISSED"},
           exceptions' = [exceptions EXCEPT ![i].status = s]
    PROVE  StockTyped' /\ TicketClosed
<1>1. exceptions[i] \in Exceptions
  OBVIOUS
<1>2. exceptions[i].product \in Products /\ exceptions[i].quantity \in Nat
  BY <1>1 DEF Exceptions
<1>3. PICK none \in Int : none = 0
  OBVIOUS
<1>4. StockTyped' /\ Counts(exceptions[i].product, none, none) /\ OnlyOf(exceptions[i].product)
  BY <1>2, <1>3, UntouchedCounts DEF OnlyOf
<1>5. 0 <= none + exceptions[i].quantity
  BY <1>2, <1>3
<1>6. TicketClosed
  BY <1>3, <1>4, <1>5 DEF TicketClosed
<1> QED
  BY <1>4, <1>6

LEMMA DismissCounts ==
    ASSUME StockTyped, exceptions \in Seq(Exceptions), NEW i \in DOMAIN exceptions, NEW revert,
           DismissException(i, revert)
    PROVE  StockTyped' /\ TicketClosed
<1> DEFINE e == exceptions[i]
           p == e.product
           q == Reverted(balance[p], e)
<1>1. e \in Exceptions
  OBVIOUS
<1>2. /\ p \in Products /\ e.source \in {"AVAILABLE", "RESERVED"} /\ e.quantity \in Nat
      /\ balance[p] \in Balances
  BY <1>1 DEF Exceptions, StockTyped
<1>3. Pending(i) /\ exceptions' = [exceptions EXCEPT ![i].status = "DISMISSED"]
  BY DEF DismissException
<1>4. CASE revert /\ q > 0
  <2>1. Book(p, Unquarantined(balance[p], e, q), "DAMAGED", e.source, q)
    BY <1>4 DEF DismissException
  <2>2. q \in Nat /\ q <= balance[p].damaged /\ q <= e.quantity
    BY <1>2, <1>4 DEF Reverted, Smaller, Balances
  <2> HIDE DEF q, p, e
  <2>3. AtLeastZero(balance[p].damaged - q) = balance[p].damaged - q
    BY <1>2, <2>2 DEF AtLeastZero, Balances
  <2> DEFINE c == IF e.source = "RESERVED" THEN q ELSE 0
             y == [balance[p] EXCEPT !.damaged = balance[p].damaged - q]
             x == [y EXCEPT !.reserved = balance[p].reserved + c]
  <2>4. /\ y \in Balances /\ y.damaged = balance[p].damaged - q /\ y.reserved = balance[p].reserved
        /\ balance[p].reserved \in Int /\ balance[p].damaged \in Int
    BY <1>2, <2>2 DEF Balances
  <2>5. c \in Int /\ (e.source = "AVAILABLE" => c = 0)
    BY <2>2
  <2>6. Unquarantined(balance[p], e, q) = Saved(x)
    <3>1. CASE e.source = "RESERVED"
      BY <2>3, <3>1 DEF Unquarantined
    <3>2. CASE e.source # "RESERVED"
      <4>1. balance[p].reserved + c = balance[p].reserved
        BY <2>4, <3>2
      <4> QED
        BY <2>3, <3>2, <4>1 DEF Unquarantined
    <3> QED
      BY <3>1, <3>2
  <2> HIDE DEF y, c
  <2>7. /\ x \in Balances /\ x.reserved = balance[p].reserved + c
        /\ x.damaged = balance[p].damaged + (0 - q) - 0
    BY <2>2, <2>4, <2>5 DEF Balances
  <2> HIDE DEF x
  <2>8. e.source \in StockStates \ {"DISPATCHED"} /\ "DAMAGED" \in StockStates \ {"DISPATCHED"}
        /\ e.source # "NONE" /\ 0 - q \in Int
    BY <1>2, <2>2 DEF StockStates
  <2>9. StockTyped' /\ Counts(p, c, 0 - q) /\ OnlyOf(p)
    BY <1>2, <2>1, <2>2, <2>5, <2>6, <2>7, <2>8, BookCounts DEF OnlyOf
  <2>10. 0 - q \in Int /\ 0 <= (0 - q) + e.quantity
    BY <1>2, <2>2
  <2> QED
    BY <1>3, <2>5, <2>9, <2>10 DEF TicketClosed, e, p
<1>5. CASE ~(revert /\ q > 0)
  BY <1>2, <1>3, <1>5, ClosedUntouched DEF DismissException
<1> QED
  BY <1>4, <1>5

LEMMA StaffCounts ==
    ASSUME StockTyped, exceptions \in Seq(Exceptions), StaffNext
    PROVE  StockTyped' /\ (NoTicket \/ TicketOpened \/ TicketClosed)
<1>1. /\ Quantities \subseteq Nat /\ ExceptionSources \subseteq {"AVAILABLE", "RESERVED"}
  BY InventoryAssumption
<1>2. CASE \E p \in FormProducts : OpenForm(p)
  BY <1>2, UntouchedCounts DEF OpenForm, NoTicket
<1>3. CASE \E p \in Products, q \in Quantities, viaForm \in BOOLEAN :
              \/ IncreaseOnHand(p, q, viaForm) \/ DecreaseOnHand(p, q, viaForm)
              \/ TransferToDamaged(p, q, viaForm) \/ DisposeDamaged(p, q, viaForm)
  BY <1>1, <1>3, AdjustmentCounts
<1>4. CASE \E p \in Products, source \in ExceptionSources, q \in Quantities : ReportException(p, source, q)
  BY <1>1, <1>4, ReportCounts
<1>5. CASE \E i \in DOMAIN exceptions : ResolveException(i)
  <2>1. PICK i \in DOMAIN exceptions : ResolveException(i)
    BY <1>5
  <2> QED
    BY <2>1, ClosedUntouched DEF ResolveException
<1>6. CASE \E i \in DOMAIN exceptions, revert \in BOOLEAN : DismissException(i, revert)
  BY <1>6, DismissCounts
<1> QED
  BY <1>2, <1>3, <1>4, <1>5, <1>6 DEF StaffNext

--------------------------------------------------------------------------------
\* What the services of orders and returns do to those columns

LEMMA ReserveCounts ==
    ASSUME StockTyped, NEW demand \in [Products -> Nat], ReserveStock(demand)
    PROVE  StockTyped' /\ \A p \in Products : Counts(p, demand[p], 0)
<1> DEFINE x(p) == [balance[p] EXCEPT !.reserved = @ + demand[p]]
           B(p) == IF demand[p] > 0 THEN Saved(x(p)) ELSE balance[p]
           L(p) == IF demand[p] > 0
                   THEN Recorded(ledger[p], "AVAILABLE", "RESERVED", demand[p], B(p))
                   ELSE ledger[p]
<1>1. balance' = [p \in Products |-> B(p)] /\ \A p \in Products : balance'[p] = B(p)
  BY DEF ReserveStock
<1>2. ledger' = [p \in Products |-> L(p)]
  BY <1>1 DEF ReserveStock
<1>3. ASSUME NEW p \in Products
      PROVE  B(p) \in Balances /\ L(p) \in Ledgers /\ Counts(p, demand[p], 0)
  <2>1. balance[p] \in Balances /\ ledger[p] \in Ledgers
    BY DEF StockTyped
  <2>2. CASE demand[p] > 0
    <3>1. /\ x(p) \in Balances /\ x(p).reserved = balance[p].reserved + demand[p]
          /\ x(p).damaged = balance[p].damaged
      BY <2>1 DEF Balances
    <3>2. /\ balance'[p] = Saved(x(p))
          /\ ledger'[p] = Recorded(ledger[p], "AVAILABLE", "RESERVED", demand[p], Saved(x(p)))
          /\ B(p) = balance'[p] /\ L(p) = ledger'[p]
      BY <1>1, <1>2, <2>2
    <3> HIDE DEF x, B, L
    <3>3. /\ balance'[p] \in Balances /\ ledger'[p] \in Ledgers
          /\ balance'[p].reserved = x(p).reserved
          /\ Held(balance'[p], ledger'[p]) = Held(balance[p], ledger[p])
          /\ ledger'[p].net["DISPATCHED"] = ledger[p].net["DISPATCHED"]
      BY <2>1, <3>1, <3>2, PlainRowCounts DEF StockStates
    <3>4. balance[p].damaged \in Int /\ Held(balance[p], ledger[p]) \in Int /\ ledger[p].net["DISPATCHED"] \in Int
      BY <2>1 DEF Balances, Ledgers, Held, StockStates
    <3> QED
      BY <3>1, <3>2, <3>3, <3>4 DEF Counts
  <2>3. CASE ~(demand[p] > 0)
    <3>1. B(p) = balance[p] /\ L(p) = ledger[p] /\ balance'[p] = balance[p] /\ ledger'[p] = ledger[p]
      BY <1>1, <1>2, <2>3
    <3>2. demand[p] = 0
      BY <2>3
    <3> QED
      BY <2>1, <3>1, <3>2, NothingCounts
  <2> QED
    BY <2>2, <2>3
<1> HIDE DEF x, B, L
<1> QED
  BY <1>1, <1>2, <1>3 DEF StockTyped

\* What a release takes from the reserved column: nothing when nothing is left.
Released(p, claim) == IF ActualRelease(p, claim) > 0 THEN ActualRelease(p, claim) ELSE 0

LEMMA ReleaseCounts ==
    ASSUME StockTyped, NEW claim \in [Products -> Nat], ReleaseStock(claim)
    PROVE  StockTyped' /\ \A p \in Products : Counts(p, 0 - Released(p, claim), 0)
<1> DEFINE q(p) == ActualRelease(p, claim)
           x(p) == [balance[p] EXCEPT !.reserved = AtLeastZero(@ - q(p))]
           B(p) == IF q(p) > 0 THEN Saved(x(p)) ELSE balance[p]
           L(p) == IF q(p) > 0 THEN Recorded(ledger[p], "RESERVED", "AVAILABLE", q(p), B(p)) ELSE ledger[p]
<1>1. balance' = [p \in Products |-> B(p)] /\ \A p \in Products : balance'[p] = B(p)
  BY DEF ReleaseStock
<1>2. ledger' = [p \in Products |-> L(p)]
  BY <1>1 DEF ReleaseStock
<1>3. ASSUME NEW p \in Products
      PROVE  B(p) \in Balances /\ L(p) \in Ledgers /\ Counts(p, 0 - Released(p, claim), 0)
  <2>1. balance[p] \in Balances /\ ledger[p] \in Ledgers
    BY DEF StockTyped
  <2>2. q(p) \in Int /\ q(p) <= balance[p].reserved
    BY <2>1 DEF ActualRelease, Smaller, Balances
  <2>3. CASE q(p) > 0
    <3>1. AtLeastZero(balance[p].reserved - q(p)) = balance[p].reserved - q(p) /\ Released(p, claim) = q(p)
      BY <2>1, <2>2, <2>3 DEF AtLeastZero, Balances, Released
    <3>2. /\ balance'[p] = Saved(x(p))
          /\ ledger'[p] = Recorded(ledger[p], "RESERVED", "AVAILABLE", q(p), Saved(x(p)))
          /\ B(p) = balance'[p] /\ L(p) = ledger'[p]
      BY <1>1, <1>2, <2>3
    <3> HIDE DEF q, B, L
    <3>3. /\ x(p) \in Balances /\ x(p).reserved = balance[p].reserved - q(p)
          /\ x(p).damaged = balance[p].damaged
      BY <2>1, <2>2, <3>1 DEF Balances
    <3> HIDE DEF x
    <3>4. /\ q(p) \in Nat /\ "RESERVED" \in StockStates \ {"DISPATCHED", "DAMAGED"}
          /\ "AVAILABLE" \in StockStates \ {"DISPATCHED"}
      BY <2>2, <2>3 DEF StockStates
    <3>5. /\ balance'[p] \in Balances /\ ledger'[p] \in Ledgers
          /\ balance'[p].reserved = x(p).reserved
          /\ Held(balance'[p], ledger'[p]) = Held(balance[p], ledger[p])
          /\ ledger'[p].net["DISPATCHED"] = ledger[p].net["DISPATCHED"]
      BY <2>1, <3>2, <3>3, <3>4, PlainRowCounts
    <3>6. /\ balance[p].damaged \in Int /\ balance[p].reserved \in Int
          /\ Held(balance[p], ledger[p]) \in Int /\ ledger[p].net["DISPATCHED"] \in Int
      BY <2>1 DEF Balances, Ledgers, Held, StockStates
    <3>7. Counts(p, 0 - Released(p, claim), 0)
      BY <2>2, <3>1, <3>3, <3>5, <3>6 DEF Counts
    <3> QED
      BY <3>2, <3>5, <3>7
  <2>4. CASE ~(q(p) > 0)
    <3>1. B(p) = balance[p] /\ L(p) = ledger[p] /\ balance'[p] = balance[p] /\ ledger'[p] = ledger[p]
      BY <1>1, <1>2, <2>4
    <3>2. Released(p, claim) = 0
      BY <2>4 DEF Released
    <3>3. Counts(p, 0, 0)
      BY <3>1, NothingCounts
    <3> QED
      BY <2>1, <3>1, <3>2, <3>3
  <2> QED
    BY <2>3, <2>4
<1> HIDE DEF x, B, L, q
<1> QED
  BY <1>1, <1>2, <1>3 DEF StockTyped

LEMMA HalfReturnIsTyped ==
    ASSUME NEW l \in Ledgers, NEW c \in Balances, NEW to \in {"AVAILABLE", "DAMAGED"}, NEW q \in Nat
    PROVE  /\ ReturnRecorded(l, c, to, q) \in Ledgers
           /\ ReturnRecorded(l, c, to, q).disposed = l.disposed
<1>1. CASE q > 0
  <2>1. Recorded(l, "EXTERNAL", to, q, c) \in Ledgers
    BY RecordedIsTyped DEF StockStates
  <2>3. Recorded(l, "EXTERNAL", to, q, c).disposed = l.disposed
    BY DEF Recorded
  <2> QED
    BY <1>1, <2>1, <2>3 DEF ReturnRecorded
<1>2. CASE q = 0
  BY <1>2 DEF ReturnRecorded
<1> QED
  BY <1>1, <1>2

LEMMA DispositionHolds ==
    ASSUME StockTyped, NEW p \in Products, NEW good \in Nat, NEW bad \in Nat,
           ExecuteDisposition(p, good, bad)
    PROVE  \A r \in Products : Held(balance'[r], ledger'[r]) >= Held(balance[r], ledger[r])
<1> DEFINE b1 == Restocked(balance[p], good)
           b2 == Quarantined(b1, bad)
           l1 == ReturnRecorded(ledger[p], b1, "AVAILABLE", good)
           l2 == ReturnRecorded(l1, b2, "DAMAGED", bad)
<1>1. balance' = [balance EXCEPT ![p] = b2] /\ ledger' = [ledger EXCEPT ![p] = l2]
  BY DEF ExecuteDisposition
<1>2. balance[p] \in Balances /\ ledger[p] \in Ledgers
  BY DEF StockTyped
<1>3. b1 \in Balances /\ b1.damaged = balance[p].damaged
  BY <1>2, RestockedColumns
<1> HIDE DEF b1
<1>4. b2 \in Balances /\ b2.damaged = b1.damaged + bad
  BY <1>3, QuarantinedColumns
<1> HIDE DEF b2
<1>5. l1 \in Ledgers /\ l1.disposed = ledger[p].disposed
  BY <1>2, <1>3, HalfReturnIsTyped
<1> HIDE DEF l1
<1>6. l2 \in Ledgers /\ l2.disposed = l1.disposed
  BY <1>4, <1>5, HalfReturnIsTyped
<1> HIDE DEF l2
<1>7. balance[p].damaged \in Int /\ ledger[p].disposed \in Int
  BY <1>2 DEF Balances, Ledgers
<1>8. Held(b2, l2) >= Held(balance[p], ledger[p])
  BY <1>3, <1>4, <1>5, <1>6, <1>7 DEF Held
<1>9. balance'[p] = b2 /\ ledger'[p] = l2
  BY <1>1 DEF StockTyped
<1>10. ASSUME NEW r \in Products \ {p}
       PROVE  Held(balance'[r], ledger'[r]) >= Held(balance[r], ledger[r])
  <2>1. balance'[r] = balance[r] /\ ledger'[r] = ledger[r]
    BY <1>1 DEF StockTyped
  <2>2. balance[r].damaged \in Int /\ ledger[r].disposed \in Int
    BY DEF StockTyped, Balances, Ledgers
  <2> QED
    BY <2>1, <2>2 DEF Held
<1> QED
  BY <1>8, <1>9, <1>10

--------------------------------------------------------------------------------
\* The units of the pending tickets

\* The sum changes only with the status of a ticket, or with a new one.
LEMMA PendingAppended ==
    ASSUME exceptions \in Seq(Exceptions), NEW e \in Exceptions, e.status = "PENDING_REVIEW",
           exceptions' = Append(exceptions, e), NEW p \in Products
    PROVE  PendingUnits(p)' = PendingUnits(p) + PendingOf(e, p)
<1> DEFINE n == Len(exceptions)
           f == [i \in DOMAIN exceptions |-> PendingOf(exceptions[i], p)]
           g == [i \in DOMAIN exceptions' |-> PendingOf(exceptions'[i], p)]
<1>1. n \in Nat /\ DOMAIN exceptions = 1..n /\ DOMAIN exceptions' = 1..(n + 1)
  OBVIOUS
<1>2. /\ \A i \in 1..n : exceptions[i] \in Exceptions /\ exceptions'[i] = exceptions[i]
      /\ exceptions'[n + 1] = e
  OBVIOUS
<1>3. \A x \in Exceptions : PendingOf(x, p) \in Int
  BY DEF PendingOf, Exceptions
<1>4. /\ \A i \in 1..n : f[i] \in Int /\ g[i] = f[i]
      /\ g[n + 1] = PendingOf(e, p) /\ g[n + 1] \in Int
  BY <1>1, <1>2, <1>3
<1>5. PendingUnits(p) = SumOver(f, 1..n) /\ PendingUnits(p)' = SumOver(g, 1..(n + 1))
  BY <1>1 DEF PendingUnits
<1> HIDE DEF f, g, n
<1> QED
  BY <1>1, <1>4, <1>5, SumAppend

LEMMA PendingReviewed ==
    ASSUME exceptions \in Seq(Exceptions), NEW i \in DOMAIN exceptions, Pending(i),
           NEW s \in {"RESOLVED", "DISMISSED"},
           exceptions' = [exceptions EXCEPT ![i].status = s], NEW p \in Products
    PROVE  /\ PendingUnits(p)' = PendingUnits(p) - PendingOf(exceptions[i], p)
           /\ PendingUnits(p) \in Int
<1> DEFINE n == Len(exceptions)
           f == [k \in DOMAIN exceptions |-> PendingOf(exceptions[k], p)]
           g == [k \in DOMAIN exceptions' |-> PendingOf(exceptions'[k], p)]
<1>1. n \in Nat /\ DOMAIN exceptions = 1..n /\ DOMAIN exceptions' = 1..n
  OBVIOUS
<1>2. /\ \A k \in 1..n : exceptions[k] \in Exceptions
      /\ \A k \in (1..n) \ {i} : exceptions'[k] = exceptions[k]
      /\ exceptions'[i] = [exceptions[i] EXCEPT !.status = s]
  OBVIOUS
<1>3. exceptions'[i].status = s
  BY <1>1, <1>2 DEF Exceptions
<1>4. PendingOf(exceptions'[i], p) = 0
  BY <1>3 DEF PendingOf
<1>5. \A x \in Exceptions : PendingOf(x, p) \in Int
  BY DEF PendingOf, Exceptions
<1>6. /\ \A k \in 1..n : f[k] \in Int
      /\ \A k \in (1..n) \ {i} : g[k] = f[k]
      /\ g[i] = 0 /\ f[i] = PendingOf(exceptions[i], p) /\ i \in 1..n
  BY <1>1, <1>2, <1>4, <1>5
<1>7. PendingUnits(p) = SumOver(f, 1..n) /\ PendingUnits(p)' = SumOver(g, 1..n)
  BY <1>1 DEF PendingUnits
<1> HIDE DEF f, g, n
<1>8. \A k \in 1..n : f[k] \in Int /\ g[k] \in Int
  BY <1>6
<1>9. IsFiniteSet(1..n)
  BY <1>1, ListIsFinite
<1>10. SumOver(g, 1..n) = SumOver(f, 1..n) + g[i] - f[i]
  <2>1. i \in 1..n /\ \A k \in (1..n) \ {i} : g[k] = f[k]
    BY <1>6
  <2> QED
    BY <1>8, <1>9, <2>1, SumChange
<1>11. SumOver(f, 1..n) \in Int
  BY <1>8, <1>9, SumType
<1> QED
  BY <1>6, <1>7, <1>8, <1>10, <1>11

LEMMA PendingTyped ==
    ASSUME exceptions \in Seq(Exceptions), NEW p \in Products
    PROVE  PendingUnits(p) \in Int
<1> DEFINE f == [k \in DOMAIN exceptions |-> PendingOf(exceptions[k], p)]
<1>1. Len(exceptions) \in Nat /\ DOMAIN exceptions = 1..Len(exceptions)
  OBVIOUS
<1>2. \A k \in DOMAIN exceptions : f[k] \in Int
  <2>1. \A k \in DOMAIN exceptions : exceptions[k] \in Exceptions
    OBVIOUS
  <2> QED
    BY <2>1 DEF PendingOf, Exceptions
<1> HIDE DEF f
<1>3. SumOver(f, DOMAIN exceptions) \in Int
  BY <1>1, <1>2, ListIsFinite, SumType
<1> QED
  BY <1>3 DEF PendingUnits, f

\* What tickets wait for stays held, whoever books in between.
LEMMA CoverIsKept ==
    ASSUME IInv, QuarantineCovered, [InventoryNext]_invVars
    PROVE  QuarantineCovered'
<1>1. StockTyped /\ exceptions \in Seq(Exceptions)
  BY DEF IInv, TypeOK, StockTyped
<1>2. \A p \in Products : /\ PendingUnits(p) \in Int /\ Held(balance[p], ledger[p]) \in Int
                           /\ PendingUnits(p) <= Held(balance[p], ledger[p])
  <2>1. \A p \in Products : balance[p].damaged \in Int /\ ledger[p].disposed \in Int
    BY <1>1 DEF StockTyped, Balances, Ledgers
  <2> QED
    BY <1>1, <2>1, PendingTyped DEF QuarantineCovered, Held
<1>3. SUFFICES ASSUME NEW p \in Products
               PROVE  PendingUnits(p)' <= Held(balance'[p], ledger'[p])
  BY DEF QuarantineCovered, Held
<1>4. ASSUME exceptions' = exceptions, NEW u \in Nat,
             Held(balance'[p], ledger'[p]) = Held(balance[p], ledger[p]) + u
      PROVE  PendingUnits(p)' <= Held(balance'[p], ledger'[p])
  <2>1. PendingUnits(p)' = PendingUnits(p)
    BY <1>4 DEF PendingUnits
  <2> QED
    BY <1>2, <1>4, <2>1
<1>5. CASE StaffNext
  <2>1. StockTyped' /\ (NoTicket \/ TicketOpened \/ TicketClosed)
    BY <1>1, <1>5, StaffCounts
  <2>2. CASE NoTicket
    BY <1>4, <2>2 DEF NoTicket, Counts
  <2>3. CASE TicketOpened
    <3>1. PICK r \in Products, source \in {"AVAILABLE", "RESERVED"}, q \in Nat, c \in Int :
             /\ exceptions' = Append(exceptions, NewException(r, source, q))
             /\ Counts(r, c, q) /\ OnlyOf(r)
      BY <2>3 DEF TicketOpened
    <3> DEFINE e == NewException(r, source, q)
    <3>2. e \in Exceptions /\ e.status = "PENDING_REVIEW" /\ e.product = r /\ e.quantity = q
      BY DEF NewException, Exceptions
    <3>3. exceptions' = Append(exceptions, e)
      BY <3>1
    <3> HIDE DEF e
    <3>4. PendingUnits(p)' = PendingUnits(p) + PendingOf(e, p)
      BY <1>1, <3>2, <3>3, PendingAppended
    <3>5. PendingOf(e, p) = IF p = r THEN q ELSE 0
      BY <3>2 DEF PendingOf
    <3>6. Held(balance'[p], ledger'[p]) = Held(balance[p], ledger[p]) + IF p = r THEN q ELSE 0
      BY <3>1 DEF Counts, OnlyOf
    <3> QED
      BY <1>2, <3>4, <3>5, <3>6
  <2>4. CASE TicketClosed
    <3>1. PICK i \in DOMAIN exceptions, s \in {"RESOLVED", "DISMISSED"}, c \in Int, u \in Int :
             /\ Pending(i) /\ exceptions' = [exceptions EXCEPT ![i].status = s]
             /\ 0 <= u + exceptions[i].quantity
             /\ Counts(exceptions[i].product, c, u) /\ OnlyOf(exceptions[i].product)
      BY <2>4 DEF TicketClosed
    <3>2. PendingUnits(p)' = PendingUnits(p) - PendingOf(exceptions[i], p)
      BY <1>1, <3>1, PendingReviewed
    <3>3. exceptions[i] \in Exceptions
      BY <1>1
    <3>4. exceptions[i].quantity \in Nat /\ exceptions[i].product \in Products
      BY <3>3 DEF Exceptions
    <3>5. PendingOf(exceptions[i], p) = IF p = exceptions[i].product THEN exceptions[i].quantity ELSE 0
      BY <3>1 DEF PendingOf, Pending
    <3>6. Held(balance'[p], ledger'[p]) = Held(balance[p], ledger[p]) + IF p = exceptions[i].product THEN u ELSE 0
      BY <3>1, <3>4 DEF Counts, OnlyOf
    <3> QED
      BY <1>2, <3>1, <3>2, <3>4, <3>5, <3>6
  <2> QED
    BY <2>1, <2>2, <2>3, <2>4
<1>6. /\ Demands \subseteq [Products -> Nat] /\ ReturnQuantities \cup {0} \subseteq Nat
      /\ ReturnProducts \subseteq Products
  <2>1. Quantities \cup {0} \subseteq Nat /\ ReturnQuantities \cup {0} \subseteq Nat /\ ReturnProducts \subseteq Products
    BY InventoryAssumption
  <2>2. ASSUME NEW d \in [Products -> Quantities \cup {0}] PROVE d \in [Products -> Nat]
    BY <2>1
  <2> QED
    BY <2>1, <2>2 DEF Demands
<1>7. CASE \E demand \in Demands : ReserveStock(demand)
  BY <1>1, <1>4, <1>6, <1>7, ReserveCounts DEF Counts, ReserveStock
<1>8. CASE \E claim \in Demands : ReleaseStock(claim)
  BY <1>1, <1>4, <1>6, <1>8, ReleaseCounts DEF Counts, ReleaseStock
<1>9. CASE \E r \in ReturnProducts, good, bad \in ReturnQuantities \cup {0} : ExecuteDisposition(r, good, bad)
  <2>1. /\ Held(balance'[p], ledger'[p]) >= Held(balance[p], ledger[p])
        /\ exceptions' = exceptions
    BY <1>1, <1>6, <1>9, DispositionHolds DEF ExecuteDisposition
  <2>2. StockTyped'
    <3>1. IInv'
      BY IInvIsInductive
    <3> QED
      BY <3>1 DEF IInv, TypeOK, StockTyped
  <2>3. Held(balance'[p], ledger'[p]) \in Int
    BY <2>2 DEF StockTyped, Balances, Ledgers, Held
  <2>4. PendingUnits(p)' = PendingUnits(p)
    BY <2>1 DEF PendingUnits
  <2> QED
    BY <1>2, <2>1, <2>3, <2>4
<1>10. CASE UNCHANGED invVars
  <2>1. PendingUnits(p)' = PendingUnits(p) /\ Held(balance'[p], ledger'[p]) = Held(balance[p], ledger[p])
    BY <1>10 DEF invVars, PendingUnits
  <2> QED
    BY <1>2, <2>1
<1> QED
  BY <1>5, <1>7, <1>8, <1>9, <1>10 DEF InventoryNext

\* The units of every pending ticket are still in quarantine, or as many were disposed of,
\* whatever staff, orders and returns book between report and review: no ticket is
\* reverted twice and none takes the units of another.
THEOREM TicketsStayCovered == InventorySpec => []QuarantineCovered
<1>1. InventoryInit => QuarantineCovered
  <2> SUFFICES ASSUME InventoryInit, NEW p \in Products
               PROVE  PendingUnits(p) <= balance[p].damaged + ledger[p].disposed
    BY DEF QuarantineCovered
  <2>1. DOMAIN exceptions = {}
    BY DEF InventoryInit
  <2>2. PendingUnits(p) = 0
    BY <2>1, SumEmpty DEF PendingUnits
  <2>3. balance[p].damaged >= 0 /\ balance[p].damaged \in Int /\ ledger[p].disposed \in Nat
    BY InitIsSound DEF IInv, TypeOK, BalanceMath, LegalBalance, Balances, Ledgers
  <2> QED
    BY <2>2, <2>3
<1>2. IInv /\ QuarantineCovered /\ [InventoryNext]_invVars => QuarantineCovered'
  BY CoverIsKept
<1> QED
  BY <1>1, <1>2, InventoryIsSound, PTL DEF InventorySpec
===============================================================================
