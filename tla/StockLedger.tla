------------------------------ MODULE StockLedger ------------------------------
(***************************************************************************)
(* What the inventory promises, without saying how: every physical unit of *)
(* a product held in the warehouse lies in exactly one bucket, and a       *)
(* committed transaction books each product at most once, as a receipt, a  *)
(* removal or a transfer between two buckets.  No unit appears, vanishes   *)
(* or is counted twice on the way.                                         *)
(***************************************************************************)
EXTENDS Integers

CONSTANT Products      \* the products stocked by the warehouse

VARIABLE bucket        \* bucket[p]: the units of p in each bucket

Buckets == {"AVAILABLE", "RESERVED", "DAMAGED"}

BucketType == [Buckets -> Nat]

Units(b) == b["AVAILABLE"] + b["RESERVED"] + b["DAMAGED"]

\* Goods enter the warehouse, sellable or into quarantine.
Receipt(b, c) ==
    /\ c["RESERVED"] = b["RESERVED"]
    /\ c["AVAILABLE"] >= b["AVAILABLE"]
    /\ c["DAMAGED"] >= b["DAMAGED"]

\* Goods leave the warehouse out of one bucket.
Removal(b, c) ==
    \E k \in Buckets : /\ c[k] <= b[k]
                       /\ \A j \in Buckets \ {k} : c[j] = b[j]

\* Goods change bucket: nothing is gained or lost, the third bucket is left alone.
Transfer(b, c) ==
    /\ Units(c) = Units(b)
    /\ \E k \in Buckets : c[k] = b[k]

Booking(b, c) == Receipt(b, c) \/ Removal(b, c) \/ Transfer(b, c)

Init == bucket \in [Products -> BucketType]

Next ==
    /\ bucket' \in [Products -> BucketType]
    /\ \A p \in Products : Booking(bucket[p], bucket'[p])

Spec == Init /\ [][Next]_bucket
================================================================================
