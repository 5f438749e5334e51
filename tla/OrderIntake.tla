------------------------------ MODULE OrderIntake ------------------------------
(***************************************************************************)
(* What an idempotency key promises a salesman: it names at most one       *)
(* order; a draft can be given up, and its key with it; an order that has  *)
(* been placed under a key keeps that key and its lines for good.          *)
(***************************************************************************)
CONSTANTS
    Keys,       \* idempotency keys
    Placed,     \* what a key may be placed with
    Unused,     \* what a key holds that names no order
    Draft       \* what a key holds that names a draft

VARIABLE holds   \* holds[k]: what key k stands for

Init == holds \in [Keys -> {Unused, Draft}]

Save(k) == holds[k] = Unused /\ holds' = [holds EXCEPT ![k] = Draft]

GiveUp(k) == holds[k] = Draft /\ holds' = [holds EXCEPT ![k] = Unused]

\* A draft may be placed under the key it was saved with or under a newer one.
Place(k) ==
    /\ holds[k] \in {Unused, Draft} /\ holds'[k] \in Placed
    /\ \/ holds' = [holds EXCEPT ![k] = holds'[k]]
       \/ \E old \in Keys \ {k} :
            /\ holds[k] = Unused /\ holds[old] = Draft
            /\ holds' = [holds EXCEPT ![k] = holds'[k], ![old] = Unused]

Next == \E k \in Keys : Save(k) \/ GiveUp(k) \/ Place(k)

Spec == Init /\ [][Next]_holds
================================================================================
